SPECIFICATION PrimaryFirstSpec
INVARIANTS ServiceTypeOK InSync ListedIsReached
PROPERTY HeirKeepsAnswers
CONSTANTS
  Server = {2000, 2004}
  PRIMARY_PORT = 2000
  MAX_REPLICAS = 10
  REPLICA_TIMEOUT = 0
  PRIMARY_TIMEOUT = 0
  BURST = 2
  Sums <- SmallSums
  Seqns <- SmallSeqns
  RCVBUF = 8
  MAX_HEARTBEATS = 0
  MAX_STARTS = 2
  MAX_UPDATES = 2
  Lossy = FALSE
  Client = {c1}
  Numbers = {1}
  MAX_ADDS = 1
