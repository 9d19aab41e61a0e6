SPECIFICATION ServiceSpec
INVARIANTS SumIsTotal ReplyCounts ShownInOrder OncePerSeqn
CONSTANTS
  Server = {2000, 2004}
  PRIMARY_PORT = 2000
  MAX_REPLICAS = 10
  REPLICA_TIMEOUT = 0
  PRIMARY_TIMEOUT = 0
  BURST = 2
  Sums <- SmallSums
  Seqns <- SmallSeqns
  RCVBUF = 3
  MAX_HEARTBEATS = 0
  MAX_STARTS = 1
  MAX_UPDATES = 2
  Lossy = TRUE
  Client = {c1}
  Numbers = {1}
  MAX_ADDS = 1
