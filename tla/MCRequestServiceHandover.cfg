SPECIFICATION ConnectedSpec
PROPERTY PrimaryUpdates
CONSTANTS
  Server = {2000, 2004}
  PRIMARY_PORT = 2000
  MAX_REPLICAS = 10
  REPLICA_TIMEOUT = 0
  PRIMARY_TIMEOUT = 0
  BURST = 2
  Sums <- SmallSums
  Seqns <- SmallSeqns
  RCVBUF = 8
  MAX_HEARTBEATS = 1
  MAX_STARTS = 1
  MAX_UPDATES = 3
  Lossy = FALSE
  Client = {c1}
  Numbers = {1}
  MAX_ADDS = 2
