SPECIFICATION DescendingFailover
PROPERTY Failover
CONSTANTS
  Server = {2000, 2004, 2008}
  PRIMARY_PORT = 2000
  MAX_REPLICAS = 10
  REPLICA_TIMEOUT = 0
  PRIMARY_TIMEOUT = 1
  BURST = 1
  Sums = {5}
  Seqns = {1}
  RCVBUF = 6
  MAX_HEARTBEATS = 1
  MAX_STARTS = 1
  MAX_UPDATES = 1
  Lossy = FALSE
