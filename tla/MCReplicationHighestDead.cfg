SPECIFICATION HighestDeadFailover
PROPERTY SomeoneLeads
CONSTANTS
  Server = {2000, 2004, 2008}
  PRIMARY_PORT = 2000
  MAX_REPLICAS = 10
  REPLICA_TIMEOUT = 0
  PRIMARY_TIMEOUT = 1
  BURST = 1
  Sums = {6}
  Seqns = {2}
  RCVBUF = 6
  MAX_HEARTBEATS = 1
  MAX_STARTS = 1
  MAX_UPDATES = 2
  Lossy = FALSE
