SPECIFICATION Spec
INVARIANTS TypeOK RoleMatchesLeader NoTornState
PROPERTIES LeadershipSpec SteppedDownStaysDown
CONSTANTS
  Server = {2000, 2004}
  PRIMARY_PORT = 2000
  MAX_REPLICAS = 10
  REPLICA_TIMEOUT = 0
  PRIMARY_TIMEOUT = 1
  BURST = 2
  Sums = {5}
  Seqns = {1}
  RCVBUF = 3
  MAX_HEARTBEATS = 1
  MAX_STARTS = 2
  MAX_UPDATES = 1
  Lossy = TRUE
