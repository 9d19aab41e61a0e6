SPECIFICATION FairSpec
INVARIANTS TypeOK MutualExclusion FirstComeFirstServed NoLostIncrement
PROPERTY Finishes
CONSTANTS
  N_THREADS = 3
  N_ITERACTIONS = 1
  BUFFER = 2
CHECK_DEADLOCK FALSE
