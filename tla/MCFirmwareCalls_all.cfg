\* All threads, one restart
CONSTANTS
  Locks = {lock, unlock}
  Oitds = {"o1"}
  Values <- MCValues
  None = None
  Others = {"http"}
  MaxCalls = 2
  MaxRestarts = 1
SPECIFICATION FairSpec
\* an undefined state ends a behaviour
CHECK_DEADLOCK FALSE
INVARIANTS
  TypeOK
  LocksKnown
  ValuesFollow
PROPERTIES
  ClientRecovers
