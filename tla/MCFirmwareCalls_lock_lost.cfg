\* The TA alone, no restart: an answer that gets lost
CONSTANTS
  Locks = {lock, unlock}
  Oitds = {"o1"}
  Values <- MCValues
  None = None
  Others = {}
  MaxCalls = 2
  MaxRestarts = 0
SPECIFICATION Spec
CHECK_DEADLOCK FALSE
INVARIANT SuccessMeansSet
