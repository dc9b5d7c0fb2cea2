\* An AMLI does not wait for ever, and the TA reads a ride event once
CONSTANTS
  a1 = a1
  a2 = a2
  a3 = a3
  a4 = a1
  Addr <- Addrs
  MAX_TELEGRAMS = 2
  MAX_ARCHIVED_TELEGRAMS = 1
  RideBound = 3
  AmliBound = 2
  HttpApi <- Inserts
SPECIFICATION FairSpec
\* the bounds on received telegrams end a behaviour
CHECK_DEADLOCK FALSE
INVARIANTS
  RideEventReadOnce
PROPERTIES
  AmliLeaves
