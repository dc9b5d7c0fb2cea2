\* AMLI telegrams: sending, overflow, archive and memory reuse
CONSTANTS
  a1 = a1
  a2 = a2
  a3 = a3
  a4 = a4
  Addr <- Addrs
  MAX_TELEGRAMS = 2
  MAX_ARCHIVED_TELEGRAMS = 1
  RideBound = 2
  AmliBound = 4
  HttpApi <- Reads
SPECIFICATION Spec
SYMMETRY Symmetry
\* the bounds on received telegrams end a behaviour
CHECK_DEADLOCK FALSE
INVARIANTS
  TypeOK
  TelegramsIntact
  ProcessedWasTaken
PROPERTIES
  QueuesRefined
  OnlyOverflowLoses
