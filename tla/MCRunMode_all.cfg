\* All kinds of TA, lossy reports, a signal at any time
CONSTANTS
  Requests <- Mixed
  TAs <- AllTAs
  PageModes <- OffFully
  SetDelay = 1
SPECIFICATION FairSpec
\* the process may end
CHECK_DEADLOCK FALSE
INVARIANTS
  TypeOK
  KnownByFirmware
  ExitTold
  EndsOnlyUnrequested
PROPERTIES
  ResponseArrives
  OffHonoured
