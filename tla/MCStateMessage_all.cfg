\* Every operation, a cache that fills, lost calls, two threads
CONSTANTS
  MaxMsg = 4
  Checks <- Warnings
  Errors <- TwoErrors
  Reports <- Report
  Format <- FormatOf
SPECIFICATION Spec
\* after undefined behaviour nothing is said
CHECK_DEADLOCK FALSE
INVARIANTS
  TypeOK
  RecordsAgree
  FirmwareInSync
  UnsentKept
PROPERTIES
  WarningDrains
