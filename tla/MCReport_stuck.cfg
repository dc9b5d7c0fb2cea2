\* Two threads pass the test for an overflow together
SPECIFICATION ReportSpec
CONSTANTS
  Reporters = {"main", "renew"}
  Main = "main"
  MAX_BUF_LINES = 2
  MaxLines = 6
INVARIANT NotReadyIsInPreparation
CHECK_DEADLOCK FALSE
