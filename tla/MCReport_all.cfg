\* Three threads on a ring of two lines, more reports than it holds
SPECIFICATION FairReportSpec
CONSTANTS
  Reporters = {"main", "renew", "http"}
  Main = "main"
  MAX_BUF_LINES = 2
  MaxLines = 5
INVARIANTS
  ReportTypeOK
  LinesInOrder
PROPERTY LinesAreWritten
\* the bound on the lines ends a behaviour
CHECK_DEADLOCK FALSE
