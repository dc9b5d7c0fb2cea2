\* Lost calls, refused calls and restarts at any time
CONSTANTS
  Lease = 120
  RenewPeriod = 90
  RetryPause = 5
  Timeout = 5
  ConnectTimeout = 12
  Latency = 1
  Downtime = 2
  Tolerated = 1
SPECIFICATION FairSubSpec
\* the process may crash
CHECK_DEADLOCK FALSE
INVARIANTS
  LeaseHeld
  AllOrNothing
PROPERTIES
  ComesBack
