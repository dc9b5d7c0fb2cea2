\* Edges, gaps and occupancy with lost packages, refills and restarts
CONSTANTS
  Det <- OneDet
  ZsMax = 2
  LsMax = 1
  UshortMax = 3
  BuPeriod = 2
  AlphaUp = 50
  AlphaDown = 25
  SetValues <- Values
  MaxEdges = 3
  VehicleBound = 3
  UptimeBound = 1
SPECIFICATION Spec
\* the process may crash
CHECK_DEADLOCK FALSE
INVARIANTS
  TypeOK
  AuCurrent
  VehiclesCounted
  BuBounded
