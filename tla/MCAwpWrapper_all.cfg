CONSTANTS
  sg1 = sg1
  sg2 = sg2
  Sg <- Groups
  TaCallIntervallMs = 2
  CycleTime = 6
  ValidDuration = 4
  MaxEvents = 2
  Offsets <- AllOffsets
  Ahead <- OneAhead
  MitigateSettings <- OnOff
  Steps <- OneThree
  TickBound = 6
SPECIFICATION Spec
SYMMETRY Alike
\* the bound on the ticks ends a behaviour
CHECK_DEADLOCK FALSE
INVARIANTS
  TypeOK
  MitigatesToNext
  OneEventPerSg
PROPERTIES
  TakeEffectAdvances
  BlamesOnlyDue
