\* Fills that fail, and versions activated, between any two steps
CONSTANTS
  v1 = v1
  v2 = v2
  None = None
  Version <- Versions
  Cfg <- Contents
  MAX_SIGNALGRUPPEN = 3
  MAX_ZZ_MATRIZEN = 2
SPECIFICATION Spec
INVARIANTS
  FilledMatches
  DerivedAgree
  ReadyIsFilled
