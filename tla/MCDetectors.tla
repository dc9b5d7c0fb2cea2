----------------------------- MODULE MCDetectors -----------------------------
(* Model checking of Detectors with one detector, which the configuration  *)
(* of the firmware holds or not.  The TA sets a value above the limits.    *)
EXTENDS Detectors

OneDet == {1}
Values == {0, UshortMax}
=============================================================================
