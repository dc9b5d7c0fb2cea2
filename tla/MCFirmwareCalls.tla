--------------------------- MODULE MCFirmwareCalls ----------------------------
(* Model checking of FirmwareCalls: -1 is the value that counts as sent    *)
(* already when a variable is subscribed.                                  *)
EXTENDS FirmwareCalls

MCValues == {-1, 7}
=============================================================================
