----------------------------- MODULE MCRunMode -----------------------------
(* Model checking of RunMode with a few requests of the firmware.          *)
EXTENDS RunMode

\* all three modifications with the same value
All(v)  == [m \in Mod |-> v]

\* a list that ends before the individual traffic
Short(v) == [m \in {"ModTD"} |-> v]

Mixed == {All("RMS_ON"), All("RMS_OFF"), Short("RMS_ON")}

\* on the page
OffFully == {TARM_OFF, TARM_FULLY}

AllTAs   == {"any", "modified", "demo", "page"}
=============================================================================
