--------------------------- MODULE MCStateMessage ---------------------------
(* Model checking of StateMessage: a warning of the wrapper, two errors   *)
(* of one format and a report.                                             *)
EXTENDS StateMessage

Warnings  == <<"slip">>
TwoErrors == {"error1", "error2"}
Report    == {"report"}

FormatOf == [k \in Kinds |-> IF k \in Errors THEN "TA error" ELSE k]
=============================================================================
