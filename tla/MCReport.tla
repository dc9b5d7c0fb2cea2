------------------------------- MODULE MCReport -------------------------------
(* Instances of Report.                                                    *)
EXTENDS Report
=============================================================================
