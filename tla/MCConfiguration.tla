--------------------------- MODULE MCConfiguration ---------------------------
(* Model checking of Configuration with two versions: each has groups,     *)
(* tables, plans and detectors that the other lacks.                       *)
EXTENDS Configuration, TLC

CONSTANTS v1, v2

Versions == {v1, v2}

Contents ==
  v1 :> [dets |-> {1}, tables |-> {1, 2}, plans |-> <<1, 2>>,
         groups |-> (1 :> [pi |-> 1, lists |-> {101}]) @@
                    (2 :> [pi |-> 2, lists |-> {201, 202}])] @@
  v2 :> [dets |-> {1, 2}, tables |-> {1}, plans |-> <<2>>,
         groups |-> (1 :> [pi |-> 1, lists |-> {102}]) @@
                    (3 :> [pi |-> 1, lists |-> {301}])]
=============================================================================
