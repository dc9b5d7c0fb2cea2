------------------------- MODULE MCPublicTransport -------------------------
(* Model checking of PublicTransport on small lists.                       *)
EXTENDS PublicTransport, TLC

CONSTANTS a1, a2, a3, a4

Addrs == {a1, a2, a3, a4}

Symmetry == Permutations(Addrs)

Inserts == {"tacInsertAmliEventToArchive"}
Reads   == {"tacGetRideEvent"}
=============================================================================
