------------------------- MODULE MCObligationSlots -------------------------
(* Three reserves, three slots a side, and room for three positions in all. *)
EXTENDS ObligationSlots

CONSTANTS r1, r2, r3

ThreeReserves == {r1, r2, r3}
=============================================================================
