------------------------- MODULE MCLendingPositions -------------------------
(* The markets of MCLending.tla, with the amounts that change a record.     *)
EXTENDS MCLending, LendingPositions

(* Those of up to eight notes: more than anybody holds. *)
SmallAmounts == {NoteAmount(n) : n \in 0..8}
=============================================================================
