-------------------------- MODULE LendingPositions --------------------------
(***************************************************************************)
(* The lending program implements, for every user, the abstract record of  *)
(* positions of Positions.tla: together with ObligationSlots.tla, which    *)
(* implements the same record in arrays, this closes the gap between the   *)
(* sets of positions Lending.tla reasons with and the bytes of the account.*)
(***************************************************************************)
EXTENDS LendingProperties

CONSTANT NoteAmounts     \* the amounts one handler adds or subtracts

P(u) == INSTANCE Positions WITH obligation <- obligation[u]

(* Every handler changes an obligation's record only by one operation of   *)
(* Obligation, within its preconditions: an account is registered once and *)
(* within the limit, it is only unregistered while the record says that it *)
(* is empty, although the handlers look at the token account instead, and  *)
(* no amount changes but that of a registered account.                     *)
ObligationsArePositions ==
    /\ \A u \in Users : P(u)!Init
    /\ [][\A u \in Users : P(u)!Next \/ UNCHANGED obligation[u]]_vars
=============================================================================
