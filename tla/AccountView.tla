---------------------------- MODULE AccountView ----------------------------
(***************************************************************************)
(* What a page may show of an account on chain: nothing at first, then its *)
(* state in some slot, never that of an earlier slot after a later one.    *)
(* The abstract specification of a subscription.                           *)
(***************************************************************************)
EXTENDS Integers

CONSTANT MaxSlot   \* bound: the last slot of the model

VARIABLES
    slot,      \* of the chain
    history,   \* the account's state in every slot so far: how often it was
               \*   written, 0 as long as it does not exist
    asOf,      \* the slot the page shows, -1 before the first
    shown      \* the state it shows

Nothing == -1

view_vars == <<slot, history, asOf, shown>>

Init ==
    /\ slot = 0 /\ history \in [0..0 -> {0, 1}]
    /\ asOf = -1 /\ shown = Nothing

(* One state per slot: it is written or not. *)
NextSlot ==
    /\ slot < MaxSlot
    /\ slot' = slot + 1
    /\ \E state \in {history[slot], history[slot] + 1} :
           history' = [s \in 0..(slot + 1) |-> IF s <= slot THEN history[s] ELSE state]

ChainMoves == NextSlot /\ UNCHANGED <<asOf, shown>>

Show(s) ==
    /\ s >= asOf
    /\ asOf' = s /\ shown' = history[s]
    /\ UNCHANGED <<slot, history>>

Next == ChainMoves \/ \E s \in 0..slot : Show(s)

Spec == Init /\ [][Next]_view_vars
=============================================================================
