------------------------ MODULE AccountSubscription ------------------------
(***************************************************************************)
(* getAccountInfoAndSubscribe: a page asks for an account and to be        *)
(* notified of its changes, both at once.  Either answer may overtake the  *)
(* other, and notifications each other; every one says which slot it is    *)
(* of.                                                                     *)
(*                                                                         *)
(* The chain and its RPC node are external.  The node notifies of changes  *)
(* from the moment it registered the subscription, which is after          *)
(* onAccountChange has returned.                                           *)
(***************************************************************************)
EXTENDS Integers

CONSTANT MaxSlot   \* bound: the last slot of the model

ASSUME MaxSlotAssumption == MaxSlot \in Nat

VARIABLES
    slot, history,    \* the chain, as in AccountView.tla
    registeredAt,     \* the slot the node registered the subscription in, or -1
    notifications,    \* those under way
    fetch, response,  \* getAccountInfoAndContext, and what the node answered
    latestSlot,       \* the variable both callbacks close over
    shown             \* what callback was last called with

View == INSTANCE AccountView WITH asOf <- latestSlot

chain == <<slot, history>>
vars == <<slot, history, registeredAt, notifications, fetch, response,
          latestSlot, shown>>

Context(s, state) == [slot |-> s, state |-> state]

NoResponse == Context(-1, View!Nothing)

Init ==
    /\ View!Init
    /\ registeredAt = -1 /\ notifications = {}
    /\ fetch = "asked" /\ response = NoResponse

-----------------------------------------------------------------------------
(* The chain and the node.                                                 *)

NextSlot ==
    /\ View!NextSlot
    /\ notifications' =
           IF registeredAt # -1 /\ history'[slot'] # history[slot]
           THEN notifications \union {Context(slot', history'[slot'])}
           ELSE notifications
    /\ UNCHANGED <<registeredAt, fetch, response, latestSlot, shown>>

Register ==
    /\ registeredAt = -1
    /\ registeredAt' = slot
    /\ UNCHANGED <<chain, notifications, fetch, response, latestSlot, shown>>

Answer ==
    /\ fetch = "asked"
    /\ fetch' = "answered" /\ response' = Context(slot, history[slot])
    /\ UNCHANGED <<chain, registeredAt, notifications, latestSlot, shown>>

-----------------------------------------------------------------------------
(* The page.                                                               *)

Use(context) == latestSlot' = context.slot /\ shown' = context.state
Drop == UNCHANGED <<latestSlot, shown>>

OnlyAfterFetch(context) == latestSlot # -1 /\ context.slot >= latestSlot   \* mutant
NotifiedLatest(context) == context.slot >= latestSlot

AlwaysLatest(context) == TRUE   \* mutant
FetchedLatest(context) == context.slot >= latestSlot

OnAccountChange(n) ==
    /\ n \in notifications
    /\ notifications' = notifications \ {n}
    /\ IF NotifiedLatest(n) THEN Use(n) ELSE Drop
    /\ UNCHANGED <<chain, registeredAt, fetch, response>>

OnResponse ==
    /\ fetch = "answered"
    /\ fetch' = "used"
    /\ IF FetchedLatest(response) THEN Use(response) ELSE Drop
    /\ UNCHANGED <<chain, registeredAt, notifications, response>>

Page == OnResponse \/ \E n \in notifications : OnAccountChange(n)

Next == NextSlot \/ Register \/ Answer \/ Page

Spec == Init /\ [][Next]_vars

(* The node answers and registers, and what it sends arrives. *)
FairSpec ==
    /\ Spec
    /\ WF_vars(Register) /\ WF_vars(Answer) /\ WF_vars(OnResponse)
    /\ \A n \in [slot : 0..MaxSlot, state : 0..(MaxSlot + 1)] : WF_vars(OnAccountChange(n))

-----------------------------------------------------------------------------
(* Whatever overtakes what, the page shows states the account was in, each *)
(* as of its slot, and never goes back to an earlier slot.                 *)
ImplementsView == View!Spec

(* The last change was made after the fetch was answered and before the    *)
(* node registered the subscription: neither tells of it.                  *)
InTheGap ==
    /\ fetch # "asked" /\ response.slot < registeredAt
    /\ history[response.slot] # history[registeredAt]
    /\ history[registeredAt] = history[slot]

(* But for such a change the page shows the account as it is in the end.   *)
EventuallyCurrent == <>[](InTheGap \/ shown = history[slot])
=============================================================================
