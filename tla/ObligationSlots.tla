-------------------------- MODULE ObligationSlots --------------------------
(***************************************************************************)
(* The two ObligationSide arrays in which an obligation account keeps its  *)
(* positions.  Registration scans for the first free slot and gives up on  *)
(* an account or reserve it meets on the way; unregistering only blanks    *)
(* the account of a slot, which leaves holes; every other operation uses   *)
(* the first slot with the account it wants.                               *)
(*                                                                         *)
(* A token account is named by its reserve: its address is derived from    *)
(* the reserve and the obligation, and it is created together with its     *)
(* position, which fails if it exists (`open` are those that exist).       *)
(* Definitions marked as mutants are no part of the model.                 *)
(***************************************************************************)
EXTENDS Obligation

CONSTANTS
    SlotCount,        \* length of the positions array
    Unused,           \* Pubkey::default(), and the index of a zeroed slot
    NoteAmounts,      \* the amounts one handler adds or subtracts
    MaxAmount         \* bound: the largest amount of a position

(* 16 slots a side, and at most 11 positions in all. *)
ASSUME SlotCountAssumption == SlotCount \in Nat /\ MaxPositions <= SlotCount
ASSUME UnusedAssumption == Unused \notin Reserves
ASSUME SlotAmountsAssumption == NoteAmounts \subseteq Nat /\ MaxAmount \in Nat

VARIABLES
    positions,        \* the arrays Obligation.collateral and Obligation.loans
    open              \* the token accounts that exist for this obligation

vars == <<positions, open>>

Side == {"Collateral", "Loan"}
Slots == 1..SlotCount

Position == [account : Reserves \union {Unused},
             reserve_index : Reserves \union {Unused}, amount : Nat]

WithoutIndex(r) == [account |-> r, reserve_index |-> Unused, amount |-> 0]   \* mutant
NewPosition(r) == [account |-> r, reserve_index |-> r, amount |-> 0]

ZeroedPositions == [s \in Side |-> [i \in Slots |->
    [account |-> Unused, reserve_index |-> Unused, amount |-> 0]]]

Init ==
    /\ positions = ZeroedPositions
    /\ open = [s \in Side |-> {}]

(* What a scan for an account finds: the first slot that holds it. *)
Finds(side, i, account) ==
    /\ positions[side][i].account = account
    /\ \A j \in 1..(i - 1) : positions[side][j].account # account

Occupied(side) == {i \in Slots : positions[side][i].account # Unused}

CollateralSlots == Cardinality(Occupied("Collateral"))   \* mutant
SlotsInUse == Cardinality(Occupied("Collateral")) + Cardinality(Occupied("Loan"))

(* Registration takes the first free slot, and panics when it passes one   *)
(* of the same reserve.                                                    *)
TakesSlot(side, i, r) ==
    /\ Finds(side, i, Unused)
    /\ \A j \in 1..(i - 1) : positions[side][j].reserve_index # r

RegisterAgain(side, r) ==   \* mutant
    /\ SlotsInUse < MaxPositions
    /\ \E i \in Slots :
        /\ TakesSlot(side, i, r)
        /\ positions' = [positions EXCEPT ![side][i] = NewPosition(r)]
    /\ open' = [open EXCEPT ![side] = @ \union {r}]
(* ObligationSide::register, with the creation of the token account. *)
RegisterPosition(side, r) ==
    /\ r \notin open[side]
    /\ SlotsInUse < MaxPositions
    /\ \E i \in Slots :
        /\ TakesSlot(side, i, r)
        /\ positions' = [positions EXCEPT ![side][i] = NewPosition(r)]
    /\ open' = [open EXCEPT ![side] = @ \union {r}]

KeepsAccount(side, r) ==   \* mutant
    /\ r \in open[side]
    /\ \E i \in Slots : Finds(side, i, r) /\ positions[side][i].amount = 0
    /\ positions' = positions
    /\ open' = [open EXCEPT ![side] = @ \ {r}]
(* ObligationSide::unregister, once the token account is empty. *)
UnregisterPosition(side, r) ==
    /\ r \in open[side]
    /\ \E i \in Slots :
        /\ Finds(side, i, r)
        /\ positions[side][i].amount = 0
        /\ positions' = [positions EXCEPT ![side][i].account = Unused]
    /\ open' = [open EXCEPT ![side] = @ \ {r}]

AddPosition(side, r, amount) ==
    /\ \E i \in Slots :
        /\ Finds(side, i, r)
        /\ positions[side][i].amount + amount <= MaxAmount
        /\ positions' = [positions EXCEPT ![side][i].amount = @ + amount]
    /\ UNCHANGED open

SubtractPlain(side, r, amount) ==   \* mutant
    /\ \E i \in Slots :
        /\ Finds(side, i, r)
        /\ positions' = [positions EXCEPT ![side][i].amount = @ - amount]
    /\ UNCHANGED open
SubtractPosition(side, r, amount) ==
    /\ \E i \in Slots :
        /\ Finds(side, i, r)
        /\ positions' = [positions EXCEPT ![side][i].amount = SaturatingSub(@, amount)]
    /\ UNCHANGED open

(* A liquidation takes collateral and repays the loan in one instruction.  *)
LiquidatePositions(c, r, taken, repaid) ==
    /\ \E i, j \in Slots :
        /\ Finds("Collateral", i, c) /\ Finds("Loan", j, r)
        /\ positions' = [positions EXCEPT
               !["Collateral"][i].amount = SaturatingSub(@, taken),
               !["Loan"][j].amount = SaturatingSub(@, repaid)]
    /\ UNCHANGED open

(* close_obligation, and init_obligation again: only an account without    *)
(* positions is closed, and a new one is all zeroes.                       *)
RenewObligation ==
    /\ SlotsInUse = 0
    /\ positions' = ZeroedPositions
    /\ UNCHANGED open

Next ==
    \/ RenewObligation
    \/ \E side \in Side, r \in Reserves :
        \/ RegisterPosition(side, r) \/ UnregisterPosition(side, r)
        \/ \E amount \in NoteAmounts :
               AddPosition(side, r, amount) \/ SubtractPosition(side, r, amount)
    \/ \E c, r \in Reserves, taken, repaid \in NoteAmounts :
           LiquidatePositions(c, r, taken, repaid)

Spec == Init /\ [][Next]_vars

-----------------------------------------------------------------------------
Accounts(side) == {positions[side][i].account : i \in Slots} \ {Unused}

AmountOf(side, r) ==
    IF r \in Accounts(side)
    THEN positions[side][CHOOSE i \in Slots : Finds(side, i, r)].amount
    ELSE 0

(* The record the slots stand for. *)
Recorded ==
    [collateral_accounts |-> Accounts("Collateral"), loan_accounts |-> Accounts("Loan"),
     collateral |-> [r \in Reserves |-> AmountOf("Collateral", r)],
     loans |-> [r \in Reserves |-> AmountOf("Loan", r)]]

(* The slots behave as the sets of positions Lending.tla reasons with:     *)
(* holes, reused slots and the order of scans are never observable.        *)
P == INSTANCE Positions WITH obligation <- Recorded
ImplementsPositions == P!Spec

(* Slots and their contents keep their types. *)
TypeOK ==
    /\ positions \in [Side -> [Slots -> Position]]
    /\ open \in [Side -> SUBSET Reserves]

(* No account is recorded in two slots of a side, although registration    *)
(* stops scanning at the first hole: a second slot would be valued by      *)
(* is_healthy but never found by a withdrawal or a repayment.              *)
NoDuplicates ==
    \A side \in Side : \A i, j \in Slots :
        positions[side][i].account = positions[side][j].account
            => i = j \/ positions[side][i].account = Unused

(* A token account exists exactly while a position records it, under its   *)
(* own reserve: none is valued that is gone, none is lost that holds notes.*)
RecordedWhileOpen ==
    \A side \in Side :
        /\ Accounts(side) = open[side]
        /\ \A i \in Occupied(side) :
               positions[side][i].reserve_index = positions[side][i].account

(* Below the limit, a position that is not open can be registered: its     *)
(* side has a hole, and no slot before the first holds the same reserve.   *)
RegistrationSucceeds ==
    \A side \in Side : \A r \in Reserves \ open[side] :
        SlotsInUse < MaxPositions => \E i \in Slots : TakesSlot(side, i, r)
=============================================================================
