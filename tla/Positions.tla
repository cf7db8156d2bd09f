----------------------------- MODULE Positions -----------------------------
(***************************************************************************)
(* What the record of an obligation's positions promises the handlers:     *)
(* the sets of registered accounts and an amount for each, as Lending.tla  *)
(* uses them: LendingPositions.tla shows that no instruction does anything *)
(* else to it.  ObligationSlots.tla implements it in arrays of slots.      *)
(***************************************************************************)
EXTENDS Obligation

CONSTANT NoteAmounts     \* the amounts one handler adds or subtracts

VARIABLE obligation

Init == obligation = NewObligation

OpenCollateral(r) ==
    /\ r \notin obligation.collateral_accounts
    /\ PositionCount(obligation) < MaxPositions
    /\ obligation' = RegisterCollateral(obligation, r)

OpenLoan(r) ==
    /\ r \notin obligation.loan_accounts
    /\ PositionCount(obligation) < MaxPositions
    /\ obligation' = RegisterLoan(obligation, r)

CloseCollateral(r) ==
    /\ r \in obligation.collateral_accounts
    /\ obligation.collateral[r] = 0
    /\ obligation' = UnregisterCollateral(obligation, r)

CloseLoan(r) ==
    /\ r \in obligation.loan_accounts
    /\ obligation.loans[r] = 0
    /\ obligation' = UnregisterLoan(obligation, r)

ChangeCollateral(r, amount) ==
    /\ r \in obligation.collateral_accounts
    /\ \/ obligation' = AddCollateral(obligation, r, amount)
       \/ obligation' = SubtractCollateral(obligation, r, amount)

ChangeLoan(r, amount) ==
    /\ r \in obligation.loan_accounts
    /\ \/ obligation' = AddLoan(obligation, r, amount)
       \/ obligation' = SubtractLoan(obligation, r, amount)

(* A liquidation reduces a position on each side at once. *)
Liquidate(c, r, taken, repaid) ==
    /\ c \in obligation.collateral_accounts /\ r \in obligation.loan_accounts
    /\ obligation' = SubtractLoan(SubtractCollateral(obligation, c, taken), r, repaid)

(* An obligation without positions may be closed, and created again. *)
Renew ==
    /\ PositionCount(obligation) = 0
    /\ obligation' = NewObligation

Next ==
    \/ Renew
    \/ \E r \in Reserves :
        \/ OpenCollateral(r) \/ CloseCollateral(r)
        \/ OpenLoan(r) \/ CloseLoan(r)
        \/ \E amount \in NoteAmounts : ChangeCollateral(r, amount) \/ ChangeLoan(r, amount)
    \/ \E c, r \in Reserves, taken, repaid \in NoteAmounts : Liquidate(c, r, taken, repaid)

Spec == Init /\ [][Next]_obligation
=============================================================================
