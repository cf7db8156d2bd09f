----------------------------- MODULE Obligation -----------------------------
(***************************************************************************)
(* The arithmetic of one obligation: its positions, their market values,   *)
(* its health, and what a liquidator may take.                             *)
(*                                                                         *)
(* A position is known by its reserve: the token account it stands for is  *)
(* derived from the reserve and the obligation, one for each side.  The    *)
(* 16-slot arrays the program keeps the positions in are the subject of    *)
(* ObligationSlots.tla.  Position amounts are Numbers, as in the program.  *)
(***************************************************************************)
EXTENDS Reserve, FiniteSetsExt

CONSTANTS
    Reserves,
    MaxPositions,               \* MAX_OBLIGATION_POSITIONS
    MinPartialLiquidationValue  \* MIN_PARTIAL_LIQUIDATION_VALUE, as a Number

ASSUME ReservesAssumption == IsFiniteSet(Reserves)
ASSUME MaxPositionsAssumption == MaxPositions \in Nat
ASSUME MinPartialAssumption == MinPartialLiquidationValue \in Nat

ObligationState ==
    [collateral_accounts : SUBSET Reserves, loan_accounts : SUBSET Reserves,
     collateral : [Reserves -> Nat], loans : [Reserves -> Nat]]

NewObligation ==
    [collateral_accounts |-> {}, loan_accounts |-> {},
     collateral |-> [r \in Reserves |-> 0], loans |-> [r \in Reserves |-> 0]]

CollateralCount(o) == Cardinality(o.collateral_accounts)   \* mutant
PositionCount(o) == Cardinality(o.collateral_accounts) + Cardinality(o.loan_accounts)

(* A position starts at zero, and so does one registered anew. *)
RegisterCollateral(o, r) ==
    [o EXCEPT !.collateral_accounts = @ \union {r}, !.collateral[r] = 0]
RegisterLoan(o, r) ==
    [o EXCEPT !.loan_accounts = @ \union {r}, !.loans[r] = 0]

UnregisterCollateral(o, r) == [o EXCEPT !.collateral_accounts = @ \ {r}]
UnregisterLoan(o, r) == [o EXCEPT !.loan_accounts = @ \ {r}]

AddCollateral(o, r, amount) == [o EXCEPT !.collateral[r] = @ + amount]
SubtractOtherSide(o, r, amount) == [o EXCEPT !.loans[r] = SaturatingSub(@, amount)]   \* mutant
SubtractUnchecked(o, r, amount) == [o EXCEPT !.collateral[r] = @ - amount]   \* mutant
SubtractCollateral(o, r, amount) == [o EXCEPT !.collateral[r] = SaturatingSub(@, amount)]
AddLoan(o, r, amount) == [o EXCEPT !.loans[r] = @ + amount]
SubtractLoan(o, r, amount) == [o EXCEPT !.loans[r] = SaturatingSub(@, amount)]

-----------------------------------------------------------------------------
(* Values at the cached prices and rates.                                  *)

NoteValue(amount, rate, price) == Mul(Mul(amount, rate), price)

CollateralValue(o, infos) ==
    MapThenSumSet(LAMBDA r : NoteValue(o.collateral[r],
                      infos[r].deposit_note_exchange_rate, infos[r].price),
                  o.collateral_accounts)

LoanValue(o, infos) ==
    MapThenSumSet(LAMBDA r : NoteValue(o.loans[r],
                      infos[r].loan_note_exchange_rate, infos[r].price),
                  o.loan_accounts)

(* get_cached panics on any registered position whose reserve is stale. *)
PositionsFresh(o, infos, current_slot) ==
    \A r \in o.collateral_accounts \union o.loan_accounts :
        Fresh(infos[r], current_slot, ReserveTTL)

MaxMinCollateralRatio(o, infos) ==
    Max({infos[r].min_collateral_ratio : r \in o.loan_accounts})

IsHealthy(o, infos) ==
    o.loan_accounts # {} =>
        Mul(LoanValue(o, infos), MaxMinCollateralRatio(o, infos))
            <= CollateralValue(o, infos)

-----------------------------------------------------------------------------
(* calculate_liquidation.                                                  *)

CRatioLtv(o, infos, loan) ==
    Mul(infos[loan].min_collateral_ratio,
        Div(LoanValue(o, infos), CollateralValue(o, infos)))

(* min_c_ratio / (1 + bonus), from which 1 is subtracted. *)
RatioOverBonus(infos, loan, collateral) ==
    Div(infos[loan].min_collateral_ratio, ONE + infos[collateral].liquidation_bonus)

(* It errs on an over-collateralised loan, and panics on a division by     *)
(* zero or a difference below zero.                                        *)
CanLiquidate(o, infos, loan, collateral) ==
    /\ CollateralValue(o, infos) > 0
    /\ LoanValue(o, infos) > 0
    /\ CRatioLtv(o, infos, loan) >= ONE
    /\ RatioOverBonus(infos, loan, collateral) > ONE
    /\ infos[collateral].price > 0
    /\ infos[collateral].deposit_note_exchange_rate > 0

RepaidValue(infos, loan, repaid_notes_amount) ==
    NoteValue(repaid_notes_amount, infos[loan].loan_note_exchange_rate, infos[loan].price)

(* What may be sold for a repayment: its value and the bonus, up to what   *)
(* restores the ratio, but any small amount at once.                       *)
SellableValue(o, infos, loan, collateral, repaid_notes_amount) ==
    LET limit_fraction == Div(CRatioLtv(o, infos, loan) - ONE,
                              RatioOverBonus(infos, loan, collateral) - ONE)
        with_bonus     == Mul(ONE + infos[collateral].liquidation_bonus,
                              RepaidValue(infos, loan, repaid_notes_amount))
    IN  Greatest(MinPartialLiquidationValue,
                 Least(with_bonus, Mul(limit_fraction, CollateralValue(o, infos))))

(* And no larger a share of the collateral than is repaid of the loans.    *)
MaxCollateralValue(o, infos, loan, collateral, repaid_notes_amount) ==
    Least(Mul(CollateralValue(o, infos),
              Div(RepaidValue(infos, loan, repaid_notes_amount), LoanValue(o, infos))),
          SellableValue(o, infos, loan, collateral, repaid_notes_amount))

CalculateLiquidation(o, infos, loan, collateral, repaid_notes_amount) ==
    LET value == MaxCollateralValue(o, infos, loan, collateral, repaid_notes_amount)
    IN  Least(Div(Div(value, infos[collateral].price),
                  infos[collateral].deposit_note_exchange_rate),
              o.collateral[collateral])
=============================================================================
