-------------------------- MODULE ReserveInterest --------------------------
(***************************************************************************)
(* A reserve that is lent to and borrowed from while its interest rate     *)
(* follows its utilization.  Of the reserve only what the rate depends on  *)
(* is kept; who may act and when is the subject of Lending.tla, here       *)
(* anybody may at any time.  A refresh that panics is one that does not    *)
(* happen: RefreshNeverPanics says there is none.                          *)
(***************************************************************************)
EXTENDS InterestRate

CONSTANTS
    Curves,          \* the curves the market owner sets
    TokenAmounts,    \* of deposits, withdrawals, loans and repayments
    Fees,            \* the origination fee of a loan, in tokens
    MaxDeposits,     \* bound: the most tokens in the vault
    MaxDebt,         \* bound: no loans or accruals from this debt on
    MaxTime          \* bound: the last second of the model

ASSUME CurvesAssumption ==
    /\ \A c \in Curves : SaneCurve(c) /\ c.borrow_rate_3 <= 2 * ONE /\ c.borrow_rate_2 <= 2 * ONE
    /\ TokenAmounts \subseteq Nat /\ Fees \subseteq Nat
    /\ MaxDeposits \in Nat /\ MaxDebt \in Nat /\ MaxTime \in Nat

VARIABLES
    curve,             \* Reserve.config
    outstanding_debt,  \* ReserveState, a Number
    total_deposits,    \*   and tokens in the vault
    accrued_until, unix_timestamp

vars == <<curve, outstanding_debt, total_deposits, accrued_until, unix_timestamp>>

Init ==
    /\ curve \in Curves
    /\ outstanding_debt = 0 /\ total_deposits = 0
    /\ accrued_until = 0 /\ unix_timestamp = 0

AtLeastAWeek == Greatest(unix_timestamp - accrued_until, SECONDS_PER_WEEK)   \* mutant
Uncapped == unix_timestamp - accrued_until   \* mutant
(* A week of the time that was not charged yet, at most. *)
TimeToAccrue == Least(unix_timestamp - accrued_until, SECONDS_PER_WEEK)

Rate == BorrowRate(curve, outstanding_debt, total_deposits)

CanRefresh ==
    /\ CanComputeRate(curve, outstanding_debt, total_deposits)
    /\ TimeToAccrue > 0 => CanCompound(Rate, TimeToAccrue)

Deposit(n) ==
    /\ total_deposits + n <= MaxDeposits
    /\ total_deposits' = total_deposits + n
    /\ UNCHANGED <<curve, outstanding_debt, accrued_until, unix_timestamp>>

Withdraw(n) ==
    /\ n <= total_deposits
    /\ total_deposits' = total_deposits - n
    /\ UNCHANGED <<curve, outstanding_debt, accrued_until, unix_timestamp>>

(* The fee of a loan is owed too. *)
Borrow(n, fees) ==
    /\ n <= total_deposits /\ outstanding_debt < MaxDebt
    /\ total_deposits' = total_deposits - n
    /\ outstanding_debt' = outstanding_debt + FromU64(n) + FromU64(fees)
    /\ UNCHANGED <<curve, accrued_until, unix_timestamp>>

(* The leftover fraction is dropped if the last loan note goes. *)
Repay(n) ==
    LET debt == outstanding_debt - FromU64(n)
    IN  /\ FromU64(n) <= outstanding_debt
        /\ total_deposits + n <= MaxDeposits
        /\ total_deposits' = total_deposits + n
        /\ \/ outstanding_debt' = debt
           \/ debt < ONE /\ outstanding_debt' = 0
        /\ UNCHANGED <<curve, accrued_until, unix_timestamp>>

Refresh ==
    /\ CanRefresh /\ TimeToAccrue > 0 /\ outstanding_debt < MaxDebt
    /\ outstanding_debt' = outstanding_debt
           + Mul(outstanding_debt, CompoundInterest(Rate, TimeToAccrue))
    /\ accrued_until' = accrued_until + TimeToAccrue
    /\ UNCHANGED <<curve, total_deposits, unix_timestamp>>

UpdateReserveConfig(c) ==
    /\ curve' = c
    /\ UNCHANGED <<outstanding_debt, total_deposits, accrued_until, unix_timestamp>>

Tick ==
    /\ unix_timestamp < MaxTime
    /\ unix_timestamp' = unix_timestamp + 1
    /\ UNCHANGED <<curve, outstanding_debt, total_deposits, accrued_until>>

Next ==
    \/ \E n \in TokenAmounts :
        \/ Deposit(n) \/ Withdraw(n) \/ Repay(n)
        \/ \E fees \in Fees : Borrow(n, fees)
    \/ Refresh
    \/ \E c \in Curves : UpdateReserveConfig(c)
    \/ Tick

Spec == Init /\ [][Next]_vars

-----------------------------------------------------------------------------
TypeOK ==
    /\ curve \in Curves
    /\ outstanding_debt \in Nat /\ total_deposits \in Nat
    /\ accrued_until \in Nat /\ unix_timestamp \in Nat
    /\ accrued_until <= unix_timestamp

HighestRate(c) == IF TwoSegments(c) THEN c.borrow_rate_2 ELSE c.borrow_rate_3

(* reserve.rs calls borrow_rate_0 the minimum and borrow_rate_3 the maximum *)
(* borrow rate possible: so it is at every utilization, the debt of an      *)
(* emptied vault and an empty reserve included.                             *)
RateWithinCurve ==
    curve.borrow_rate_0 <= Rate /\ Rate <= HighestRate(curve)

(* No utilization and no delay makes a refresh panic: interpolate is given *)
(* points of its segment, and compound_interest a time and a rate it       *)
(* implements.  A reserve that could not be refreshed would stay unusable. *)
RefreshNeverPanics == CanRefresh

(* A loan, a withdrawal or interest raises the utilization and must not    *)
(* lower the rate, at the transitions between the regimes in particular,   *)
(* nor must a deposit or repayment raise it.  Only a reserve that was or   *)
(* becomes empty has a rate of its own.                                    *)
Empty == IsEmpty(outstanding_debt, total_deposits)
Utilization == UtilizationRate(outstanding_debt, total_deposits)
RateFollowsUtilization ==
    [][ curve' = curve /\ ~Empty /\ ~Empty' =>
          /\ Utilization <= Utilization' => Rate <= Rate'
          /\ Utilization' <= Utilization => Rate' <= Rate ]_vars

(* Charging a time in two accruals or in one comes to the same at the same *)
(* rate, so neither refreshing often nor the cap on an accrual changes     *)
(* what is owed, whichever numbers of terms are used: a series too short   *)
(* for its time charges less than two accruals do.  Truncation takes fewer *)
(* than four units per token it grows to from what the split charges, and  *)
(* gives at most one.                                                      *)
SplitAccrualsAgree ==
    LET growth == [t \in 1..SECONDS_PER_WEEK |-> ONE + CompoundInterest(Rate, t)]
    IN  \A t1 \in DOMAIN growth : \A t2 \in 1..t1 :
            t1 + t2 <= SECONDS_PER_WEEK =>
                LET once == growth[t1 + t2]
                    split == Mul(growth[t1], growth[t2])
                IN  once - Mul(4, once) <= split /\ split <= once + 1
=============================================================================
