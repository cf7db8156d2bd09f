---------------------------- MODULE InterestRate ----------------------------
(***************************************************************************)
(* What borrowers pay: the rate as a function of the utilization of a      *)
(* reserve, three straight lines between four configured rates, and its    *)
(* continuous compounding over one accrual.  Reserve.tla takes the result  *)
(* as compound_rate.                                                       *)
(***************************************************************************)
EXTENDS JetNumber

CONSTANTS SECONDS_PER_2H, SECONDS_PER_12H, SECONDS_PER_DAY, SECONDS_PER_WEEK,
          SECONDS_PER_YEAR

ASSUME SecondsAssumption ==
    /\ SECONDS_PER_2H \in Nat \ {0} /\ SECONDS_PER_12H \in Nat
    /\ SECONDS_PER_DAY \in Nat /\ SECONDS_PER_WEEK \in Nat
    /\ SECONDS_PER_YEAR \in Nat \ {0}
    /\ SECONDS_PER_2H < SECONDS_PER_12H /\ SECONDS_PER_12H < SECONDS_PER_DAY
    /\ SECONDS_PER_DAY < SECONDS_PER_WEEK

(* The part of ReserveConfig that is the curve, in units of Number. *)
Curve == [utilization_rate_1 : Nat, utilization_rate_2 : Nat,
          borrow_rate_0 : Nat, borrow_rate_1 : Nat,
          borrow_rate_2 : Nat, borrow_rate_3 : Nat]

(* Nothing checks a configuration.  These are the ones that mean something: *)
(* every other divides by zero or subtracts below zero for some utilization. *)
(* With two segments, utilization_rate_2 = 1, the last rate is never used.  *)
TwoSegments(c) == c.utilization_rate_2 = ONE

SaneCurve(c) ==
    /\ c \in Curve
    /\ 0 < c.utilization_rate_1 /\ c.utilization_rate_1 <= c.utilization_rate_2
    /\ c.utilization_rate_2 <= ONE
    /\ c.borrow_rate_0 <= c.borrow_rate_1 /\ c.borrow_rate_1 <= c.borrow_rate_2
    /\ TwoSegments(c) \/ c.borrow_rate_2 <= c.borrow_rate_3

-----------------------------------------------------------------------------
IsEmpty(outstanding_debt, vault_total) == vault_total = 0 /\ outstanding_debt = 0

(* Borrowed over deposited; an empty reserve would divide by zero. *)
UtilizationRate(outstanding_debt, vault_total) ==
    Div(outstanding_debt, outstanding_debt + FromU64(vault_total))

(* A segment from (x0, y0) to (x1, y1), and the point above x on it. *)
Segment(x0, x1, y0, y1) == [x0 |-> x0, x1 |-> x1, y0 |-> y0, y1 |-> y1]

Interpolate(x, l) == l.y0 + Div(Mul(x - l.x0, l.y1 - l.y0), l.x1 - l.x0)

(* interpolate asserts that x is in the segment; its subtractions panic    *)
(* below zero and its division by zero.                                    *)
CanInterpolate(x, l) ==
    l.x0 <= x /\ x <= l.x1 /\ l.y0 <= l.y1 /\ l.x0 < l.x1

(* The regime a utilization falls in. *)
SecondFromZero(c, util_rate) ==   \* mutant
    CASE util_rate <= c.utilization_rate_1 ->
            Segment(0, c.utilization_rate_1, c.borrow_rate_0, c.borrow_rate_1)
      [] util_rate > c.utilization_rate_1 /\ util_rate <= c.utilization_rate_2 ->
            Segment(c.utilization_rate_1, c.utilization_rate_2,
                    c.borrow_rate_0, c.borrow_rate_2)
      [] OTHER ->
            Segment(c.utilization_rate_2, ONE, c.borrow_rate_2, c.borrow_rate_3)
Regime(c, util_rate) ==
    CASE util_rate <= c.utilization_rate_1 ->
            Segment(0, c.utilization_rate_1, c.borrow_rate_0, c.borrow_rate_1)
      [] util_rate > c.utilization_rate_1 /\ util_rate <= c.utilization_rate_2 ->
            Segment(c.utilization_rate_1, c.utilization_rate_2,
                    c.borrow_rate_1, c.borrow_rate_2)
      [] OTHER ->
            Segment(c.utilization_rate_2, ONE, c.borrow_rate_2, c.borrow_rate_3)

(* Beyond both transitions and nothing left to borrow: the maximum. *)
FullIsMaximal(c, util_rate) == util_rate >= ONE   \* mutant
IsMaximal(c, util_rate) ==
    util_rate > c.utilization_rate_1 /\ util_rate > c.utilization_rate_2
        /\ util_rate >= ONE

BorrowRate(c, outstanding_debt, vault_total) ==
    LET util_rate == UtilizationRate(outstanding_debt, vault_total)
    IN  IF IsEmpty(outstanding_debt, vault_total) THEN c.borrow_rate_1
        ELSE IF IsMaximal(c, util_rate) THEN c.borrow_rate_3
        ELSE Interpolate(util_rate, Regime(c, util_rate))

CanComputeRate(c, outstanding_debt, vault_total) ==
    LET util_rate == UtilizationRate(outstanding_debt, vault_total)
    IN  ~IsEmpty(outstanding_debt, vault_total) =>
            IsMaximal(c, util_rate) \/ CanInterpolate(util_rate, Regime(c, util_rate))

-----------------------------------------------------------------------------
(* Compounding: e^x - 1 by the first terms of its series, the more the     *)
(* longer the accrual.  Step k of the series is x/k times what follows.    *)
Step(x, k, rest) == (x * (ONE + rest)) \div (k * ONE)

FirstFive(x, rest) == Step(x, 1, Step(x, 2, Step(x, 3, Step(x, 4, Step(x, 5, rest)))))

Expm1Approx(x, terms) ==
    FirstFive(x,
        CASE terms = 5 -> 0
          [] terms = 6 -> Step(x, 6, 0)
          [] terms = 7 -> Step(x, 6, Step(x, 7, 0))
          [] OTHER     -> Step(x, 6, Step(x, 7, Step(x, 8, Step(x, 9, Step(x, 10, 0))))))

OneTierLate(seconds) ==   \* mutant
    CASE seconds <= SECONDS_PER_12H -> 5
      [] seconds > SECONDS_PER_12H /\ seconds <= SECONDS_PER_DAY -> 6
      [] OTHER -> 7
Terms(seconds) ==
    CASE seconds <= SECONDS_PER_2H -> 5
      [] seconds > SECONDS_PER_2H /\ seconds <= SECONDS_PER_12H -> 6
      [] seconds > SECONDS_PER_12H /\ seconds <= SECONDS_PER_DAY -> 7
      [] OTHER -> 10

(* Rates above 2 and accruals of more than a week panic. *)
CanCompound(rate, seconds) == rate <= 2 * ONE /\ seconds <= SECONDS_PER_WEEK

CompoundInterest(rate, seconds) ==
    Expm1Approx((rate * seconds) \div SECONDS_PER_YEAR, Terms(seconds))
=============================================================================
