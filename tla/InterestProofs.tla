--------------------------- MODULE InterestProofs ---------------------------
(***************************************************************************)
(* Theorems about every curve, utilization and accrual ReserveInterest.tla *)
(* describes.                                                              *)
(***************************************************************************)
EXTENDS ReserveInterest, NumberProofs

-----------------------------------------------------------------------------
(* Fixed-point arithmetic.                                                 *)

(* A share of y taken as Mul and Div do is at most y: x of d, x <= d. *)
LEMMA ShareAtMost ==
  ASSUME NEW x \in Nat, NEW y \in Nat, NEW d \in Nat \ {0}, x <= d
  PROVE  /\ Div(Mul(x, y), d) \in Nat
         /\ Div(Mul(x, y), d) <= y
  <1> DEFINE m == Mul(x, y)
  <1>1. m \in Nat /\ m * ONE <= x * y BY Product, Quotient, ONEAssumption DEF Mul
  <1>2. x * y <= d * y /\ d * y = y * d BY Product
  <1>3. m * ONE \in Nat /\ m * ONE <= y * d BY <1>1, <1>2, Product, ONEAssumption
  <1> HIDE DEF m
  <1>4. (m * ONE) \div d \in Nat /\ (m * ONE) \div d <= y
    BY <1>3, Quotient, QuotientAtMost
  <1> QED BY <1>4 DEF Div, m

(* A larger share of y is no smaller in Number either. *)
LEMMA ShareMonotone ==
  ASSUME NEW x1 \in Nat, NEW x2 \in Nat, NEW y \in Nat, NEW d \in Nat \ {0}, x1 <= x2
  PROVE  Div(Mul(x1, y), d) <= Div(Mul(x2, y), d)
  <1>1. x1 * y \in Nat /\ x2 * y \in Nat /\ x1 * y <= x2 * y BY Product
  <1>2. Mul(x1, y) \in Nat /\ Mul(x2, y) \in Nat /\ Mul(x1, y) <= Mul(x2, y)
    BY <1>1, Quotient, QuotientMonotone, ONEAssumption DEF Mul
  <1>3. Mul(x1, y) * ONE \in Nat /\ Mul(x2, y) * ONE \in Nat
        /\ Mul(x1, y) * ONE <= Mul(x2, y) * ONE
    BY <1>2, Product, ONEAssumption
  <1> QED BY <1>3, QuotientMonotone DEF Div

-----------------------------------------------------------------------------
(* The curve.                                                              *)

(* No more is borrowed than there is: utilization is at most one. *)
LEMMA UtilizationAtMostOne ==
  ASSUME NEW debt \in Nat, NEW vault_total \in Nat, ~IsEmpty(debt, vault_total)
  PROVE  /\ UtilizationRate(debt, vault_total) \in Nat
         /\ UtilizationRate(debt, vault_total) <= ONE
  <1> DEFINE supply == debt + FromU64(vault_total)
  <1>1. FromU64(vault_total) \in Nat /\ (vault_total > 0 => FromU64(vault_total) > 0)
    <2>1. vault_total > 0 => 1 * ONE <= vault_total * ONE BY Product, ONEAssumption
    <2> QED BY <2>1, Product, ONEAssumption DEF FromU64
  <1>2. supply \in Nat \ {0} /\ debt <= supply BY <1>1 DEF IsEmpty
  <1> HIDE DEF supply
  <1>3. debt * ONE \in Nat /\ debt * ONE <= supply * ONE /\ supply * ONE = ONE * supply
    BY <1>2, Product, ONEAssumption
  <1>4. (debt * ONE) \div supply \in Nat /\ (debt * ONE) \div supply <= ONE
    BY <1>2, <1>3, Quotient, QuotientAtMost, ONEAssumption
  <1> QED BY <1>4 DEF UtilizationRate, Div, supply

SegmentType == [x0 : Nat, x1 : Nat, y0 : Nat, y1 : Nat]

(* A point between two others is interpolated between their rates. *)
LEMMA InterpolateWithin ==
  ASSUME NEW x \in Nat, NEW l \in SegmentType, CanInterpolate(x, l)
  PROVE  /\ Interpolate(x, l) \in Nat
         /\ l.y0 <= Interpolate(x, l) /\ Interpolate(x, l) <= l.y1
  <1>1. /\ l.x0 \in Nat /\ l.x1 \in Nat /\ l.y0 \in Nat /\ l.y1 \in Nat
        /\ l.x0 <= x /\ x <= l.x1 /\ l.y0 <= l.y1 /\ l.x0 < l.x1
    BY DEF SegmentType, CanInterpolate
  <1>2. /\ x - l.x0 \in Nat /\ l.y1 - l.y0 \in Nat /\ l.x1 - l.x0 \in Nat \ {0}
        /\ x - l.x0 <= l.x1 - l.x0
    BY <1>1
  <1> DEFINE share == Div(Mul(x - l.x0, l.y1 - l.y0), l.x1 - l.x0)
  <1>3. share \in Nat /\ share <= l.y1 - l.y0 BY <1>2, ShareAtMost
  <1> HIDE DEF share
  <1>4. /\ l.y0 + share \in Nat
        /\ l.y0 <= l.y0 + share /\ l.y0 + share <= l.y1
    BY <1>1, <1>3
  <1> QED BY <1>4 DEF Interpolate, share

(* Along a segment the rate does not fall. *)
LEMMA InterpolateMonotone ==
  ASSUME NEW x1 \in Nat, NEW x2 \in Nat, NEW l \in SegmentType, x1 <= x2,
         CanInterpolate(x1, l), CanInterpolate(x2, l)
  PROVE  Interpolate(x1, l) <= Interpolate(x2, l)
  <1>1. /\ l.x0 \in Nat /\ l.x1 \in Nat /\ l.y0 \in Nat /\ l.y1 \in Nat
        /\ l.x0 <= x1 /\ x2 <= l.x1 /\ l.y0 <= l.y1 /\ l.x0 < l.x1
    BY DEF SegmentType, CanInterpolate
  <1>2. /\ x1 - l.x0 \in Nat /\ x2 - l.x0 \in Nat /\ l.y1 - l.y0 \in Nat
        /\ l.x1 - l.x0 \in Nat \ {0} /\ x1 - l.x0 <= x2 - l.x0
        /\ x1 - l.x0 <= l.x1 - l.x0 /\ x2 - l.x0 <= l.x1 - l.x0
    BY <1>1
  <1> DEFINE s1 == Div(Mul(x1 - l.x0, l.y1 - l.y0), l.x1 - l.x0)
             s2 == Div(Mul(x2 - l.x0, l.y1 - l.y0), l.x1 - l.x0)
  <1>3. s1 <= s2 /\ s1 \in Nat /\ s2 \in Nat BY <1>2, ShareMonotone, ShareAtMost
  <1> HIDE DEF s1, s2
  <1>4. l.y0 + s1 <= l.y0 + s2 BY <1>1, <1>3
  <1> QED BY <1>4 DEF Interpolate, s1, s2

(* Every utilization that is not maximal is in the segment of its regime,  *)
(* and the segments join: each begins at the rate the one before ends at.  *)
LEMMA RegimeFits ==
  ASSUME NEW c, SaneCurve(c), NEW u \in Nat, u <= ONE, ~IsMaximal(c, u)
  PROVE  /\ Regime(c, u) \in SegmentType
         /\ CanInterpolate(u, Regime(c, u))
         /\ u <= c.utilization_rate_1 =>
                Regime(c, u) = Segment(0, c.utilization_rate_1,
                                       c.borrow_rate_0, c.borrow_rate_1)
         /\ u > c.utilization_rate_1 /\ u <= c.utilization_rate_2 =>
                Regime(c, u) = Segment(c.utilization_rate_1, c.utilization_rate_2,
                                       c.borrow_rate_1, c.borrow_rate_2)
         /\ u > c.utilization_rate_1 /\ u > c.utilization_rate_2 =>
                /\ Regime(c, u) = Segment(c.utilization_rate_2, ONE,
                                          c.borrow_rate_2, c.borrow_rate_3)
                /\ ~TwoSegments(c)
  <1>1. /\ c.utilization_rate_1 \in Nat /\ c.utilization_rate_2 \in Nat
        /\ c.borrow_rate_0 \in Nat /\ c.borrow_rate_1 \in Nat
        /\ c.borrow_rate_2 \in Nat /\ c.borrow_rate_3 \in Nat
        /\ 0 < c.utilization_rate_1 /\ c.utilization_rate_1 <= c.utilization_rate_2
        /\ c.utilization_rate_2 <= ONE
        /\ c.borrow_rate_0 <= c.borrow_rate_1 /\ c.borrow_rate_1 <= c.borrow_rate_2
        /\ c.utilization_rate_2 = ONE \/ c.borrow_rate_2 <= c.borrow_rate_3
    BY DEF SaneCurve, Curve, TwoSegments
  <1>2. CASE u <= c.utilization_rate_1
    <2>1. Regime(c, u) = Segment(0, c.utilization_rate_1, c.borrow_rate_0, c.borrow_rate_1)
      BY <1>1, <1>2 DEF Regime
    <2> QED BY <1>1, <1>2, <2>1 DEF Segment, SegmentType, CanInterpolate
  <1>3. CASE u > c.utilization_rate_1 /\ u <= c.utilization_rate_2
    <2>1. Regime(c, u) = Segment(c.utilization_rate_1, c.utilization_rate_2,
                                 c.borrow_rate_1, c.borrow_rate_2)
      BY <1>1, <1>3 DEF Regime
    <2> QED BY <1>1, <1>3, <2>1 DEF Segment, SegmentType, CanInterpolate
  <1>4. CASE u > c.utilization_rate_1 /\ u > c.utilization_rate_2
    <2>1. Regime(c, u) = Segment(c.utilization_rate_2, ONE,
                                 c.borrow_rate_2, c.borrow_rate_3)
      BY <1>1, <1>4 DEF Regime
    <2>2. u < ONE BY <1>4, ONEAssumption DEF IsMaximal
    <2>3. ~TwoSegments(c) BY <1>1, <1>4, <2>2, ONEAssumption DEF TwoSegments
    <2> QED BY <1>1, <1>4, <2>1, <2>2, <2>3, ONEAssumption
            DEF Segment, SegmentType, CanInterpolate, TwoSegments
  <1> QED BY <1>1, <1>2, <1>3, <1>4

(* The rate at a utilization: what BorrowRate is of a reserve not empty. *)
RateAt(c, u) ==
    IF IsMaximal(c, u) THEN c.borrow_rate_3 ELSE Interpolate(u, Regime(c, u))

(* What a curve means: rates in order, the last of three or two segments.  *)
LEMMA CurveFacts ==
  ASSUME NEW c, SaneCurve(c)
  PROVE  /\ c.utilization_rate_1 \in Nat /\ c.utilization_rate_2 \in Nat
         /\ c.borrow_rate_0 \in Nat /\ c.borrow_rate_1 \in Nat
         /\ c.borrow_rate_2 \in Nat /\ c.borrow_rate_3 \in Nat
         /\ c.utilization_rate_1 <= c.utilization_rate_2
         /\ c.utilization_rate_2 <= ONE
         /\ c.borrow_rate_0 <= c.borrow_rate_1 /\ c.borrow_rate_1 <= c.borrow_rate_2
         /\ c.borrow_rate_2 <= HighestRate(c)
         /\ ~TwoSegments(c) =>
                c.borrow_rate_2 <= c.borrow_rate_3 /\ HighestRate(c) = c.borrow_rate_3
  BY DEF SaneCurve, Curve, TwoSegments, HighestRate

(* No utilization up to one is maximal on a curve of two segments. *)
LEMMA MaximalFacts ==
  ASSUME NEW c, SaneCurve(c), NEW u \in Nat, u <= ONE, IsMaximal(c, u)
  PROVE  u = ONE /\ ~TwoSegments(c) /\ c.utilization_rate_2 < u
  BY CurveFacts, ONEAssumption DEF IsMaximal, TwoSegments

(* Each regime keeps the rate between the rates at its ends. *)
LEMMA RateAtWithin ==
  ASSUME NEW c, SaneCurve(c), NEW u \in Nat, u <= ONE
  PROVE  /\ RateAt(c, u) \in Nat
         /\ c.borrow_rate_0 <= RateAt(c, u) /\ RateAt(c, u) <= HighestRate(c)
         /\ u <= c.utilization_rate_1 => RateAt(c, u) <= c.borrow_rate_1
         /\ u > c.utilization_rate_1 => c.borrow_rate_1 <= RateAt(c, u)
         /\ u <= c.utilization_rate_2 => RateAt(c, u) <= c.borrow_rate_2
         /\ u > c.utilization_rate_2 => c.borrow_rate_2 <= RateAt(c, u)
  <1>0. /\ c.utilization_rate_1 \in Nat /\ c.utilization_rate_2 \in Nat
        /\ c.borrow_rate_0 \in Nat /\ c.borrow_rate_1 \in Nat
        /\ c.borrow_rate_2 \in Nat /\ c.borrow_rate_3 \in Nat /\ HighestRate(c) \in Nat
        /\ c.utilization_rate_1 <= c.utilization_rate_2
        /\ c.borrow_rate_0 <= c.borrow_rate_1 /\ c.borrow_rate_1 <= c.borrow_rate_2
        /\ c.borrow_rate_2 <= HighestRate(c)
        /\ ~TwoSegments(c) =>
               c.borrow_rate_2 <= c.borrow_rate_3 /\ HighestRate(c) = c.borrow_rate_3
    BY CurveFacts DEF HighestRate
  <1>1. CASE IsMaximal(c, u)
    <2>1. RateAt(c, u) = c.borrow_rate_3 BY <1>1 DEF RateAt
    <2>2. ~TwoSegments(c) /\ c.utilization_rate_2 < u BY <1>1, MaximalFacts
    <2> QED BY <1>0, <2>1, <2>2
  <1>2. CASE ~IsMaximal(c, u)
    <2> DEFINE l == Regime(c, u)
    <2>1. /\ l \in SegmentType /\ CanInterpolate(u, l)
          /\ u <= c.utilization_rate_1 => l.y0 = c.borrow_rate_0 /\ l.y1 = c.borrow_rate_1
          /\ u > c.utilization_rate_1 /\ u <= c.utilization_rate_2 =>
                l.y0 = c.borrow_rate_1 /\ l.y1 = c.borrow_rate_2
          /\ u > c.utilization_rate_1 /\ u > c.utilization_rate_2 =>
                l.y0 = c.borrow_rate_2 /\ l.y1 = c.borrow_rate_3 /\ ~TwoSegments(c)
      BY <1>2, RegimeFits DEF Segment
    <2> HIDE DEF l
    <2>2. /\ Interpolate(u, l) \in Nat
          /\ l.y0 <= Interpolate(u, l) /\ Interpolate(u, l) <= l.y1
      BY <2>1, InterpolateWithin
    <2>3. RateAt(c, u) = Interpolate(u, l) BY <1>2 DEF RateAt, l
    <2>4. l.y0 \in Nat /\ l.y1 \in Nat BY <2>1 DEF SegmentType
    <2> QED BY <1>0, <2>1, <2>2, <2>3, <2>4
  <1> QED BY <1>1, <1>2

(* From regime to regime the rate does not fall either. *)
LEMMA RateAtMonotone ==
  ASSUME NEW c, SaneCurve(c), NEW u1 \in Nat, NEW u2 \in Nat, u1 <= u2, u2 <= ONE
  PROVE  RateAt(c, u1) <= RateAt(c, u2)
  <1> u1 <= ONE BY ONEAssumption
  <1>1. CASE IsMaximal(c, u2)
    <2>1. RateAt(c, u2) = HighestRate(c) BY <1>1, MaximalFacts, CurveFacts DEF RateAt
    <2> QED BY <2>1, RateAtWithin
  <1>2. CASE ~IsMaximal(c, u2) /\ Regime(c, u1) = Regime(c, u2)
    <2>1. ~IsMaximal(c, u1) BY <1>2, CurveFacts, ONEAssumption DEF IsMaximal
    <2>2. /\ Regime(c, u1) \in SegmentType
          /\ CanInterpolate(u1, Regime(c, u1)) /\ CanInterpolate(u2, Regime(c, u1))
      BY <1>2, <2>1, RegimeFits
    <2> QED BY <1>2, <2>1, <2>2, InterpolateMonotone DEF RateAt
  <1>3. CASE ~IsMaximal(c, u2) /\ Regime(c, u1) # Regime(c, u2)
    <2>1. ~IsMaximal(c, u1) BY <1>3, CurveFacts, ONEAssumption DEF IsMaximal
    <2>2. \/ u1 <= c.utilization_rate_1 /\ c.utilization_rate_1 < u2
          \/ u1 <= c.utilization_rate_2 /\ c.utilization_rate_2 < u2
      BY <1>3, <2>1, RegimeFits, CurveFacts
    <2> QED BY <2>2, RateAtWithin, CurveFacts
  <1> QED BY <1>1, <1>2, <1>3

-----------------------------------------------------------------------------
(* Compounding keeps to the natural numbers.                               *)

(* A step of the series is a Number if what follows is one. *)
LEMMA StepNat ==
  ASSUME NEW x \in Nat, NEW k \in Nat \ {0}, NEW rest \in Nat
  PROVE  Step(x, k, rest) \in Nat
  <1>1. x * (ONE + rest) \in Nat /\ k * ONE \in Nat BY Product, ONEAssumption
  <1>2. 1 * ONE <= k * ONE BY Product, ONEAssumption
  <1>3. k * ONE > 0 BY <1>1, <1>2, ONEAssumption
  <1> QED BY <1>1, <1>3, Quotient DEF Step

(* Whatever the number of terms, so is the series. *)
LEMMA Expm1Nat == ASSUME NEW x \in Nat, NEW terms PROVE Expm1Approx(x, terms) \in Nat
  <1>1. ASSUME NEW rest \in Nat
        PROVE  /\ Step(x, 1, rest) \in Nat /\ Step(x, 2, rest) \in Nat
               /\ Step(x, 3, rest) \in Nat /\ Step(x, 4, rest) \in Nat
               /\ Step(x, 5, rest) \in Nat /\ Step(x, 6, rest) \in Nat
               /\ Step(x, 7, rest) \in Nat /\ Step(x, 8, rest) \in Nat
               /\ Step(x, 9, rest) \in Nat /\ Step(x, 10, rest) \in Nat
    <2>1. \A k \in Nat \ {0} : Step(x, k, rest) \in Nat BY <1>1, StepNat
    <2> QED BY <2>1
  <1>2. ASSUME NEW rest \in Nat PROVE FirstFive(x, rest) \in Nat
    BY <1>1, <1>2, Zenon DEF FirstFive
  <1>3. Step(x, 6, 0) \in Nat /\ Step(x, 7, 0) \in Nat /\ Step(x, 10, 0) \in Nat
    BY <1>1
  <1>4. Step(x, 6, Step(x, 7, 0)) \in Nat BY <1>1, <1>3, Zenon
  <1>5. Step(x, 6, Step(x, 7, Step(x, 8, Step(x, 9, Step(x, 10, 0))))) \in Nat
    BY <1>1, <1>3, Zenon
  <1> QED BY <1>2, <1>3, <1>4, <1>5 DEF Expm1Approx

(* Interest over any time at any rate is a Number. *)
LEMMA CompoundNat ==
  ASSUME NEW rate \in Nat, NEW seconds \in Nat
  PROVE  CompoundInterest(rate, seconds) \in Nat
  BY Product, Quotient, Expm1Nat, SecondsAssumption DEF CompoundInterest

-----------------------------------------------------------------------------
(* The reserve.                                                            *)

(* In every state of the right types the rate is on the curve, and it can  *)
(* be computed.                                                            *)
LEMMA RateOfState ==
  ASSUME TypeOK
  PROVE  /\ SaneCurve(curve) /\ RateWithinCurve /\ Rate \in Nat
         /\ CanComputeRate(curve, outstanding_debt, total_deposits)
         /\ ~Empty => Rate = RateAt(curve, Utilization)
                      /\ Utilization \in Nat /\ Utilization <= ONE
  <1>1. SaneCurve(curve) /\ outstanding_debt \in Nat /\ total_deposits \in Nat
    BY CurvesAssumption DEF TypeOK
  <1>2. CASE Empty
    <2>1. Rate = curve.borrow_rate_1 BY <1>2 DEF Empty, Rate, BorrowRate
    <2>2. CanComputeRate(curve, outstanding_debt, total_deposits)
      BY <1>2 DEF Empty, CanComputeRate
    <2>3. /\ Rate \in Nat
          /\ curve.borrow_rate_0 <= Rate /\ Rate <= HighestRate(curve)
      <3>1. /\ curve.borrow_rate_1 \in Nat /\ curve.borrow_rate_0 \in Nat
            /\ curve.borrow_rate_2 \in Nat /\ HighestRate(curve) \in Nat
            /\ curve.borrow_rate_0 <= curve.borrow_rate_1
            /\ curve.borrow_rate_1 <= curve.borrow_rate_2
            /\ curve.borrow_rate_2 <= HighestRate(curve)
        BY <1>1, CurveFacts DEF HighestRate
      <3> QED BY <2>1, <3>1
    <2> QED BY <1>1, <1>2, <2>2, <2>3 DEF RateWithinCurve
  <1>3. CASE ~Empty
    <2>1. Utilization \in Nat /\ Utilization <= ONE
      BY <1>1, <1>3, UtilizationAtMostOne DEF Empty, Utilization
    <2>2. Rate = RateAt(curve, Utilization)
      BY <1>3 DEF Empty, Rate, BorrowRate, RateAt, Utilization
    <2>3. /\ Rate \in Nat
          /\ curve.borrow_rate_0 <= Rate /\ Rate <= HighestRate(curve)
      BY <1>1, <2>1, <2>2, RateAtWithin
    <2>4. CanComputeRate(curve, outstanding_debt, total_deposits)
      BY <1>1, <1>3, <2>1, RegimeFits DEF Empty, CanComputeRate, Utilization
    <2> QED BY <1>1, <1>3, <2>1, <2>2, <2>3, <2>4 DEF RateWithinCurve
  <1> QED BY <1>2, <1>3

(* No more than a week is charged at once, nor more than has passed. *)
LEMMA AccrualOfState ==
  ASSUME TypeOK
  PROVE  /\ TimeToAccrue \in Nat /\ TimeToAccrue <= SECONDS_PER_WEEK
         /\ accrued_until + TimeToAccrue <= unix_timestamp
  BY SecondsAssumption DEF TypeOK, TimeToAccrue, Least

(* Every step keeps the types: interest in particular is never negative. *)
LEMMA NextTypeOK == TypeOK /\ [Next]_vars => TypeOK'
  <1> SUFFICES ASSUME TypeOK, [Next]_vars PROVE TypeOK'
    OBVIOUS
  <1> USE DEF TypeOK
  <1>1. ASSUME NEW n \in TokenAmounts
        PROVE  n \in Nat /\ FromU64(n) \in Nat
    BY <1>1, CurvesAssumption, Product, ONEAssumption DEF FromU64
  <1>2. ASSUME NEW n \in TokenAmounts, Deposit(n) PROVE TypeOK'
    BY <1>1, <1>2 DEF Deposit
  <1>3. ASSUME NEW n \in TokenAmounts, Withdraw(n) PROVE TypeOK'
    BY <1>1, <1>3 DEF Withdraw
  <1>4. ASSUME NEW n \in TokenAmounts, NEW fees \in Fees, Borrow(n, fees) PROVE TypeOK'
    <2>1. FromU64(fees) \in Nat BY CurvesAssumption, Product, ONEAssumption DEF FromU64
    <2> QED BY <1>1, <1>4, <2>1 DEF Borrow
  <1>5. ASSUME NEW n \in TokenAmounts, Repay(n) PROVE TypeOK'
    <2>1. outstanding_debt - FromU64(n) \in Nat BY <1>1, <1>5 DEF Repay
    <2> QED BY <1>1, <1>5, <2>1 DEF Repay
  <1>6. CASE Refresh
    <2>1. CompoundInterest(Rate, TimeToAccrue) \in Nat
      BY RateOfState, AccrualOfState, CompoundNat
    <2>2. Mul(outstanding_debt, CompoundInterest(Rate, TimeToAccrue)) \in Nat
      BY <2>1, Product, Quotient, ONEAssumption DEF Mul
    <2> QED BY <1>6, <2>2, AccrualOfState DEF Refresh
  <1>7. ASSUME NEW c \in Curves, UpdateReserveConfig(c) PROVE TypeOK'
    BY <1>7 DEF UpdateReserveConfig
  <1>8. CASE Tick BY <1>8 DEF Tick
  <1>9. CASE UNCHANGED vars BY <1>9 DEF vars
  <1> QED BY <1>2, <1>3, <1>4, <1>5, <1>6, <1>7, <1>8, <1>9 DEF Next

(* The types hold of every reserve with any curves, amounts and bounds. *)
THEOREM TypeCorrect == Spec => []TypeOK
  <1>1. Init => TypeOK BY DEF Init, TypeOK
  <1> QED BY <1>1, NextTypeOK, PTL DEF Spec

(* interest_rate never leaves the range the configuration gives it: debts, *)
(* deposits, accruals and changes of the curve, in any order, do not make  *)
(* it less than borrow_rate_0 or more than the last rate of the curve.     *)
THEOREM RateBounded == Spec => []RateWithinCurve
  <1>1. TypeOK => RateWithinCurve BY RateOfState
  <1> QED BY <1>1, TypeCorrect, PTL

(* try_accrue_interest finds no rate or time on which interest_rate or     *)
(* compound_interest panics, if the curve is sane and no rate above two.   *)
THEOREM AlwaysRefreshable == Spec => []RefreshNeverPanics
  <1>1. ASSUME TypeOK PROVE RefreshNeverPanics
    <2>1. /\ HighestRate(curve) \in Nat /\ HighestRate(curve) <= 2 * ONE
      BY <1>1, CurvesAssumption, RateOfState, CurveFacts DEF TypeOK, HighestRate
    <2>2. Rate \in Nat /\ Rate <= HighestRate(curve)
      BY <1>1, RateOfState DEF RateWithinCurve
    <2>3. Rate <= 2 * ONE BY <2>1, <2>2, ONEAssumption
    <2> QED BY <1>1, <2>3, RateOfState, AccrualOfState
            DEF RefreshNeverPanics, CanRefresh, CanCompound
  <1> QED BY <1>1, TypeCorrect, PTL

(* The rate moves with utilization in every step, through every transition *)
(* between regimes and whatever interpolation truncates.                   *)
THEOREM RateMonotone == Spec => RateFollowsUtilization
  <1>0. TypeOK => SaneCurve(curve)
                  /\ (~Empty => /\ Rate = RateAt(curve, Utilization)
                                /\ Utilization \in Nat /\ Utilization <= ONE)
    BY RateOfState
  <1>p. TypeOK' => (SaneCurve(curve)
                    /\ (~Empty => /\ Rate = RateAt(curve, Utilization)
                                  /\ Utilization \in Nat /\ Utilization <= ONE))'
    BY <1>0, PTL
  <1>1. ASSUME TypeOK, TypeOK', curve' = curve, ~Empty, ~Empty'
        PROVE  /\ Utilization <= Utilization' => Rate <= Rate'
               /\ Utilization' <= Utilization => Rate' <= Rate
    <2>1. /\ SaneCurve(curve) /\ Rate = RateAt(curve, Utilization)
          /\ Utilization \in Nat /\ Utilization <= ONE
      BY <1>0, <1>1
    <2>2. /\ Rate' = RateAt(curve', Utilization')
          /\ Utilization' \in Nat /\ Utilization' <= ONE
      BY <1>p, <1>1
    <2> QED BY <1>1, <2>1, <2>2, RateAtMonotone
  <1> QED BY <1>1, TypeCorrect, PTL DEF RateFollowsUtilization
=============================================================================
