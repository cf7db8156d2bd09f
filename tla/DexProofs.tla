----------------------------- MODULE DexProofs -----------------------------
(***************************************************************************)
(* Liquidation on a DEX, in every market, whatever part of an order is     *)
(* filled and at whatever price.                                           *)
(*                                                                         *)
(* First what survives of the accounting when a reserve's totals are left  *)
(* behind: types, the two caches, that every note is in some account, and  *)
(* that positions are no more than accounts hold (DexInv).  Then who pays  *)
(* for a liquidation: each of the four truncated quotients of the plan is  *)
(* bounded on the side that a theorem needs.                               *)
(***************************************************************************)
EXTENDS LiquidateDex, PositionProofs

-----------------------------------------------------------------------------
(* The numbers of a plan.                                                  *)

(* The least of three amounts, or of four, is one of them. *)
LEMMA LeastAmount ==
  ASSUME NEW a \in Nat, NEW b \in Nat, NEW d \in Nat, NEW S,
         S = {} \/ \E l \in Nat : S = {l}
  PROVE  LET m == Min({a, b, d} \union S) IN m \in Nat /\ m <= a /\ m <= b /\ m <= d
  <1> DEFINE T == {a, b, d} \union S
  <1>1. T \subseteq Nat OBVIOUS
  <1>2. \E x \in T : \A y \in T : x <= y
    <2>1. \E x \in {a, b, d} : \A y \in {a, b, d} : x <= y OBVIOUS
    <2>2. CASE S = {} BY <2>1, <2>2
    <2>3. ASSUME NEW l \in Nat, S = {l} PROVE \E x \in T : \A y \in T : x <= y
      <3>1. PICK x \in {a, b, d} : \A y \in {a, b, d} : x <= y BY <2>1
      <3>2. CASE x <= l BY <2>3, <3>1, <3>2
      <3>3. CASE l <= x
        <4>1. l <= a /\ l <= b /\ l <= d BY <3>1, <3>3
        <4> QED BY <2>3, <4>1
      <3> QED BY <3>1, <3>2, <3>3
    <2> QED BY <2>2, <2>3
  <1>3. Min(T) \in T /\ \A y \in T : Min(T) <= y BY <1>2 DEF Min
  <1> QED BY <1>1, <1>3

(* Rounding to the nearest is to a natural number, half a unit off at most.*)
LEMMA RoundedNat ==
  ASSUME NEW a \in Nat
  PROVE  AsU64Rounded(a) \in Nat /\ AsU64Rounded(a) * ONE <= a + ONE \div 2
  <1>1. ONE \div 2 \in Nat BY Quotient, ONEAssumption
  <1>2. a + ONE \div 2 \in Nat BY <1>1
  <1> QED BY <1>2, Quotient, ONEAssumption DEF AsU64Rounded

(* What a liquidation on the DEX has checked when it plans: the prices and *)
(* rates it divides by, and the amounts it computes, are Numbers.          *)
PlanTyped(u, r, c) ==
    /\ reserve_info[r].price \in Nat \ {0} /\ reserve_info[c].price \in Nat \ {0}
    /\ reserve_info[r].deposit_note_exchange_rate \in Nat \ {0}
    /\ reserve_info[c].deposit_note_exchange_rate \in Nat \ {0}
    /\ Premium(c) \in Nat
    /\ CollateralSellableValue(obligation[u], r, c) \in Nat
    /\ LoanRepayValue(obligation[u], r, c) \in Nat
    /\ CollateralSellExpected(obligation[u], r, c) \in Nat \ {0}
    /\ CollateralTokensTradable(u, r, c) \in Nat
    /\ CollateralTokensTradable(u, r, c) <= CollateralSellExpected(obligation[u], r, c)
    /\ LoanRepaidTokens(u, r, c) \in Nat
    /\ LoanRepaidNotes(u, r, c) \in Nat
    /\ CollateralNotesSold(u, r, c) \in Nat

(* Every division of the plan has been found to be by a positive Number.   *)
LEMMA PlanNat ==
  ASSUME TypeOK, NEW u \in Users, NEW r \in Reserves, NEW c \in Reserves,
         LiquidateDex(u, r, c)
  PROVE  PlanTyped(u, r, c)
  <1> DEFINE o == obligation[u]
             p == Premium(c)
             V == CollateralSellableValue(o, r, c)
             L == LoanRepayValue(o, r, c)
             S == CollateralSellExpected(o, r, c)
             T == CollateralTokensTradable(u, r, c)
             X == LoanRepaidTokens(u, r, c)
             value == CollateralValue(o, reserve_info)
             owed == LoanValue(o, reserve_info)
             ltv == DexCRatioLtv(o, r)
             over == DexRatioOverPremium(r, c)
             pr == reserve_info[r].price
             pc == reserve_info[c].price
             qr == reserve_info[r].deposit_note_exchange_rate
             qc == reserve_info[c].deposit_note_exchange_rate
             m == config[r].min_collateral_ratio
  <1>1. /\ o \in ObligationState /\ reserve_info \in Infos
        /\ reserve_info[r] \in CachedReserveInfo /\ reserve_info[c] \in CachedReserveInfo
        /\ config[r] \in Config /\ config[c] \in Config
        /\ loan_account[r][u] \in Nat /\ collateral_account[c][u] \in Nat
    BY DEF TypeOK, Infos
  <1>2. /\ pr \in Nat /\ pc \in Nat /\ qr \in Nat /\ qc \in Nat /\ p \in Nat /\ m \in Nat
        /\ reserve_info[r].loan_note_exchange_rate \in Nat
        /\ config[c].liquidation_dex_trade_max \in Nat
    BY <1>1 DEF CachedReserveInfo, Config, Premium
  <1>3. value \in Nat /\ owed \in Nat BY <1>1, ValuesNat
  <1>4. /\ value > 0 /\ ltv > ONE /\ over > ONE /\ pr > 0 /\ pc > 0
        /\ S > 0 /\ qr > 0 /\ qc > 0
    BY DEF LiquidateDex, CanPlan
  <1>5. ONE + p \in Nat \ {0} BY <1>2, ONEAssumption
  <1>6. V \in Nat
    <2>1. Div(owed, value) \in Nat BY <1>3, <1>4, DivNat
    <2>2. ltv \in Nat BY <1>2, <2>1, MulNat, Zenon DEF DexCRatioLtv
    <2>3. over \in Nat BY <1>2, <1>5, DivNat DEF DexRatioOverPremium
    <2>4. ltv - ONE \in Nat /\ over - ONE \in Nat \ {0}
      BY <1>4, <2>2, <2>3, ONEAssumption
    <2>5. Div(ltv - ONE, over - ONE) \in Nat BY <2>4, DivNat
    <2>6. Mul(Div(ltv - ONE, over - ONE), value) \in Nat BY <1>3, <2>5, MulNat
    <2> QED BY <2>6 DEF CollateralSellableValue
  <1> HIDE DEF value, owed, ltv, over, m
  <1>7. L \in Nat BY <1>5, <1>6, DivNat DEF LoanRepayValue
  <1>8. S \in Nat \ {0} /\ S = Div(V, pc)
    <2>1. S = Div(V, pc) BY DEF CollateralSellExpected
    <2> HIDE DEF V
    <2>2. Div(V, pc) \in Nat BY <1>2, <1>4, <1>6, DivNat
    <2> QED BY <1>4, <2>1, <2>2
  <1>9. T \in Nat /\ T <= S
    <2> DEFINE a == Div(V, pc)
               b == Mul(NoteAmount(collateral_account[c][u]), qc)
               loan == NoteValue(NoteAmount(loan_account[r][u]),
                           reserve_info[r].loan_note_exchange_rate, pr)
               d == Div(Mul(loan, ONE + p), pc)
               limit == config[c].liquidation_dex_trade_max
               Q == IF limit = 0 THEN {} ELSE {FromU64(limit)}
    <2>1. a \in Nat BY <1>8
    <2>2. b \in Nat
      <3>1. NoteAmount(collateral_account[c][u]) \in Nat BY <1>1, NoteAmountLinear, Zenon
      <3> QED BY <1>2, <3>1, MulNat, Zenon
    <2>3. d \in Nat
      <3>1. NoteAmount(loan_account[r][u]) \in Nat BY <1>1, NoteAmountLinear, Zenon
      <3>2. loan \in Nat BY <1>2, <3>1, MulNat, Zenon DEF NoteValue
      <3> HIDE DEF loan
      <3>3. Mul(loan, ONE + p) \in Nat BY <1>5, <3>2, MulNat, Zenon
      <3> QED BY <1>2, <1>4, <3>3, DivNat
    <2>4. Q = {} \/ \E l \in Nat : Q = {l} BY <1>2, ConversionNat, Zenon
    <2>5. T = Min({a, b, d} \union Q) BY DEF CollateralTokensTradable
    <2> HIDE DEF a, b, d, Q, T
    <2>6. T \in Nat /\ T <= a BY <2>1, <2>2, <2>3, <2>4, <2>5, LeastAmount, Zenon
    <2> QED BY <1>8, <2>6 DEF a
  <1>10. X \in Nat
    <2>1. X = Div(Mul(Div(T, S), L), pr) BY DEF LoanRepaidTokens
    <2> HIDE DEF T, S, L, X
    <2>2. Div(T, S) \in Nat BY <1>8, <1>9, DivNat
    <2>3. Mul(Div(T, S), L) \in Nat BY <1>7, <2>2, MulNat, Zenon
    <2> QED BY <1>2, <1>4, <2>1, <2>3, DivNat
  <1>11. LoanRepaidNotes(u, r, c) \in Nat
    BY <1>2, <1>4, <1>10, DivNat DEF LoanRepaidNotes
  <1>12. CollateralNotesSold(u, r, c) \in Nat
    BY <1>2, <1>4, <1>9, DivNat DEF CollateralNotesSold
  <1> QED BY <1>2, <1>4, <1>6, <1>7, <1>8, <1>9, <1>10, <1>11, <1>12 DEF PlanTyped

(* The slippage allowed is the premium, as a share of the value sold: what *)
(* is left of a value after the one is worth it before the other.          *)
LEMMA SlippageIsPremium ==
  ASSUME NEW c, Premium(c) \in Nat
  PROVE  /\ Slippage(c) \in Nat /\ ONE - Slippage(c) \in Nat
         /\ ONE * ONE <= (ONE - Slippage(c)) * (ONE + Premium(c))
  <1> DEFINE p == Premium(c)
             s == Slippage(c)
  <1>1. p \in Nat /\ ONE + p \in Nat \ {0} BY ONEAssumption
  <1>2. /\ s \in Nat /\ p * ONE \in Nat /\ s * (ONE + p) \in Nat
        /\ s * (ONE + p) <= p * ONE
    BY <1>1, DivTruncates DEF Slippage
  <1>3. s <= ONE
    <2>1. p * ONE <= ONE * (ONE + p)
      <3>1. ONE * (ONE + p) = ONE * ONE + p * ONE BY <1>1, ONEAssumption
      <3>2. ONE * ONE \in Nat BY Product, ONEAssumption
      <3> QED BY <1>2, <3>1, <3>2
    <2> QED BY <1>1, <1>2, <2>1, QuotientAtMost, ONEAssumption DEF Slippage, Div
  <1> HIDE DEF p, s
  <1>4. ONE - s \in Nat BY <1>2, <1>3, ONEAssumption
  <1>5. (ONE - s) * (ONE + p) = ONE * ONE + p * ONE - s * (ONE + p)
    BY <1>1, <1>2, ONEAssumption
  <1>6. ONE * ONE \in Nat BY Product, ONEAssumption
  <1>7. ONE * ONE <= (ONE - s) * (ONE + p) BY <1>2, <1>5, <1>6
  <1> QED BY <1>2, <1>4, <1>7 DEF p, s

(* A limit price is a whole number of lots. *)
LEMMA PriceLotsNat == ASSUME NEW price \in Nat PROVE PriceLots(price) \in Nat
  <1>1. price * CoinLotSize \in Nat BY Product, LotsAssumption
  <1>2. (price * CoinLotSize) \div PcLotSize \in Nat BY <1>1, Quotient, LotsAssumption
  <1> QED BY <1>2, RoundedNat DEF PriceLots

(* An order is filled up to what it locks. *)
LEMMA FillsWithin ==
  ASSUME NEW u \in Users, NEW r \in Reserves, NEW c \in Reserves,
         PlanTyped(u, r, c), NEW fill \in Fills(u, r, c)
  PROVE  fill.sold \in Nat /\ fill.proceeds \in Nat /\ fill.sold <= Ordered(u, r, c)
         /\ fill.sold * ONE <= CollateralTokensTradable(u, r, c) + ONE \div 2
  <1> DEFINE T == CollateralTokensTradable(u, r, c)
             amount == AsU64Rounded(T)
             price == NormalLimitPrice(r, c)
  <1>1. T \in Nat /\ amount \in Nat /\ amount * ONE <= T + ONE \div 2
    BY RoundedNat DEF PlanTyped
  <1>2. fill.sold \in Nat /\ fill.proceeds \in Nat /\ fill.sold <= Ordered(u, r, c)
        /\ fill.sold <= amount
    <2>0. price \in Nat
      <3>1. ONE - Slippage(c) \in Nat BY SlippageIsPremium DEF PlanTyped
      <3>2. Div(reserve_info[c].price, reserve_info[r].price) \in Nat
        BY DivNat DEF PlanTyped
      <3> QED BY <3>1, <3>2, MulNat DEF NormalLimitPrice
    <2>1. CASE r = quote
      <3> DEFINE n == amount \div CoinLotSize
                 lots == PriceLots(price)
      <3>1. fill \in SellFills(amount, lots)
        BY <2>1 DEF Fills
      <3>2. Ordered(u, r, c) = amount - (amount % CoinLotSize) BY <2>1 DEF Ordered
      <3> HIDE DEF amount
      <3>3. PICK coins \in 0..n :
               \E pcs \in (lots * coins)..(BestBid * coins) :
                   fill = Fill(coins * CoinLotSize, pcs * PcLotSize)
        BY <3>1 DEF SellFills
      <3>4. PICK pcs \in (lots * coins)..(BestBid * coins) :
               fill = Fill(coins * CoinLotSize, pcs * PcLotSize)
        BY <3>3
      <3>5. n \in Nat /\ n * CoinLotSize <= amount /\ n * CoinLotSize \in Nat
        BY <1>1, Quotient, Product, LotsAssumption
      <3>6. amount - (amount % CoinLotSize) = n * CoinLotSize
        BY <1>1, LotsAssumption
      <3> HIDE DEF n, price
      <3>7. coins \in Nat /\ coins <= n BY <3>5
      <3>8. lots * coins \in Nat /\ BestBid * coins \in Nat
        BY <2>0, <3>7, PriceLotsNat, Product, LotsAssumption
      <3>9. pcs \in Nat BY <3>8
      <3>10. /\ coins * CoinLotSize \in Nat /\ pcs * PcLotSize \in Nat
             /\ coins * CoinLotSize <= n * CoinLotSize
        BY <3>5, <3>7, <3>9, Product, LotsAssumption
      <3> QED BY <1>1, <3>2, <3>4, <3>5, <3>6, <3>10 DEF Fill
    <2>2. CASE r # quote
      <3> DEFINE n == amount \div PcLotSize
                 limit == PriceLots(Div(ONE, price))
      <3>1. fill \in BuyFills(amount, limit) /\ price > 0
        BY <2>2 DEF Fills
      <3>2. Ordered(u, r, c) = amount BY <2>2 DEF Ordered
      <3> HIDE DEF amount
      <3>3. PICK coins \in 0..amount :
               \E pcs \in (BestAsk * coins)..Least(limit * coins, n) :
                   fill = Fill(pcs * PcLotSize, coins * CoinLotSize)
        BY <3>1 DEF BuyFills
      <3>4. PICK pcs \in (BestAsk * coins)..Least(limit * coins, n) :
               fill = Fill(pcs * PcLotSize, coins * CoinLotSize)
        BY <3>3
      <3>5. n \in Nat /\ n * PcLotSize <= amount /\ n * PcLotSize \in Nat
        BY <1>1, Quotient, Product, LotsAssumption
      <3> HIDE DEF n, price
      <3>6. coins \in Nat BY <1>1
      <3>7. BestAsk * coins \in Nat BY <3>6, Product, LotsAssumption
      <3>8. limit * coins \in Nat
        <4>1. Div(ONE, price) \in Nat BY <2>0, <3>1, DivNat, ONEAssumption
        <4>2. limit \in Nat BY <4>1, PriceLotsNat
        <4> QED BY <3>6, <4>2, Product
      <3>9. pcs \in Nat /\ pcs <= n BY <3>5, <3>7, <3>8 DEF Least
      <3>10. /\ coins * CoinLotSize \in Nat /\ pcs * PcLotSize \in Nat
             /\ pcs * PcLotSize <= n * PcLotSize
        BY <3>5, <3>6, <3>9, Product, LotsAssumption
      <3> QED BY <1>1, <3>2, <3>4, <3>5, <3>10 DEF Fill
    <2> QED BY <2>1, <2>2
  <1> HIDE DEF amount, T
  <1>3. fill.sold * ONE <= amount * ONE /\ fill.sold * ONE \in Nat /\ amount * ONE \in Nat
    BY <1>1, <1>2, Product, ONEAssumption
  <1>4. T + ONE \div 2 \in Nat
    <2>1. ONE \div 2 \in Nat BY Quotient, ONEAssumption
    <2> QED BY <1>1, <2>1
  <1>5. fill.sold * ONE <= T + ONE \div 2 BY <1>1, <1>3, <1>4
  <1> QED BY <1>2, <1>5 DEF T

(* verify_proceeds, and the step an order leads to: tokens sold from the   *)
(* vault of c, tokens that came into the vault of r.                       *)
Liquidated(u, r, c, sold, proceeds) ==
    LET tokens_repaid == AsU64(LoanRepaidTokens(u, r, c))
        notes_repaid  == AsU64(LoanRepaidNotes(u, r, c))
        notes_sold    == AsU64(CollateralNotesSold(u, r, c))
    IN  /\ sold \in Nat /\ proceeds \in Nat /\ sold <= vault[c]
        /\ sold * ONE <= CollateralTokensTradable(u, r, c) + ONE \div 2
        /\ VerifyProceeds(r, c, proceeds, CollateralTokensTradable(u, r, c))
        /\ CanRepay(reserve[r], slot, tokens_repaid, notes_repaid)
        /\ notes_repaid <= loan_account[r][u]
        /\ notes_sold <= collateral_account[c][u]
        /\ vault' = [vault EXCEPT ![c] = @ - sold, ![r] = @ + proceeds]
        /\ reserve' = [reserve EXCEPT ![r] =
               AddUncollectedFees(RecordRepay(@, tokens_repaid, notes_repaid),
                                  SaturatingSub(proceeds, tokens_repaid))]
        /\ obligation' = [obligation EXCEPT ![u] =
               SubtractLoan(SubtractCollateral(@, c, CollateralNotesSold(u, r, c)),
                            r, LoanRepaidNotes(u, r, c))]
        /\ loan_account' = [loan_account EXCEPT ![r][u] = @ - notes_repaid]
        /\ loan_note_mint' = [loan_note_mint EXCEPT ![r] = @ - notes_repaid]
        /\ collateral_account' = [collateral_account EXCEPT ![c][u] = @ - notes_sold]
        /\ deposit_note_mint' = [deposit_note_mint EXCEPT ![c] = @ - notes_sold]

(* Whatever the DEX fills, the step is one of these. *)
LEMMA DexStepIs ==
  ASSUME TypeOK, NEW u \in Users, NEW r \in Reserves, NEW c \in Reserves,
         LiquidateDex(u, r, c)
  PROVE  /\ r # c /\ \E sold, proceeds \in Nat : Liquidated(u, r, c, sold, proceeds)
         /\ UNCHANGED <<clock, settings, reserve_info, accounts, wallet,
                        deposit_account, fee_note_vault>>
  <1> DEFINE tokens_repaid == AsU64(LoanRepaidTokens(u, r, c))
             notes_repaid  == AsU64(LoanRepaidNotes(u, r, c))
             notes_sold    == AsU64(CollateralNotesSold(u, r, c))
             T == CollateralTokensTradable(u, r, c)
             before == SubtractCollateral(obligation[u], c, CollateralNotesSold(u, r, c))
             after == SubtractLoan(before, r, LoanRepaidNotes(u, r, c))
  <1>1. /\ r # c
        /\ UNCHANGED <<clock, settings, reserve_info, accounts, wallet,
                       deposit_account, fee_note_vault>>
        /\ Ordered(u, r, c) <= vault[c]
        /\ CanRepay(reserve[r], slot, tokens_repaid, notes_repaid)
        /\ notes_repaid <= loan_account[r][u]
        /\ notes_sold <= collateral_account[c][u]
        /\ obligation' = [obligation EXCEPT ![u] =
               SubtractLoan(SubtractCollateral(@, c, CollateralNotesSold(u, r, c)),
                            r, LoanRepaidNotes(u, r, c))]
        /\ loan_account' = [loan_account EXCEPT ![r][u] = @ - notes_repaid]
        /\ loan_note_mint' = [loan_note_mint EXCEPT ![r] = @ - notes_repaid]
        /\ collateral_account' = [collateral_account EXCEPT ![c][u] = @ - notes_sold]
        /\ deposit_note_mint' = [deposit_note_mint EXCEPT ![c] = @ - notes_sold]
    BY DEF LiquidateDex, WholeNotes
  <1>2. PICK fill \in Fills(u, r, c) :
            /\ VerifyProceeds(r, c, fill.proceeds, T)
            /\ vault' = [vault EXCEPT ![c] = @ - fill.sold, ![r] = @ + fill.proceeds]
            /\ reserve' = [reserve EXCEPT ![r] =
                   AddUncollectedFees(RecordRepay(@, tokens_repaid, notes_repaid),
                                      SaturatingSub(fill.proceeds, tokens_repaid))]
    BY Zenon DEF LiquidateDex, WholeNotes
  <1>3. PlanTyped(u, r, c) BY PlanNat
  <1>4. /\ fill.sold \in Nat /\ fill.proceeds \in Nat /\ fill.sold <= Ordered(u, r, c)
        /\ fill.sold * ONE <= T + ONE \div 2
    BY <1>3, FillsWithin
  <1>5. fill.sold <= vault[c]
    <2>1. Ordered(u, r, c) \in Nat
      <3>1. AsU64Rounded(T) \in Nat BY <1>3, RoundedNat DEF PlanTyped
      <3> DEFINE amount == AsU64Rounded(T)
      <3> HIDE DEF amount
      <3>2. amount \in Nat /\ amount - (amount % CoinLotSize) \in Nat
        BY <3>1, LotsAssumption DEF amount
      <3> QED BY <3>2 DEF Ordered, amount
    <2>2. vault[c] \in Nat BY DEF TypeOK
    <2> QED BY <1>1, <1>4, <2>1, <2>2
  <1> HIDE DEF tokens_repaid, notes_repaid, notes_sold, T
  <1>6. Liquidated(u, r, c, fill.sold, fill.proceeds)
    BY <1>1, <1>2, <1>4, <1>5 DEF Liquidated, tokens_repaid, notes_repaid, notes_sold, T
  <1> QED BY <1>1, <1>4, <1>6

-----------------------------------------------------------------------------
(* DexInv.                                                                 *)

(* A reserve's supplies are what its accounts hold, so no account has more *)
(* notes than the mint.                                                    *)
LEMMA AccountsWithinMints ==
  ASSUME TypeOK, NotesHeld, NEW r \in Reserves, NEW u \in Users
  PROVE  /\ deposit_account[r][u] <= deposit_note_mint[r]
         /\ collateral_account[r][u] <= deposit_note_mint[r]
         /\ loan_account[r][u] <= loan_note_mint[r]
  <1>1. ASSUME NEW b \in [Users -> Nat]
        PROVE  Holders(b) \in Nat /\ b[u] \in Nat /\ b[u] <= Holders(b)
    <2>1. Total(b, Users) = b[u] + Total(b, Users \ {u})
      BY TotalSplit, UsersAssumption
    <2>2. Total(b, Users \ {u}) \in Nat
      <3>1. IsFiniteSet(Users \ {u}) BY UsersAssumption, FS_Subset
      <3> QED BY <3>1, TotalNat
    <2>3. b[u] \in Nat OBVIOUS
    <2> QED BY <2>1, <2>2, <2>3, HoldersIsTotal
  <1>2. /\ deposit_account[r] \in [Users -> Nat] /\ collateral_account[r] \in [Users -> Nat]
        /\ loan_account[r] \in [Users -> Nat]
        /\ fee_note_vault[r] \in Nat
    BY NotesTyped
  <1>3. /\ deposit_account[r][u] \in Nat
        /\ deposit_account[r][u] <= Holders(deposit_account[r])
        /\ collateral_account[r][u] \in Nat
        /\ collateral_account[r][u] <= Holders(collateral_account[r])
        /\ loan_account[r][u] <= Holders(loan_account[r])
        /\ Holders(deposit_account[r]) \in Nat /\ Holders(collateral_account[r]) \in Nat
    BY <1>1, <1>2
  <1>4. DepositNotesHeld(r) /\ LoanNotesHeld(r) BY DEF NotesHeld
  <1> QED BY <1>2, <1>3, <1>4 DEF DepositNotesHeld, LoanNotesHeld

(* Two positions are lowered by Numbers. *)
LEMMA SubtractTyped ==
  ASSUME NEW o \in ObligationState, NEW r \in Reserves, NEW a \in Nat
  PROVE  /\ SubtractCollateral(o, r, a) \in ObligationState
         /\ SubtractLoan(o, r, a) \in ObligationState
  <1>1. o.collateral[r] \in Nat /\ o.loans[r] \in Nat BY DEF ObligationState
  <1>2. SaturatingSub(o.collateral[r], a) \in Nat /\ SaturatingSub(o.loans[r], a) \in Nat
    BY <1>1 DEF SaturatingSub
  <1> QED BY <1>2, Zenon DEF SubtractCollateral, SubtractLoan, ObligationState

(* A DEX liquidation keeps every variable's type.                          *)
LEMMA DexTypeOK ==
  ASSUME TypeOK, NotesHeld, NEW u \in Users, NEW r \in Reserves, NEW c \in Reserves,
         LiquidateDex(u, r, c)
  PROVE  TypeOK'
  <1> DEFINE tokens_repaid == AsU64(LoanRepaidTokens(u, r, c))
             notes_repaid  == AsU64(LoanRepaidNotes(u, r, c))
             notes_sold    == AsU64(CollateralNotesSold(u, r, c))
             before == SubtractCollateral(obligation[u], c, CollateralNotesSold(u, r, c))
             after == SubtractLoan(before, r, LoanRepaidNotes(u, r, c))
  <1>1. /\ r # c
        /\ UNCHANGED <<clock, settings, reserve_info, accounts, wallet,
                       deposit_account, fee_note_vault>>
    BY DexStepIs
  <1>2. PICK sold, proceeds \in Nat : Liquidated(u, r, c, sold, proceeds)
    BY DexStepIs
  <1>3. PlanTyped(u, r, c) BY PlanNat
  <1>4. tokens_repaid \in Nat /\ notes_repaid \in Nat /\ notes_sold \in Nat
    BY <1>3, ConversionNat DEF PlanTyped
  <1>5. reserve' \in [Reserves -> ReserveState]
    <2> DEFINE paid == RecordRepay(reserve[r], tokens_repaid, notes_repaid)
               extra == SaturatingSub(proceeds, tokens_repaid)
    <2>1. reserve[r] \in ReserveState BY DEF TypeOK
    <2>2. CanRepay(reserve[r], slot, tokens_repaid, notes_repaid) BY <1>2 DEF Liquidated
    <2>3. reserve' = [reserve EXCEPT ![r] = AddUncollectedFees(paid, extra)]
      BY <1>2 DEF Liquidated
    <2> HIDE DEF tokens_repaid, notes_repaid
    <2>4. paid \in ReserveState BY <1>4, <2>1, <2>2, RecordsTyped
    <2>5. extra \in Nat BY <1>4 DEF SaturatingSub
    <2> HIDE DEF paid, extra
    <2>6. FromU64(extra) \in Nat BY <2>5, ConversionNat
    <2>7. paid.uncollected_fees + FromU64(extra) \in Nat
          /\ paid.total_deposits + extra \in Nat
      BY <2>4, <2>5, <2>6 DEF ReserveState
    <2>8. AddUncollectedFees(paid, extra) \in ReserveState
      BY <2>4, <2>7, Zenon DEF AddUncollectedFees, ReserveState
    <2> QED BY <2>3, <2>8 DEF TypeOK
  <1>6. obligation' \in [Users -> ObligationState]
    <2>1. obligation[u] \in ObligationState BY DEF TypeOK
    <2>2. before \in ObligationState BY <1>3, <2>1, SubtractTyped DEF PlanTyped
    <2>3. obligation' = [obligation EXCEPT ![u] = after] BY <1>2 DEF Liquidated
    <2> HIDE DEF before
    <2>4. after \in ObligationState BY <1>3, <2>2, SubtractTyped DEF PlanTyped
    <2> HIDE DEF after
    <2> QED BY <2>3, <2>4 DEF TypeOK
  <1>7. vault' \in [Reserves -> Nat]
    <2>1. vault' = [vault EXCEPT ![c] = @ - sold, ![r] = @ + proceeds] /\ sold <= vault[c]
      BY <1>2 DEF Liquidated
    <2>2. vault \in [Reserves -> Nat] BY DEF TypeOK
    <2>3. vault[c] - sold \in Nat /\ vault[r] + proceeds \in Nat BY <2>1, <2>2
    <2> QED BY <1>1, <2>1, <2>2, <2>3
  <1>8. /\ loan_account' = [loan_account EXCEPT ![r][u] = @ - notes_repaid]
        /\ loan_note_mint' = [loan_note_mint EXCEPT ![r] = @ - notes_repaid]
        /\ collateral_account' = [collateral_account EXCEPT ![c][u] = @ - notes_sold]
        /\ deposit_note_mint' = [deposit_note_mint EXCEPT ![c] = @ - notes_sold]
        /\ notes_repaid <= loan_account[r][u]
        /\ notes_sold <= collateral_account[c][u]
    BY <1>2 DEF Liquidated
  <1> HIDE DEF notes_repaid, notes_sold
  <1>9. /\ loan_account' \in [Reserves -> [Users -> Nat]]
        /\ collateral_account' \in [Reserves -> [Users -> Nat]]
        /\ loan_note_mint' \in [Reserves -> Nat] /\ deposit_note_mint' \in [Reserves -> Nat]
    <2>1. /\ loan_account \in [Reserves -> [Users -> Nat]]
          /\ collateral_account \in [Reserves -> [Users -> Nat]]
          /\ loan_note_mint \in [Reserves -> Nat] /\ deposit_note_mint \in [Reserves -> Nat]
      BY DEF TypeOK
    <2>2. /\ loan_account[r][u] <= loan_note_mint[r]
          /\ collateral_account[c][u] <= deposit_note_mint[c]
      BY AccountsWithinMints
    <2>3. /\ loan_account[r][u] - notes_repaid \in Nat
          /\ loan_note_mint[r] - notes_repaid \in Nat
          /\ collateral_account[c][u] - notes_sold \in Nat
          /\ deposit_note_mint[c] - notes_sold \in Nat
      BY <1>4, <1>8, <2>1, <2>2
    <2>4. /\ [loan_account EXCEPT ![r][u] = @ - notes_repaid] \in [Reserves -> [Users -> Nat]]
          /\ [collateral_account EXCEPT ![c][u] = @ - notes_sold]
                \in [Reserves -> [Users -> Nat]]
      BY <2>1, <2>3, BalanceTyped
    <2> QED BY <1>8, <2>1, <2>3, <2>4
  <1> HIDE DEF tokens_repaid, before, after
  <1> QED BY <1>1, <1>5, <1>6, <1>7, <1>9 DEF TypeOK, clock, settings, accounts

(* It burns loan notes of one reserve and collateral notes of the other.   *)
LEMMA DexNotes ==
  ASSUME TypeOK, TypeOK', NotesHeld, NEW u \in Users, NEW r \in Reserves,
         NEW c \in Reserves, LiquidateDex(u, r, c)
  PROVE  NotesHeld'
  <1> DEFINE n == AsU64(LoanRepaidNotes(u, r, c))
             m == AsU64(CollateralNotesSold(u, r, c))
             d == -m
  <1>1. PICK sold, proceeds \in Nat : Liquidated(u, r, c, sold, proceeds)
    BY DexStepIs
  <1>2. UNCHANGED <<deposit_account, fee_note_vault>> BY DexStepIs
  <1>3. n \in Nat /\ m \in Nat
    <2>1. PlanTyped(u, r, c) BY PlanNat
    <2> QED BY <2>1, ConversionNat DEF PlanTyped
  <1>4. /\ loan_account' = [loan_account EXCEPT ![r][u] = @ - n]
        /\ loan_note_mint' = [loan_note_mint EXCEPT ![r] = @ - n]
        /\ collateral_account' = [collateral_account EXCEPT ![c][u] = @ - m]
        /\ deposit_note_mint' = [deposit_note_mint EXCEPT ![c] = @ - m]
    BY <1>1 DEF Liquidated
  <1> HIDE DEF n, m
  <1>5. \A s \in Reserves : LoanNotesHeld(s)'
    BY <1>3, <1>4, BurnLoanNotes, Zenon DEF NotesHeld
  <1>6. \A s \in Reserves : DepositNotesHeld(s)'
    <2>1. deposit_note_mint' = [deposit_note_mint EXCEPT ![c] = @ + d]
      <3>1. deposit_note_mint[c] \in Nat BY NotesTyped
      <3>2. deposit_note_mint[c] - m = deposit_note_mint[c] + d BY <1>3, <3>1
      <3> HIDE DEF d
      <3> QED BY <1>4, <3>2, Zenon
    <2>2. Changes(collateral_account, collateral_account', c, u, d)
      <3>1. /\ collateral_account \in [Reserves -> [Users -> Nat]]
            /\ collateral_account' \in [Reserves -> [Users -> Nat]]
        BY DEF TypeOK
      <3> QED BY <1>3, <1>4, <3>1, BalanceChanges, Zenon
    <2>3. d \in Int BY <1>3
    <2>4. ChangesOneAccount(c, u, d) BY <1>2, <2>2 DEF ChangesOneAccount
    <2> HIDE DEF d
    <2> QED BY <1>2, <2>1, <2>3, <2>4, MintedNotes, Zenon DEF NotesHeld
  <1> QED BY <1>5, <1>6 DEF NotesHeld

(* Recording changes neither the age of a reserve nor its validity. *)
LEMMA RecordedCaches ==
  ASSUME NEW s \in ReserveState, NEW t, NEW n, NEW fees, NEW x,
         x \in {RecordDeposit(s, t, n), RecordWithdraw(s, t, n),
                RecordBorrow(s, t, n, fees), RecordRepay(s, t, n),
                AddUncollectedFees(RecordRepay(s, t, n), fees)}
  PROVE  x.last_updated = s.last_updated /\ x.invalidated = s.invalidated
  BY Zenon DEF ReserveState, RecordDeposit, RecordWithdraw, RecordBorrow, RecordRepay,
         AddUncollectedFees

(* A change of a reserve that leaves its age and validity alone. *)
LEMMA SameCaches ==
  ASSUME TypeOK, CachesAgree, UNCHANGED reserve_info, NEW s \in Reserves, NEW x,
         reserve' = [reserve EXCEPT ![s] = x],
         x.last_updated = reserve[s].last_updated, x.invalidated = reserve[s].invalidated
  PROVE  CachesAgree'
  <1>1. reserve \in [Reserves -> ReserveState] BY DEF TypeOK
  <1> QED BY <1>1 DEF CachesAgree

(* So the two caches of a reserve are refreshed and invalidated together.  *)
LEMMA StepCaches ==
  ASSUME TypeOK, CachesAgree, [Next]_vars
  PROVE  CachesAgree'
  <1>1. CASE UNCHANGED <<reserve, reserve_info>> BY <1>1 DEF CachesAgree
  <1>2. CASE RefreshStep BY <1>2, RefreshCaches DEF RefreshStep
  <1>3. ASSUME UNCHANGED reserve_info, NEW s \in Reserves,
               NEW t \in Nat, NEW n \in Nat, NEW fees \in Nat, Recorded(s, t, n, fees)
        PROVE  CachesAgree'
    <2>1. reserve[s] \in ReserveState BY DEF TypeOK
    <2>2. PICK x \in {RecordDeposit(reserve[s], t, n), RecordWithdraw(reserve[s], t, n),
                      RecordBorrow(reserve[s], t, n, fees), RecordRepay(reserve[s], t, n)} :
                 reserve' = [reserve EXCEPT ![s] = x]
      BY <1>3 DEF Recorded
    <2>3. /\ x.last_updated = reserve[s].last_updated
          /\ x.invalidated = reserve[s].invalidated
      BY <2>1, <2>2, RecordedCaches
    <2> QED BY <1>3, <2>2, <2>3, SameCaches, Zenon
  <1> QED BY <1>1, <1>2, <1>3, StepReserves

(* A DEX liquidation records a repayment and fees. *)
LEMMA DexCaches ==
  ASSUME TypeOK, CachesAgree, NEW u \in Users, NEW r \in Reserves, NEW c \in Reserves,
         LiquidateDex(u, r, c)
  PROVE  CachesAgree'
  <1>1. PICK sold, proceeds \in Nat : Liquidated(u, r, c, sold, proceeds)
    BY DexStepIs
  <1>2. UNCHANGED reserve_info BY DexStepIs
  <1>3. reserve[r] \in ReserveState BY DEF TypeOK
  <1> DEFINE x(t, n, fees) == AddUncollectedFees(RecordRepay(reserve[r], t, n), fees)
  <1>4. PICK t, n, fees : reserve' = [reserve EXCEPT ![r] = x(t, n, fees)]
    BY <1>1, Zenon DEF Liquidated
  <1>5. /\ x(t, n, fees).last_updated = reserve[r].last_updated
        /\ x(t, n, fees).invalidated = reserve[r].invalidated
    BY <1>3, RecordedCaches
  <1> HIDE DEF x
  <1> QED BY <1>2, <1>4, <1>5, SameCaches, Zenon

-----------------------------------------------------------------------------
(* PositionsWithinAccounts.                                                *)

(* Notes added to an account, and to its record; notes burned, and a       *)
(* Number no smaller taken off the record.                                 *)
LEMMA AmountChanges ==
  ASSUME NEW amount \in Nat, NEW held \in Nat, amount <= NoteAmount(held), NEW n \in Nat
  PROVE  /\ amount <= NoteAmount(held + n)
         /\ amount + NoteAmount(n) <= NoteAmount(held + n)
         /\ \A a \in Nat : NoteAmount(n) <= a /\ n <= held =>
                SaturatingSub(amount, a) <= NoteAmount(held - n)
  <1>1. /\ NoteAmount(held) \in Nat /\ NoteAmount(n) \in Nat
        /\ NoteAmount(held + n) = NoteAmount(held) + NoteAmount(n)
        /\ n <= held => /\ NoteAmount(held - n) = NoteAmount(held) - NoteAmount(n)
                        /\ NoteAmount(n) <= NoteAmount(held)
    BY NoteAmountLinear, Zenon
  <1> QED BY <1>1 DEF SaturatingSub

(* What is left in the accounts covers the records o, and the accounts of  *)
(* other users are the same.                                               *)
CollateralCovers(v, o) ==
    \A r \in Reserves :
        /\ o.collateral[r] <= NoteAmount(collateral_account'[r][v])
        /\ \A u \in Users \ {v} : collateral_account'[r][u] = collateral_account[r][u]
LoansCover(v, o) ==
    \A r \in Reserves :
        /\ o.loans[r] <= NoteAmount(loan_account'[r][v])
        /\ \A u \in Users \ {v} : loan_account'[r][u] = loan_account[r][u]

(* The records of one obligation change. *)
LEMMA OneObligation ==
  ASSUME TypeOK, PositionsWithinAccounts, NEW v \in Users, NEW o,
         obligation' = [obligation EXCEPT ![v] = o],
         CollateralCovers(v, o), LoansCover(v, o)
  PROVE  PositionsWithinAccounts'
  <1>1. obligation'[v] = o /\ \A u \in Users \ {v} : obligation'[u] = obligation[u]
    BY DEF TypeOK
  <1> QED BY <1>1 DEF PositionsWithinAccounts, CollateralCovers, LoansCover

(* n notes are burned, or taken, from one account. *)
Burned(f, g, s, v, n) == g = [f EXCEPT ![s][v] = @ - n]

(* Collateral is taken off the account of v in c and off its record.       *)
LEMMA LessCollateral ==
  ASSUME TypeOK, PositionsWithinAccounts, NEW v \in Users, NEW c \in Reserves,
         NEW n \in Nat, n <= collateral_account[c][v], NEW a \in Nat, NoteAmount(n) <= a,
         Burned(collateral_account, collateral_account', c, v, n)
  PROVE  LET o == SubtractCollateral(obligation[v], c, a)
         IN  /\ o \in ObligationState /\ o.loans = obligation[v].loans
             /\ CollateralCovers(v, o)
  <1> DEFINE o == SubtractCollateral(obligation[v], c, a)
  <1>1. /\ obligation[v] \in ObligationState
        /\ collateral_account \in [Reserves -> [Users -> Nat]]
    BY DEF TypeOK
  <1>2. /\ o \in ObligationState /\ o.loans = obligation[v].loans
        /\ o.collateral[c] = SaturatingSub(obligation[v].collateral[c], a)
        /\ \A r \in Reserves \ {c} : o.collateral[r] = obligation[v].collateral[r]
    <2>1. o \in ObligationState BY <1>1, SubtractTyped
    <2> DEFINE b == obligation[v]
    <2>2. b \in ObligationState /\ o = SubtractCollateral(b, c, a) BY <1>1
    <2> HIDE DEF o, b
    <2>3. /\ o.loans = b.loans
          /\ o.collateral[c] = SaturatingSub(b.collateral[c], a)
          /\ \A r \in Reserves \ {c} : o.collateral[r] = b.collateral[r]
      BY <2>2 DEF SubtractCollateral, ObligationState
    <2> QED BY <2>1, <2>3 DEF b
  <1>3. /\ collateral_account'[c][v] = collateral_account[c][v] - n
        /\ \A r \in Reserves, u \in Users :
              r # c \/ u # v => collateral_account'[r][u] = collateral_account[r][u]
    BY <1>1 DEF Burned
  <1>4. \A r \in Reserves :
            /\ obligation[v].collateral[r] \in Nat
            /\ obligation[v].collateral[r] <= NoteAmount(collateral_account[r][v])
            /\ collateral_account[r][v] \in Nat
    BY <1>1 DEF PositionsWithinAccounts, ObligationState
  <1>5. o.collateral[c] <= NoteAmount(collateral_account'[c][v])
    BY <1>2, <1>3, <1>4, AmountChanges
  <1> HIDE DEF o
  <1>6. \A r \in Reserves : o.collateral[r] <= NoteAmount(collateral_account'[r][v])
    BY <1>2, <1>3, <1>4, <1>5
  <1> QED BY <1>2, <1>3, <1>6 DEF o, CollateralCovers

(* Loan notes are burned, and the debt they stood for is taken off what    *)
(* the handler made of the obligation so far.                              *)
LEMMA LessLoan ==
  ASSUME TypeOK, PositionsWithinAccounts, NEW v \in Users, NEW s \in Reserves,
         NEW before \in ObligationState, before.loans = obligation[v].loans,
         NEW n \in Nat, n <= loan_account[s][v], NEW a \in Nat, NoteAmount(n) <= a,
         Burned(loan_account, loan_account', s, v, n)
  PROVE  LET o == SubtractLoan(before, s, a)
         IN  /\ o.collateral = before.collateral
             /\ LoansCover(v, o)
  <1> DEFINE o == SubtractLoan(before, s, a)
  <1>1. loan_account \in [Reserves -> [Users -> Nat]] BY DEF TypeOK
  <1>2. /\ o.collateral = before.collateral
        /\ o.loans[s] = SaturatingSub(before.loans[s], a)
        /\ \A r \in Reserves \ {s} : o.loans[r] = before.loans[r]
    BY DEF SubtractLoan, ObligationState
  <1>3. /\ loan_account'[s][v] = loan_account[s][v] - n
        /\ \A r \in Reserves, u \in Users :
              r # s \/ u # v => loan_account'[r][u] = loan_account[r][u]
    BY <1>1 DEF Burned
  <1>4. \A r \in Reserves :
            /\ before.loans[r] \in Nat
            /\ before.loans[r] <= NoteAmount(loan_account[r][v])
            /\ loan_account[r][v] \in Nat
    BY <1>1 DEF PositionsWithinAccounts, ObligationState
  <1>5. o.loans[s] <= NoteAmount(loan_account'[s][v])
    BY <1>2, <1>3, <1>4, AmountChanges
  <1> HIDE DEF o
  <1>6. \A r \in Reserves : o.loans[r] <= NoteAmount(loan_account'[r][v])
    BY <1>2, <1>3, <1>4, <1>5
  <1> QED BY <1>2, <1>3, <1>6 DEF o, LoansCover

(* Accounts change by themselves, or records are set to zero or dropped.   *)
LEMMA AccountsWithin ==
  ASSUME TypeOK, PositionsWithinAccounts, NEW v \in Users,
         \/ InitObligation(v) \/ CloseObligation(v)
         \/ \E s \in Reserves :
               \/ InitDepositAccount(v, s) \/ CloseDepositAccount(v, s)
               \/ InitCollateralAccount(v, s) \/ CloseCollateralAccount(v, s)
               \/ InitLoanAccount(v, s) \/ CloseLoanAccount(v, s)
  PROVE  PositionsWithinAccounts'
  <1>1. CASE CloseObligation(v) \/ \E s \in Reserves : InitDepositAccount(v, s)
    BY <1>1, Zenon DEF CloseObligation, InitDepositAccount, PositionsWithinAccounts, deposit_notes,
                loan_notes
  <1>2. CASE \E s \in Reserves : CloseDepositAccount(v, s)
    <2>1. UNCHANGED <<obligation, collateral_account, loan_account>>
      BY <1>2 DEF CloseDepositAccount, BurnDepositNotes, deposit_notes, loan_notes
    <2> QED BY <2>1 DEF PositionsWithinAccounts
  <1>3. CASE \/ InitObligation(v)
             \/ \E s \in Reserves :
                   \/ InitCollateralAccount(v, s) \/ CloseCollateralAccount(v, s)
                   \/ InitLoanAccount(v, s) \/ CloseLoanAccount(v, s)
    <2>1. UNCHANGED <<collateral_account, loan_account>>
      BY <1>3, Zenon DEF InitObligation, InitCollateralAccount, CloseCollateralAccount,
                  InitLoanAccount, CloseLoanAccount, deposit_notes, loan_notes
    <2>2. PICK o : /\ obligation' = [obligation EXCEPT ![v] = o]
                   /\ \A r \in Reserves :
                        /\ o.collateral[r] \in {0, obligation[v].collateral[r]}
                        /\ o.loans[r] \in {0, obligation[v].loans[r]}
      <3>1. CASE InitObligation(v)
        <4> DEFINE o == NewObligation
        <4>1. obligation' = [obligation EXCEPT ![v] = o] BY <3>1 DEF InitObligation
        <4>2. \A r \in Reserves : o.collateral[r] = 0 /\ o.loans[r] = 0
          BY DEF NewObligation
        <4> HIDE DEF o
        <4> QED BY <4>1, <4>2, Zenon
      <3>2. ASSUME NEW s \in Reserves,
                   \/ InitCollateralAccount(v, s) \/ CloseCollateralAccount(v, s)
                   \/ InitLoanAccount(v, s) \/ CloseLoanAccount(v, s)
            PROVE  \E o : /\ obligation' = [obligation EXCEPT ![v] = o]
                          /\ \A r \in Reserves :
                               /\ o.collateral[r] \in {0, obligation[v].collateral[r]}
                               /\ o.loans[r] \in {0, obligation[v].loans[r]}
        <4> DEFINE b == obligation[v]
        <4>1. b \in ObligationState BY DEF TypeOK
        <4>2. PICK o \in {RegisterCollateral(b, s), RegisterLoan(b, s),
                          UnregisterCollateral(b, s), UnregisterLoan(b, s)} :
                  obligation' = [obligation EXCEPT ![v] = o]
          BY <3>2 DEF InitCollateralAccount, CloseCollateralAccount,
                      InitLoanAccount, CloseLoanAccount
        <4> HIDE DEF b
        <4>3. \A r \in Reserves : o.collateral[r] \in {0, b.collateral[r]}
                                  /\ o.loans[r] \in {0, b.loans[r]}
          BY <4>1, Zenon DEF RegisterCollateral, RegisterLoan, UnregisterCollateral, UnregisterLoan,
                      ObligationState
        <4> QED BY <4>2, <4>3, Zenon DEF b
      <3> QED BY <1>3, <3>1, <3>2
    <2>3. \A r \in Reserves :
             /\ NoteAmount(collateral_account[r][v]) \in Nat
             /\ NoteAmount(loan_account[r][v]) \in Nat
             /\ obligation[v].collateral[r] <= NoteAmount(collateral_account[r][v])
             /\ obligation[v].loans[r] <= NoteAmount(loan_account[r][v])
      BY NoteAmountLinear DEF TypeOK, PositionsWithinAccounts
    <2>4. \A r \in Reserves :
             /\ o.collateral[r] <= NoteAmount(collateral_account[r][v])
             /\ o.loans[r] <= NoteAmount(loan_account[r][v])
      BY <2>2, <2>3
    <2>5. CollateralCovers(v, o) /\ LoansCover(v, o)
      BY <2>1, <2>4 DEF CollateralCovers, LoansCover
    <2> QED BY <2>2, <2>5, OneObligation, Zenon
  <1> QED BY <1>1, <1>2, <1>3

(* Deposits and withdrawals of tokens: a deposit may go into a collateral  *)
(* account, whose record stays behind.                                     *)
LEMMA DepositWithin ==
  ASSUME TypeOK, PositionsWithinAccounts, NEW v \in Users, NEW s \in Reserves,
         NEW a \in Amounts,
         Withdraw(v, s, a) \/ \E to \in Users : DepositTokens(v, s, a, to)
  PROVE  PositionsWithinAccounts'
  <1>1. CASE Withdraw(v, s, a)
    BY <1>1 DEF Withdraw, WithdrawTokens, BurnDepositNotes, PositionsWithinAccounts, loan_notes
  <1>2. ASSUME NEW to \in Users, DepositTokens(v, s, a, to) PROVE PositionsWithinAccounts'
    <2> DEFINE n == AsDepositNotes(a, reserve_info[s], "Down")
    <2>1. n \in Nat BY <1>2, AmountsNat DEF DepositTokens, TypeOK
    <2>2. /\ UNCHANGED <<obligation, loan_account>>
          /\ UNCHANGED collateral_account
             \/ collateral_account' = [collateral_account EXCEPT ![s][to] = @ + n]
      BY <1>2 DEF DepositTokens, IntoDepositAccount, IntoCollateralAccount, loan_notes
    <2> HIDE DEF n
    <2> SUFFICES ASSUME NEW u \in Users, NEW r \in Reserves
                 PROVE  obligation[u].collateral[r] <= NoteAmount(collateral_account'[r][u])
      BY <2>2 DEF PositionsWithinAccounts
    <2>3. /\ obligation[u].collateral[r] \in Nat /\ collateral_account[r][u] \in Nat
          /\ obligation[u].collateral[r] <= NoteAmount(collateral_account[r][u])
      BY DEF TypeOK, ObligationState, PositionsWithinAccounts
    <2>4. \/ collateral_account'[r][u] = collateral_account[r][u]
          \/ collateral_account'[r][u] = collateral_account[r][u] + n
      <3>1. collateral_account \in [Reserves -> [Users -> Nat]] BY DEF TypeOK
      <3> QED BY <2>2, <3>1
    <2> QED BY <2>1, <2>3, <2>4, AmountChanges
  <1> QED BY <1>1, <1>2

(* Pledging collateral, taking it back, and borrowing change an account    *)
(* and its record alike.                                                   *)
LEMMA OwnerWithin ==
  ASSUME TypeOK, PositionsWithinAccounts, NEW v \in Users, NEW s \in Reserves,
         NEW a \in Amounts,
         DepositCollateral(v, s, a) \/ WithdrawCollateral(v, s, a) \/ Borrow(v, s, a)
  PROVE  PositionsWithinAccounts'
  <1>0. /\ obligation[v] \in ObligationState
        /\ collateral_account \in [Reserves -> [Users -> Nat]]
        /\ loan_account \in [Reserves -> [Users -> Nat]]
        /\ reserve_info[s] \in CachedReserveInfo
    BY DEF TypeOK
  <1>1. \A r \in Reserves :
            /\ obligation[v].collateral[r] \in Nat /\ obligation[v].loans[r] \in Nat
            /\ obligation[v].collateral[r] <= NoteAmount(collateral_account[r][v])
            /\ obligation[v].loans[r] <= NoteAmount(loan_account[r][v])
    BY <1>0 DEF PositionsWithinAccounts, ObligationState
  <1>2. CASE DepositCollateral(v, s, a)
    <2> DEFINE n == AsDepositNotes(a, reserve_info[s], "Down")
               o == AddCollateral(obligation[v], s, NoteAmount(n))
    <2>1. n \in Nat BY <1>0, <1>2, AmountsNat DEF DepositCollateral
    <2>2. /\ collateral_account' = [collateral_account EXCEPT ![s][v] = @ + n]
          /\ obligation' = [obligation EXCEPT ![v] =
                                AddCollateral(@, s, NoteAmount(n))]
          /\ UNCHANGED loan_account
      BY <1>2 DEF DepositCollateral, loan_notes
    <2> HIDE DEF n
    <2>3. /\ o.loans = obligation[v].loans
          /\ o.collateral[s] = obligation[v].collateral[s] + NoteAmount(n)
          /\ \A r \in Reserves \ {s} : o.collateral[r] = obligation[v].collateral[r]
      BY <1>0 DEF AddCollateral, ObligationState
    <2>4. /\ collateral_account'[s][v] = collateral_account[s][v] + n
          /\ \A r \in Reserves, u \in Users :
                r # s \/ u # v => collateral_account'[r][u] = collateral_account[r][u]
      BY <1>0, <2>2
    <2>5. o.collateral[s] <= NoteAmount(collateral_account'[s][v])
      BY <1>0, <1>1, <2>1, <2>3, <2>4, AmountChanges
    <2>6. obligation' = [obligation EXCEPT ![v] = o] BY <2>2
    <2> HIDE DEF o
    <2>7. CollateralCovers(v, o) /\ LoansCover(v, o)
      BY <1>1, <2>2, <2>3, <2>4, <2>5 DEF CollateralCovers, LoansCover
    <2> QED BY <2>6, <2>7, OneObligation, Zenon
  <1>3. CASE WithdrawCollateral(v, s, a)
    <2> DEFINE n == AsDepositNotes(a, reserve_info[s], "Up")
               o == SubtractCollateral(obligation[v], s, NoteAmount(n))
    <2>1. n \in Nat BY <1>0, <1>3, AmountsNat DEF WithdrawCollateral
    <2>2. /\ Burned(collateral_account, collateral_account', s, v, n)
          /\ n <= collateral_account[s][v]
          /\ obligation' = [obligation EXCEPT ![v] = o]
          /\ UNCHANGED loan_account
      BY <1>3 DEF WithdrawCollateral, Burned, loan_notes
    <2> HIDE DEF n
    <2>3. NoteAmount(n) \in Nat BY <2>1, NoteAmountLinear
    <2>4. o.loans = obligation[v].loans /\ CollateralCovers(v, o)
      BY <2>1, <2>2, <2>3, LessCollateral
    <2> HIDE DEF o
    <2>5. LoansCover(v, o) BY <1>1, <2>2, <2>4 DEF LoansCover
    <2> QED BY <2>2, <2>4, <2>5, OneObligation, Zenon
  <1>4. CASE Borrow(v, s, a)
    <2> DEFINE t    == AsTokens(a, reserve_info[s], "Down")
               fees == BorrowFee(config[s].loan_origination_fee, t)
               n    == NotesFromTokens(t + fees, reserve_info[s].loan_note_exchange_rate, "Up")
               o    == AddLoan(obligation[v], s, NoteAmount(n))
    <2>1. /\ reserve_info[s].loan_note_exchange_rate > 0
          /\ loan_account' = [loan_account EXCEPT ![s][v] = @ + n]
          /\ obligation' = [obligation EXCEPT ![v] = o]
          /\ UNCHANGED collateral_account
      BY <1>4 DEF Borrow, deposit_notes
    <2>2. n \in Nat
      <3>1. config[s].loan_origination_fee \in Nat BY DEF TypeOK, Config
      <3> QED BY <2>1, <3>1, NewNotesNat
    <2> HIDE DEF n
    <2>3. /\ o.collateral = obligation[v].collateral
          /\ o.loans[s] = obligation[v].loans[s] + NoteAmount(n)
          /\ \A r \in Reserves \ {s} : o.loans[r] = obligation[v].loans[r]
      BY <1>0 DEF AddLoan, ObligationState
    <2>4. /\ loan_account'[s][v] = loan_account[s][v] + n
          /\ \A r \in Reserves, u \in Users :
                r # s \/ u # v => loan_account'[r][u] = loan_account[r][u]
      BY <1>0, <2>1
    <2>5. o.loans[s] <= NoteAmount(loan_account'[s][v])
      BY <1>0, <1>1, <2>2, <2>3, <2>4, AmountChanges
    <2> HIDE DEF o
    <2>6. CollateralCovers(v, o) /\ LoansCover(v, o)
      BY <1>1, <2>1, <2>3, <2>4, <2>5 DEF CollateralCovers, LoansCover
    <2> QED BY <2>1, <2>6, OneObligation, Zenon
  <1> QED BY <1>2, <1>3, <1>4

(* So do repayments and liquidations.                                      *)
LEMMA PayOffWithin ==
  ASSUME TypeOK, PositionsWithinAccounts, NEW payer \in Users, NEW v \in Users,
         NEW s \in Reserves, NEW a \in Amounts,
         \/ Repay(payer, v, s, a)
         \/ \E c \in Reserves, m \in MinCollaterals : Liquidate(payer, v, s, c, a, m)
  PROVE  PositionsWithinAccounts'
  <1>1. obligation[v] \in ObligationState BY DEF TypeOK
  <1>2. ASSUME NEW before \in ObligationState, before.loans = obligation[v].loans,
               PayOff(payer, v, s, a, before), CollateralCovers(v, before)
        PROVE  PositionsWithinAccounts'
    <2> DEFINE n == PayoffNotes(v, s, a)
               o == SubtractLoan(before, s, NoteAmount(n))
    <2>1. n \in Nat /\ n <= loan_account[s][v] BY <1>2, PayoffNat DEF PayOff
    <2>2. /\ Burned(loan_account, loan_account', s, v, n)
          /\ obligation' = [obligation EXCEPT ![v] = o]
      BY <1>2 DEF PayOff, Burned
    <2> HIDE DEF n
    <2>3. NoteAmount(n) \in Nat BY <2>1, NoteAmountLinear
    <2>4. o.collateral = before.collateral /\ LoansCover(v, o)
      BY <1>2, <2>1, <2>2, <2>3, LessLoan
    <2> HIDE DEF o
    <2>5. CollateralCovers(v, o) BY <1>2, <2>4 DEF CollateralCovers
    <2> QED BY <2>2, <2>4, <2>5, OneObligation, Zenon
  <1>3. CASE Repay(payer, v, s, a)
    <2>1. PayOff(payer, v, s, a, obligation[v]) /\ UNCHANGED collateral_account
      BY <1>3 DEF Repay, deposit_notes
    <2>2. CollateralCovers(v, obligation[v])
      BY <2>1 DEF CollateralCovers, PositionsWithinAccounts
    <2> QED BY <1>1, <1>2, <2>1, <2>2
  <1>4. ASSUME NEW c \in Reserves, NEW m \in MinCollaterals, Liquidate(payer, v, s, c, a, m)
        PROVE  PositionsWithinAccounts'
    <2> DEFINE n == CollateralTaken(v, s, c, a)
               before == SubtractCollateral(obligation[v], c, NoteAmount(n))
    <2>1. /\ n \in m .. collateral_account[c][v]
          /\ Burned(collateral_account, collateral_account', c, v, n)
          /\ PayOff(payer, v, s, a, before)
      BY <1>4 DEF Liquidate, Burned
    <2> HIDE DEF n
    <2>2. n \in Nat /\ n <= collateral_account[c][v]
      <3>1. m \in Nat /\ collateral_account[c][v] \in Nat BY InputsAssumption DEF TypeOK
      <3> QED BY <2>1, <3>1
    <2>3. NoteAmount(n) \in Nat BY <2>2, NoteAmountLinear
    <2>4. /\ before \in ObligationState /\ before.loans = obligation[v].loans
          /\ CollateralCovers(v, before)
      BY <2>1, <2>2, <2>3, LessCollateral
    <2> HIDE DEF before
    <2> QED BY <1>2, <2>1, <2>4
  <1> QED BY <1>3, <1>4

(* No step of Lending leaves a record with more than its account has. *)
LEMMA StepWithin ==
  ASSUME TypeOK, PositionsWithinAccounts, [Next]_vars
  PROVE  PositionsWithinAccounts'
  <1>1. CASE Tick \/ OwnerStep \/ RefreshStep \/ UNCHANGED vars
    <2>1. UNCHANGED <<obligation, collateral_account, loan_account>>
      BY <1>1 DEF Tick, OwnerStep, SetMarketFlags, UpdateReserveConfig, RefreshStep,
                  RefreshReserve, vars, deposit_notes, loan_notes
    <2> QED BY <2>1 DEF PositionsWithinAccounts
  <1>2. CASE AccountStep BY <1>2, AccountsWithin DEF AccountStep
  <1>3. CASE UserStep BY <1>3, DepositWithin, OwnerWithin, PayOffWithin DEF UserStep
  <1> QED BY <1>1, <1>2, <1>3 DEF Next

(* Nor does a DEX liquidation: it burns whole notes, and takes the exact   *)
(* Numbers, which are no smaller, off the records.                         *)
LEMMA DexWithin ==
  ASSUME TypeOK, PositionsWithinAccounts, NEW u \in Users, NEW r \in Reserves,
         NEW c \in Reserves, LiquidateDex(u, r, c)
  PROVE  PositionsWithinAccounts'
  <1> DEFINE x == LoanRepaidNotes(u, r, c)
             y == CollateralNotesSold(u, r, c)
             n == AsU64(x)
             m == AsU64(y)
             before == SubtractCollateral(obligation[u], c, y)
             after == SubtractLoan(before, r, x)
  <1>1. x \in Nat /\ y \in Nat
    <2>1. PlanTyped(u, r, c) BY PlanNat
    <2> QED BY <2>1 DEF PlanTyped
  <1>2. PICK sold, proceeds \in Nat : Liquidated(u, r, c, sold, proceeds)
    BY DexStepIs
  <1>3. /\ n <= loan_account[r][u] /\ m <= collateral_account[c][u]
        /\ Burned(loan_account, loan_account', r, u, n)
        /\ Burned(collateral_account, collateral_account', c, u, m)
        /\ obligation' = [obligation EXCEPT ![u] = after]
    BY <1>2 DEF Liquidated, Burned
  <1> HIDE DEF x, y
  <1>4. /\ n \in Nat /\ NoteAmount(n) <= x /\ m \in Nat /\ NoteAmount(m) <= y
    BY <1>1, Quotient, ONEAssumption DEF AsU64, NoteAmount, FromU64
  <1> HIDE DEF n, m
  <1>5. /\ before \in ObligationState /\ before.loans = obligation[u].loans
        /\ CollateralCovers(u, before)
    BY <1>1, <1>3, <1>4, LessCollateral
  <1> HIDE DEF before
  <1>6. after.collateral = before.collateral /\ LoansCover(u, after)
    BY <1>1, <1>3, <1>4, <1>5, LessLoan
  <1> HIDE DEF after
  <1>7. CollateralCovers(u, after) BY <1>5, <1>6 DEF CollateralCovers
  <1> QED BY <1>3, <1>6, <1>7, OneObligation, Zenon

-----------------------------------------------------------------------------
(* What a DEX liquidation leaves intact.                                   *)

(* The part of the accounting that survives it: the totals of the reserve  *)
(* whose collateral is sold no longer match its mint and its vault, so the *)
(* mints are compared with the accounts instead.                           *)
DexInv == TypeOK /\ NotesHeld /\ CachesAgree /\ PositionsWithinAccounts

(* A step is one of Lending, or a liquidation on the DEX. *)
LEMMA DexSteps ==
  ASSUME [DexNext]_dex_vars
  PROVE  [Next]_vars \/ \E u \in Users, r, c \in Reserves : LiquidateDex(u, r, c)
  BY DEF DexNext, LendingStep, DexStep, dex_vars

(* It holds of an empty market, *)
LEMMA InitDex == DexInit => DexInv
  <1> SUFFICES ASSUME Init PROVE DexInv BY DEF DexInit
  <1>1. PositionInv BY InitPositions
  <1>2. PositionsWithinAccounts
    <2>1. /\ obligation = [u \in Users |-> NewObligation]
          /\ collateral_account = NoNotes /\ loan_account = NoNotes
      BY DEF Init
    <2>2. NoteAmount(0) = 0 BY NoteAmountLinear
    <2> QED BY <2>1, <2>2 DEF PositionsWithinAccounts, NewObligation, NoNotes
  <1> QED BY <1>1, <1>2, InitNotes DEF PositionInv, AccountingInv, DexInv

(* and every step keeps it.                                                *)
LEMMA NextDex == DexInv /\ [DexNext]_dex_vars => DexInv'
  <1> SUFFICES ASSUME DexInv, [DexNext]_dex_vars PROVE DexInv'
    OBVIOUS
  <1>1. TypeOK /\ NotesHeld /\ CachesAgree /\ PositionsWithinAccounts BY DEF DexInv
  <1>2. CASE [Next]_vars
    <2>1. BurnsCovered BY <1>1, AccountsWithinMints DEF BurnsCovered
    <2>2. TypeOK' BY <1>1, <1>2, <2>1, StepTypeOK
    <2>3. NotesHeld' BY <1>1, <1>2, <2>2, StepNotes
    <2> QED BY <1>1, <1>2, <2>2, <2>3, StepCaches, StepWithin DEF DexInv
  <1>3. ASSUME NEW u \in Users, NEW r \in Reserves, NEW c \in Reserves,
               LiquidateDex(u, r, c)
        PROVE  DexInv'
    <2>1. TypeOK' BY <1>1, <1>3, DexTypeOK
    <2>2. NotesHeld' BY <1>1, <1>3, <2>1, DexNotes
    <2> QED BY <1>1, <1>3, <2>1, <2>2, DexCaches, DexWithin DEF DexInv
  <1> QED BY <1>2, <1>3, DexSteps

(* In every market with liquidations on a DEX, DexInv always holds. *)
THEOREM DexInvariant == DexSpec => []DexInv
  BY InitDex, NextDex, PTL DEF DexSpec

(* No balance, supply or total goes below zero, whatever an order brings:  *)
(* also where the totals compared with before a burn are not the supplies. *)
THEOREM DexTypeCorrect == DexSpec => []TypeOK
  <1>1. DexInv => TypeOK BY DEF DexInv
  <1> QED BY <1>1, DexInvariant, PTL

(* A market entry that can be used never comes with a reserve that cannot, *)
(* or that was refreshed in another slot.                                  *)
THEOREM DexCachesInSync == DexSpec => []CachesInSync
  <1>1. DexInv => CachesInSync
    BY DEF DexInv, CachesAgree, CachesInSync, Cached, Fresh
  <1> QED BY <1>1, DexInvariant, PTL

(* Health is judged by no more collateral than an account holds and no     *)
(* more debt than it owes, though whole notes are burned and fractions of  *)
(* notes are taken off the records.                                        *)
THEOREM PositionsStayWithinAccounts == DexSpec => []PositionsWithinAccounts
  <1>1. DexInv => PositionsWithinAccounts BY DEF DexInv
  <1> QED BY <1>1, DexInvariant, PTL

-----------------------------------------------------------------------------
(* The truncated quotients of a plan.                                      *)

(* A truncated product loses less than one of its last digits.             *)
LEMMA TruncatedProduct ==
  ASSUME NEW a \in Nat, NEW b \in Nat
  PROVE  /\ Mul(a, b) \in Nat /\ a * b \in Nat /\ Mul(a, b) * ONE \in Nat
         /\ Mul(a, b) * ONE <= a * b /\ a * b + 1 <= Mul(a, b) * ONE + ONE
  <1> DEFINE m == Mul(a, b)
  <1>1. m \in Nat /\ a * b \in Nat /\ m * ONE \in Nat /\ m * ONE <= a * b
    BY MulTruncates
  <1>2. a * b < m * ONE + ONE BY <1>1, Quotient, ONEAssumption DEF Mul
  <1> HIDE DEF m
  <1>3. a * b + 1 <= m * ONE + ONE BY <1>1, <1>2, ONEAssumption
  <1> QED BY <1>1, <1>3 DEF m

(* What is to be repaid, and the premium w on it, is worth what is to be   *)
(* sold: no more, but for the price of one unit; and no less, but for the  *)
(* precision of the share that is sold of what could be.  Here v could be  *)
(* sold, that is s tokens at price q, and t of them are.                   *)
LEMMA RepaidWorth ==
  ASSUME NEW v \in Nat, NEW t \in Nat, NEW q \in Nat \ {0}, NEW w \in Nat \ {0},
         NEW s \in Nat \ {0}, s = Div(v, q), t <= s
  PROVE  LET x == Mul(Div(t, s), Div(v, w))
         IN  /\ x \in Nat
             /\ x * w <= t * q + q
             /\ t * q <= (x + 3 + AsU64(Div(v, w))) * w
  <1> DEFINE d == Div(t, s)
             l == Div(v, w)
             x == Mul(d, l)
             k == AsU64(l)
  <1>1. /\ d \in Nat /\ t * ONE \in Nat /\ d * s \in Nat
        /\ d * s <= t * ONE /\ t * ONE + 1 <= d * s + s
    BY TruncatedQuotient, Zenon
  <1>2. /\ l \in Nat /\ v * ONE \in Nat /\ l * w \in Nat
        /\ l * w <= v * ONE /\ v * ONE + 1 <= l * w + w
    BY TruncatedQuotient, Zenon
  <1>3. /\ s * q \in Nat /\ s * q <= v * ONE /\ v * ONE + 1 <= s * q + q
    BY TruncatedQuotient
  <1> HIDE DEF d, l
  <1>4. /\ x \in Nat /\ d * l \in Nat /\ x * ONE \in Nat
        /\ x * ONE <= d * l /\ d * l + 1 <= x * ONE + ONE
    BY <1>1, <1>2, TruncatedProduct, Zenon
  <1>5. k \in Nat /\ k * ONE \in Nat /\ l + 1 <= k * ONE + ONE BY <1>2, WholePart, Zenon
  <1>6. d <= ONE
    <2>1. t * ONE <= s * ONE /\ s * ONE \in Nat BY Product, ONEAssumption
    <2>2. s * ONE = ONE * s BY ONEAssumption
    <2>3. d * s <= ONE * s BY <1>1, <2>1, <2>2
    <2> QED BY <1>1, <2>3, CancelFactor, ONEAssumption
  <1> HIDE DEF x, k
  <1>7. x * w \in Nat /\ t * q \in Nat /\ d * q \in Nat /\ d * v \in Nat /\ d * w \in Nat
    BY <1>1, <1>4, Product
  <1>8. x * w <= t * q + q
    <2>1. (x * ONE) * w <= (d * l) * w BY <1>4, Product
    <2>2. (d * l) * w = (l * w) * d BY <1>1, <1>2
    <2>3. (l * w) * d <= (s * q + q) * d
      <3>1. l * w <= s * q + q /\ s * q + q \in Nat BY <1>2, <1>3
      <3> QED BY <1>1, <1>2, <3>1, Product, Zenon
    <2>4. (s * q + q) * d = (d * s) * q + d * q BY <1>1
    <2>5. (d * s) * q <= (t * ONE) * q BY <1>1, Product
    <2>6. d * q <= ONE * q BY <1>1, <1>6, Product, ONEAssumption
    <2>7. /\ (x * ONE) * w = (x * w) * ONE
          /\ (t * ONE) * q + ONE * q = (t * q + q) * ONE
      BY <1>4, ONEAssumption
    <2>8. /\ (x * w) * ONE \in Nat /\ (t * ONE) * q \in Nat /\ ONE * q \in Nat
          /\ (d * s) * q \in Nat /\ (l * w) * d \in Nat
      BY <1>1, <1>2, <1>7, Product, ONEAssumption
    <2>9. (x * w) * ONE <= (t * q + q) * ONE
      BY <1>7, <2>1, <2>2, <2>3, <2>4, <2>5, <2>6, <2>7, <2>8
    <2>10. t * q + q \in Nat BY <1>7
    <2> QED BY <1>7, <2>9, <2>10, CancelFactor, ONEAssumption
  <1>9. t * q <= (x + 3 + k) * w
    <2> DEFINE e == d + 1
               g == l + 1
               z == x + 3 + k
    <2>1. e \in Nat /\ g \in Nat /\ z \in Nat BY <1>1, <1>2, <1>4, <1>5
    <2>2. (t * ONE) * q <= (e * s) * q
      <3>1. d * s + s = e * s /\ e * s \in Nat BY <1>1, <2>1, Product
      <3>2. t * ONE <= e * s BY <1>1, <3>1
      <3> HIDE DEF e
      <3> QED BY <1>1, <3>1, <3>2, Product
    <2>3. (e * s) * q = (s * q) * e BY <2>1
    <2>4. (s * q) * e <= (g * w) * e
      <3>1. l * w + w = g * w /\ g * w \in Nat BY <1>2, <2>1, Product
      <3>2. s * q <= g * w BY <1>2, <1>3, <3>1
      <3> HIDE DEF e, g
      <3> QED BY <1>3, <2>1, <3>1, <3>2, Product
    <2>5. (g * w) * e = (e * g) * w BY <2>1
    <2>6. e * g <= z * ONE
      <3>1. e * g = d * l + d + l + 1 BY <1>1, <1>2
      <3>2. z * ONE = x * ONE + k * ONE + ONE + ONE + ONE
        BY <1>4, <1>5, ONEAssumption
      <3> QED BY <1>1, <1>2, <1>4, <1>5, <1>6, <3>1, <3>2, ONEAssumption
    <2> HIDE DEF e, g, z
    <2>7. (e * g) * w <= (z * ONE) * w
      <3>1. e * g \in Nat /\ z * ONE \in Nat BY <2>1, Product, ONEAssumption
      <3> QED BY <2>6, <3>1, Product
    <2>8. /\ (t * ONE) * q = (t * q) * ONE
          /\ (z * ONE) * w = (z * w) * ONE
      BY <2>1, ONEAssumption
    <2>9. z * w \in Nat BY <2>1, Product
    <2>10. /\ (t * q) * ONE \in Nat /\ (z * w) * ONE \in Nat /\ (e * g) * w \in Nat
           /\ (s * q) * e \in Nat
      <3>1. e * g \in Nat BY <2>1, Product
      <3> QED BY <1>3, <1>7, <2>1, <2>9, <3>1, Product, ONEAssumption
    <2>11. (t * q) * ONE <= (z * w) * ONE
      BY <2>2, <2>3, <2>4, <2>5, <2>7, <2>8, <2>10
    <2>12. t * q <= z * w BY <1>7, <2>9, <2>11, CancelFactor, ONEAssumption
    <2> QED BY <2>12 DEF z
  <1> QED BY <1>4, <1>8, <1>9 DEF x, k, d, l

(* What verify_proceeds asks for, and the premium w on it, is worth what   *)
(* is to be sold, when k is what the slippage leaves of ONE.               *)
LEMMA ProceedsWorth ==
  ASSUME NEW t \in Nat, NEW q \in Nat, NEW k \in Nat, NEW w \in Nat,
         ONE <= w, ONE * ONE <= k * w
  PROVE  LET z == Mul(Mul(q, t), k)
         IN  z \in Nat /\ t * q <= (z + 2) * w
  <1> DEFINE y == Mul(q, t)
             z == Mul(y, k)
  <1>1. y \in Nat /\ q * t \in Nat /\ y * ONE \in Nat /\ q * t + 1 <= y * ONE + ONE
    BY TruncatedProduct, Zenon
  <1> HIDE DEF y
  <1>2. z \in Nat /\ y * k \in Nat /\ z * ONE \in Nat /\ y * k + 1 <= z * ONE + ONE
    BY <1>1, TruncatedProduct, Zenon
  <1> HIDE DEF z
  <1>3. y * ONE <= (z + 1) * w
    <2> DEFINE g == z + 1
    <2>1. g \in Nat /\ g * ONE = z * ONE + ONE BY <1>2, ONEAssumption
    <2> HIDE DEF g
    <2>2. g * ONE \in Nat /\ y * k <= g * ONE BY <1>2, <2>1, ONEAssumption
    <2>3. (y * k) * w <= (g * ONE) * w BY <1>2, <2>2, Product
    <2>4. (ONE * ONE) * y <= (k * w) * y
      <3>1. ONE * ONE \in Nat /\ k * w \in Nat BY Product, ONEAssumption
      <3> QED BY <1>1, <3>1, Product
    <2>5. /\ (ONE * ONE) * y = (y * ONE) * ONE
          /\ (k * w) * y = (y * k) * w
          /\ (g * ONE) * w = (g * w) * ONE
      BY <1>1, <2>1, ONEAssumption
    <2>6. g * w \in Nat BY <2>1, Product
    <2>7. (y * ONE) * ONE \in Nat /\ (g * w) * ONE \in Nat /\ (y * k) * w \in Nat
      BY <1>1, <1>2, <2>6, Product, ONEAssumption
    <2>8. (y * ONE) * ONE <= (g * w) * ONE BY <2>3, <2>4, <2>5, <2>7
    <2>9. y * ONE <= g * w BY <1>1, <2>6, <2>8, CancelFactor, ONEAssumption
    <2> QED BY <2>9 DEF g
  <1>4. (z + 2) * w = (z + 1) * w + w BY <1>2
  <1>5. (z + 1) * w \in Nat
    <2>1. z + 1 \in Nat BY <1>2
    <2> QED BY <2>1, Product
  <1>6. t * q = q * t OBVIOUS
  <1>7. t * q <= (z + 2) * w BY <1>1, <1>3, <1>4, <1>5, <1>6, ONEAssumption
  <1> QED BY <1>2, <1>7 DEF y, z

(* The whole tokens of a value: no fewer than it buys. *)
LEMMA WholeTokens ==
  ASSUME NEW x \in Nat, NEW price \in Nat \ {0}
  PROVE  LET n == AsU64(Div(x, price))
         IN  /\ n \in Nat /\ n * price \in Nat /\ (n + 1) * price \in Nat
             /\ n * price <= x /\ x + 1 <= (n + 1) * price
  <1> DEFINE d == Div(x, price)
             n == AsU64(d)
             m == n + 1
  <1>1. /\ d \in Nat /\ x * ONE \in Nat /\ d * price \in Nat
        /\ d * price <= x * ONE /\ x * ONE + 1 <= d * price + price
    BY TruncatedQuotient
  <1> HIDE DEF d
  <1>2. n \in Nat /\ n * ONE \in Nat /\ n * ONE <= d /\ d + 1 <= n * ONE + ONE
    BY <1>1, WholePart, Zenon
  <1> HIDE DEF n
  <1>3. m \in Nat /\ m * ONE = n * ONE + ONE BY <1>2, ONEAssumption
  <1>4. n * price \in Nat /\ m * price \in Nat BY <1>2, <1>3, Product
  <1>5. n * price <= x
    <2>1. (n * ONE) * price <= d * price BY <1>1, <1>2, Product
    <2>2. (n * ONE) * price = (n * price) * ONE BY <1>2, ONEAssumption
    <2>3. (n * price) * ONE \in Nat BY <1>4, Product, ONEAssumption
    <2>4. (n * price) * ONE <= x * ONE BY <1>1, <2>1, <2>2, <2>3
    <2> QED BY <1>4, <2>4, CancelFactor, ONEAssumption
  <1>6. x + 1 <= m * price
    <2> HIDE DEF m
    <2>1. (d + 1) * price <= (m * ONE) * price
      <3>1. d + 1 \in Nat /\ d + 1 <= m * ONE /\ m * ONE \in Nat
        BY <1>1, <1>2, <1>3, ONEAssumption
      <3> QED BY <3>1, Product
    <2>2. (d + 1) * price = d * price + price BY <1>1
    <2>3. (m * ONE) * price = (m * price) * ONE BY <1>3, ONEAssumption
    <2>4. (m * price) * ONE \in Nat BY <1>4, Product, ONEAssumption
    <2>5. x * ONE + 1 <= (m * price) * ONE BY <1>1, <2>1, <2>2, <2>3, <2>4
    <2>6. SUFFICES ASSUME m * price <= x PROVE FALSE BY <1>4
    <2>7. (m * price) * ONE <= x * ONE BY <1>4, <2>6, Product, ONEAssumption
    <2> QED BY <1>1, <2>4, <2>5, <2>7
  <1> QED BY <1>2, <1>4, <1>5, <1>6 DEF n, m, d

(* The tokens a plan repays, against the tokens that came in for it and    *)
(* the tokens it is to sell.                                               *)
LEMMA PlanWorth ==
  ASSUME NEW u \in Users, NEW r \in Reserves, NEW c \in Reserves, PlanTyped(u, r, c),
         NEW proceeds \in Nat,
         VerifyProceeds(r, c, proceeds, CollateralTokensTradable(u, r, c))
  PROVE  LET n == AsU64(LoanRepaidTokens(u, r, c))
             pr == reserve_info[r].price
             pc == reserve_info[c].price
         IN  /\ n \in Nat /\ (n + 1) * pr \in Nat /\ AsU64(pc) \in Nat
             /\ n * pr <= proceeds * pr + AsU64(pc) + 2
             /\ AsU64(LoanRepayValue(obligation[u], r, c)) \in Nat
             /\ CollateralTokensTradable(u, r, c) * pc
                    <= ((n + 1) * pr + AsU64(LoanRepayValue(obligation[u], r, c)) + 2)
                         * (ONE + Premium(c))
  <1> DEFINE o == obligation[u]
             v == CollateralSellableValue(o, r, c)
             l == LoanRepayValue(o, r, c)
             s == CollateralSellExpected(o, r, c)
             t == CollateralTokensTradable(u, r, c)
             p == Premium(c)
             w == ONE + p
             k == ONE - Slippage(c)
             x == Mul(Div(t, s), l)
             pr == reserve_info[r].price
             pc == reserve_info[c].price
             n == AsU64(Div(x, pr))
             z == Mul(Mul(pc, t), k)
             h == AsU64(pc)
             a == AsU64(l)
  <1>1. /\ pr \in Nat \ {0} /\ pc \in Nat \ {0} /\ p \in Nat /\ v \in Nat /\ l \in Nat
        /\ s \in Nat \ {0} /\ t \in Nat /\ t <= s
    BY DEF PlanTyped
  <1>2. /\ s = Div(v, pc) /\ l = Div(v, w)
        /\ LoanRepaidTokens(u, r, c) = Div(x, pr)
    BY DEF CollateralSellExpected, LoanRepayValue, LoanRepaidTokens
  <1>3. k \in Nat /\ ONE * ONE <= k * w BY <1>1, SlippageIsPremium
  <1>4. Mul(pr, FromU64(proceeds)) >= z BY DEF VerifyProceeds
  <1> HIDE DEF v, l, s, t, p, k, pr, pc
  <1>5. w \in Nat \ {0} /\ ONE <= w BY <1>1, ONEAssumption
  <1> HIDE DEF w
  <1>6. a \in Nat /\ h \in Nat /\ h * ONE \in Nat /\ pc + 1 <= h * ONE + ONE
    BY <1>1, WholePart
  <1>7. x \in Nat /\ x * w <= t * pc + pc /\ t * pc <= (x + 3 + a) * w
    BY <1>1, <1>2, <1>5, RepaidWorth, Zenon
  <1>8. z \in Nat /\ t * pc <= (z + 2) * w BY <1>1, <1>3, <1>5, ProceedsWorth, Zenon
  <1> HIDE DEF x, z, a, h
  <1>9. /\ n \in Nat /\ n * pr \in Nat /\ (n + 1) * pr \in Nat
        /\ n * pr <= x /\ x + 1 <= (n + 1) * pr
    BY <1>1, <1>7, WholeTokens
  <1> HIDE DEF n
  <1>10. t * pc \in Nat BY <1>1, Product
  <1>11. n * pr <= proceeds * pr + h + 2
    <2>1. Mul(pr, FromU64(proceeds)) = proceeds * pr /\ proceeds * pr \in Nat
      <3>1. proceeds * pr \in Nat BY <1>1, Product
      <3>2. pr * FromU64(proceeds) = (proceeds * pr) * ONE
        BY <1>1, ONEAssumption DEF FromU64
      <3> QED BY <3>1, <3>2, QuotientExact, ONEAssumption DEF Mul
    <2>2. z <= proceeds * pr BY <1>4, <1>8, <2>1
    <2>3. pc + 1 <= (h + 1) * w
      <3>1. (h + 1) * ONE = h * ONE + ONE BY <1>6, ONEAssumption
      <3>2. h + 1 \in Nat BY <1>6
      <3>3. ONE * (h + 1) <= w * (h + 1) BY <1>5, <3>2, Product, ONEAssumption
      <3>4. ONE * (h + 1) = h * ONE + ONE /\ w * (h + 1) = (h + 1) * w
        BY <1>5, <1>6, ONEAssumption
      <3>5. (h + 1) * w \in Nat BY <1>5, <3>2, Product
      <3> QED BY <1>1, <1>6, <3>3, <3>4, <3>5, ONEAssumption
    <2>4. (z + 2) * w + (h + 1) * w = (z + h + 3) * w BY <1>5, <1>6, <1>8
    <2>5. z + h + 3 \in Nat /\ z + 2 \in Nat /\ h + 1 \in Nat BY <1>6, <1>8
    <2>6. (z + 2) * w \in Nat /\ (h + 1) * w \in Nat /\ (z + h + 3) * w \in Nat
      BY <1>5, <2>5, Product
    <2>7. x * w \in Nat BY <1>5, <1>7, Product
    <2>8. x * w + 1 <= (z + h + 3) * w
      BY <1>1, <1>7, <1>8, <1>10, <2>3, <2>4, <2>6, <2>7
    <2>9. ~(z + h + 3 <= x)
      <3> SUFFICES ASSUME z + h + 3 <= x PROVE FALSE OBVIOUS
      <3>1. (z + h + 3) * w <= x * w BY <1>5, <1>7, <2>5, Product
      <3> QED BY <2>6, <2>7, <2>8, <3>1
    <2> QED BY <1>6, <1>7, <1>8, <1>9, <2>1, <2>2, <2>9
  <1>12. t * pc <= ((n + 1) * pr + a + 2) * w
    <2> DEFINE y == (n + 1) * pr
    <2>1. y \in Nat /\ x + 1 <= y BY <1>9
    <2> HIDE DEF y
    <2>2. x + 3 + a <= y + a + 2 /\ x + 3 + a \in Nat /\ y + a + 2 \in Nat
      BY <1>6, <1>7, <2>1
    <2>3. (x + 3 + a) * w <= (y + a + 2) * w /\ (x + 3 + a) * w \in Nat
          /\ (y + a + 2) * w \in Nat
      BY <1>5, <2>2, Product
    <2>4. t * pc <= (y + a + 2) * w BY <1>7, <1>10, <2>3
    <2> QED BY <2>4 DEF y
  <1> QED BY <1>2, <1>6, <1>9, <1>11, <1>12 DEF n, h, a, l, t, pr, pc, w, p

-----------------------------------------------------------------------------
(* BookedTokensArePaid.                                                    *)

Minted(r) == deposit_note_mint'[r] - deposit_note_mint[r]

(* A handler of Lending books no tokens that do not come in, and a refresh *)
(* none; both count the notes they mint and burn.                          *)
LEMMA LendingMoves ==
  ASSUME TypeOK, [Next]_vars, NEW r \in Reserves
  PROVE  /\ Booked(r) <= Paid(r)
         /\ Minted(r) = reserve'[r].total_deposit_notes - reserve[r].total_deposit_notes
  <1> DEFINE Moved == /\ Booked(r) <= Paid(r)
                      /\ Minted(r) = reserve'[r].total_deposit_notes
                                        - reserve[r].total_deposit_notes
  <1>1. /\ reserve \in [Reserves -> ReserveState] /\ vault \in [Reserves -> Nat]
        /\ deposit_note_mint \in [Reserves -> Nat]
        /\ reserve[r] \in ReserveState /\ vault[r] \in Nat /\ deposit_note_mint[r] \in Nat
        /\ reserve[r].total_deposits \in Nat /\ reserve[r].total_deposit_notes \in Nat
    BY DEF TypeOK, ReserveState
  <1>2. ASSUME reserve'[r] = reserve[r], vault'[r] = vault[r],
               deposit_note_mint'[r] = deposit_note_mint[r]
        PROVE  Moved
    BY <1>1, <1>2 DEF Booked, Paid, Minted
  <1>3. CASE UNCHANGED <<reserve, reserve_info, vault, deposit_note_mint>>
    BY <1>2, <1>3
  <1>4. ASSUME NEW s \in Reserves, NEW price \in Prices, NEW x \in AccrualRates,
               RefreshReserve(s, price, x)
        PROVE  Moved
    <2> DEFINE accrued == AccrueInterest(reserve[s], x, config[s].manage_fee_rate,
                                         unix_timestamp, slot)
               rate == DepositNoteExchangeRate(accrued)
               threshold == FromU64(config[s].manage_fee_collection_threshold)
               collected == CollectAccruedFees(accrued, threshold, rate)
               fee_notes == FeeNotes(accrued, threshold, rate)
    <2>1. /\ UNCHANGED vault
          /\ \/ /\ reserve' = [reserve EXCEPT ![s] = accrued]
                /\ UNCHANGED deposit_note_mint
             \/ /\ reserve' = [reserve EXCEPT ![s] = collected]
                /\ deposit_note_mint' = [deposit_note_mint EXCEPT ![s] = @ + fee_notes]
                /\ IsFull(reserve[s], unix_timestamp)
      BY <1>4 DEF RefreshReserve, tokens, deposit_notes
    <2>2. /\ accrued \in ReserveState
          /\ accrued.total_deposits = reserve[s].total_deposits
          /\ accrued.total_deposit_notes = reserve[s].total_deposit_notes
      BY <1>4, RefreshStarts
    <2>3. IsFull(reserve[s], unix_timestamp) => fee_notes \in Nat BY <1>4, FeeNotesNat
    <2> HIDE DEF accrued, rate, threshold
    <2>4. /\ collected.total_deposits = accrued.total_deposits
          /\ collected.total_deposit_notes = accrued.total_deposit_notes + fee_notes
      <3>1. CASE CollectsFees(accrued, threshold)
        BY <2>2, <3>1 DEF CollectAccruedFees, ReserveState
      <3>2. CASE ~CollectsFees(accrued, threshold)
        BY <2>2, <3>2 DEF CollectAccruedFees, FeeNotes, ReserveState
      <3> QED BY <3>1, <3>2
    <2> HIDE DEF collected, fee_notes
    <2>5. CASE s # r BY <1>1, <1>2, <2>1, <2>5
    <2>6. CASE s = r
      BY <1>1, <2>1, <2>2, <2>3, <2>4, <2>6 DEF Booked, Paid, Minted
    <2> QED BY <2>5, <2>6
  <1>5. ASSUME NEW s \in Reserves, NEW t \in Nat, NEW n \in Nat, NEW fees \in Nat,
               Recorded(s, t, n, fees)
        PROVE  Moved
    <2>1. reserve[s] \in ReserveState /\ reserve[s].total_deposits \in Nat
          /\ reserve[s].total_deposit_notes \in Nat
      BY DEF TypeOK, ReserveState
    <2>2. /\ RecordDeposit(reserve[s], t, n).total_deposits = reserve[s].total_deposits + t
          /\ RecordRepay(reserve[s], t, n).total_deposits = reserve[s].total_deposits + t
          /\ RecordWithdraw(reserve[s], t, n).total_deposits = reserve[s].total_deposits - t
          /\ RecordBorrow(reserve[s], t, n, fees).total_deposits
                = reserve[s].total_deposits - t
          /\ RecordDeposit(reserve[s], t, n).total_deposit_notes
                = reserve[s].total_deposit_notes + n
          /\ RecordWithdraw(reserve[s], t, n).total_deposit_notes
                = reserve[s].total_deposit_notes - n
          /\ RecordRepay(reserve[s], t, n).total_deposit_notes
                = reserve[s].total_deposit_notes
          /\ RecordBorrow(reserve[s], t, n, fees).total_deposit_notes
                = reserve[s].total_deposit_notes
      BY <2>1 DEF RecordDeposit, RecordRepay, RecordWithdraw, RecordBorrow, ReserveState
    <2>4. vault[s] \in Nat /\ deposit_note_mint[s] \in Nat BY <1>1
    <2>5. CASE /\ reserve' = [reserve EXCEPT ![s] = RecordDeposit(@, t, n)]
               /\ vault' = [vault EXCEPT ![s] = @ + t]
               /\ deposit_note_mint' = [deposit_note_mint EXCEPT ![s] = @ + n]
      <3>1. /\ reserve'[s] = RecordDeposit(reserve[s], t, n)
            /\ vault'[s] = vault[s] + t /\ deposit_note_mint'[s] = deposit_note_mint[s] + n
            /\ \A x \in Reserves \ {s} :
                  /\ reserve'[x] = reserve[x] /\ vault'[x] = vault[x]
                  /\ deposit_note_mint'[x] = deposit_note_mint[x]
        BY <1>1, <2>5
      <3>2. CASE s # r BY <1>2, <3>1, <3>2
      <3>3. CASE s = r BY <2>1, <2>2, <2>4, <3>1, <3>3 DEF Booked, Paid, Minted
      <3> QED BY <3>2, <3>3
    <2>6. CASE /\ reserve' = [reserve EXCEPT ![s] = RecordWithdraw(@, t, n)]
               /\ vault' = [vault EXCEPT ![s] = @ - t] \/ UNCHANGED vault
               /\ deposit_note_mint' = [deposit_note_mint EXCEPT ![s] = @ - n]
      <3>1. /\ reserve'[s] = RecordWithdraw(reserve[s], t, n)
            /\ vault'[s] \in {vault[s], vault[s] - t} /\ deposit_note_mint'[s] = deposit_note_mint[s] - n
            /\ \A x \in Reserves \ {s} :
                  /\ reserve'[x] = reserve[x] /\ vault'[x] = vault[x]
                  /\ deposit_note_mint'[x] = deposit_note_mint[x]
        BY <1>1, <2>6
      <3>2. CASE s # r BY <1>2, <3>1, <3>2
      <3>3. CASE s = r BY <2>1, <2>2, <2>4, <3>1, <3>3 DEF Booked, Paid, Minted
      <3> QED BY <3>2, <3>3
    <2>7. CASE /\ reserve' = [reserve EXCEPT ![s] = RecordBorrow(@, t, n, fees)]
               /\ vault' = [vault EXCEPT ![s] = @ - t]
               /\ UNCHANGED deposit_note_mint
      <3>1. /\ reserve'[s] = RecordBorrow(reserve[s], t, n, fees)
            /\ vault'[s] = vault[s] - t /\ deposit_note_mint'[s] = deposit_note_mint[s]
            /\ \A x \in Reserves \ {s} :
                  /\ reserve'[x] = reserve[x] /\ vault'[x] = vault[x]
                  /\ deposit_note_mint'[x] = deposit_note_mint[x]
        BY <1>1, <2>7
      <3>2. CASE s # r BY <1>2, <3>1, <3>2
      <3>3. CASE s = r BY <2>1, <2>2, <2>4, <3>1, <3>3 DEF Booked, Paid, Minted
      <3> QED BY <3>2, <3>3
    <2>8. CASE /\ reserve' = [reserve EXCEPT ![s] = RecordRepay(@, t, n)]
               /\ vault' = [vault EXCEPT ![s] = @ + t]
               /\ UNCHANGED deposit_note_mint
      <3>1. /\ reserve'[s] = RecordRepay(reserve[s], t, n)
            /\ vault'[s] = vault[s] + t /\ deposit_note_mint'[s] = deposit_note_mint[s]
            /\ \A x \in Reserves \ {s} :
                  /\ reserve'[x] = reserve[x] /\ vault'[x] = vault[x]
                  /\ deposit_note_mint'[x] = deposit_note_mint[x]
        BY <1>1, <2>8
      <3>2. CASE s # r BY <1>2, <3>1, <3>2
      <3>3. CASE s = r BY <2>1, <2>2, <2>4, <3>1, <3>3 DEF Booked, Paid, Minted
      <3> QED BY <3>2, <3>3
    <2> QED BY <1>5, <2>5, <2>6, <2>7, <2>8 DEF Recorded
  <1> QED BY <1>3, <1>4, <1>5, StepReserves DEF RefreshStep

(* What a DEX liquidation does to the reserve of the loan, n tokens being  *)
(* repaid by the plan.                                                     *)
LEMMA DexReserve ==
  ASSUME TypeOK, NEW u \in Users, NEW r \in Reserves, NEW c \in Reserves, r # c,
         NEW sold \in Nat, NEW proceeds \in Nat, Liquidated(u, r, c, sold, proceeds),
         NEW n \in Nat, n = AsU64(LoanRepaidTokens(u, r, c))
  PROVE  /\ \A s \in Reserves \ {r} : reserve'[s] = reserve[s]
         /\ \A s \in Reserves \ {r, c} : vault'[s] = vault[s]
         /\ vault[r] \in Nat /\ vault'[r] = vault[r] + proceeds
         /\ vault[c] \in Nat /\ vault'[c] = vault[c] - sold
         /\ reserve[r].total_deposits \in Nat
         /\ reserve'[r].total_deposits
                = reserve[r].total_deposits + n + SaturatingSub(proceeds, n)
         /\ reserve[r].uncollected_fees \in Nat
         /\ reserve'[r].uncollected_fees
                = reserve[r].uncollected_fees + FromU64(SaturatingSub(proceeds, n))
         /\ reserve[r].outstanding_debt \in Nat
         /\ FromU64(n) <= reserve[r].outstanding_debt
         /\ \/ reserve'[r].outstanding_debt = reserve[r].outstanding_debt - FromU64(n)
            \/ /\ reserve'[r].outstanding_debt = 0
               /\ reserve[r].outstanding_debt - FromU64(n) < ONE
  <1> DEFINE notes == AsU64(LoanRepaidNotes(u, r, c))
             paid == RecordRepay(reserve[r], n, notes)
             extra == SaturatingSub(proceeds, n)
             after == AddUncollectedFees(paid, extra)
  <1>1. /\ reserve \in [Reserves -> ReserveState] /\ vault \in [Reserves -> Nat]
        /\ reserve[r] \in ReserveState /\ vault[r] \in Nat /\ vault[c] \in Nat
        /\ reserve[r].total_deposits \in Nat /\ reserve[r].uncollected_fees \in Nat
        /\ reserve[r].outstanding_debt \in Nat
    BY DEF TypeOK, ReserveState
  <1>2. /\ reserve' = [reserve EXCEPT ![r] = after]
        /\ vault' = [vault EXCEPT ![c] = @ - sold, ![r] = @ + proceeds]
        /\ CanRepay(reserve[r], slot, n, notes)
    BY DEF Liquidated
  <1>3. extra \in Nat BY DEF SaturatingSub
  <1> HIDE DEF notes, extra
  <1>4. /\ paid.total_deposits = reserve[r].total_deposits + n
        /\ paid.uncollected_fees = reserve[r].uncollected_fees
        /\ \/ paid.outstanding_debt = reserve[r].outstanding_debt - FromU64(n)
           \/ /\ paid.outstanding_debt = 0
              /\ reserve[r].outstanding_debt - FromU64(n) < ONE
        /\ after.total_deposits = paid.total_deposits + extra
        /\ after.uncollected_fees = paid.uncollected_fees + FromU64(extra)
        /\ after.outstanding_debt = paid.outstanding_debt
    BY <1>1 DEF RecordRepay, AddUncollectedFees, ReserveState
  <1> HIDE DEF paid, after
  <1>5. /\ reserve'[r] = after
        /\ \A s \in Reserves \ {r} : reserve'[s] = reserve[s]
    BY <1>1, <1>2
  <1>6. /\ vault'[r] = vault[r] + proceeds /\ vault'[c] = vault[c] - sold
        /\ \A s \in Reserves \ {r, c} : vault'[s] = vault[s]
    BY <1>1, <1>2
  <1>7. FromU64(n) <= reserve[r].outstanding_debt BY <1>2 DEF CanRepay
  <1> QED BY <1>1, <1>4, <1>5, <1>6, <1>7 DEF extra

(* It books what it planned, or all that came in: the difference is worth  *)
(* no more than verify_proceeds and the premium leave open.                *)
LEMMA DexBooked ==
  ASSUME TypeOK, NEW u \in Users, NEW s \in Reserves, NEW c \in Reserves,
         LiquidateDex(u, s, c), NEW r \in Reserves, Booked(r) > 0
  PROVE  \/ Booked(r) <= Paid(r)
         \/ \E q \in Reserves \ {r} :
               (Booked(r) - Paid(r)) * reserve_info[r].price
                   <= AsU64(reserve_info[q].price) + 2
  <1> DEFINE n == AsU64(LoanRepaidTokens(u, s, c))
             pr == reserve_info[s].price
             h == AsU64(reserve_info[c].price)
  <1>1. s # c BY DexStepIs
  <1>2. PICK sold, proceeds \in Nat : Liquidated(u, s, c, sold, proceeds)
    BY DexStepIs
  <1>3. PlanTyped(u, s, c) BY PlanNat
  <1>4. /\ n \in Nat /\ pr \in Nat /\ h \in Nat
        /\ n * pr <= proceeds * pr + h + 2
    BY <1>2, <1>3, PlanWorth DEF Liquidated, PlanTyped
  <1> HIDE DEF h, pr
  <1>5. /\ \A q \in Reserves \ {s} : reserve'[q] = reserve[q]
        /\ vault[s] \in Nat /\ vault'[s] = vault[s] + proceeds
        /\ reserve[s].total_deposits \in Nat
        /\ reserve'[s].total_deposits
               = reserve[s].total_deposits + n + SaturatingSub(proceeds, n)
    BY <1>1, <1>2, <1>4, DexReserve
  <1> HIDE DEF n
  <1>6. r = s
    <2>1. reserve[r].total_deposits \in Nat BY DEF TypeOK, ReserveState
    <2> QED BY <1>5, <2>1 DEF Booked
  <1>7. Paid(r) = proceeds /\ Booked(r) = n + SaturatingSub(proceeds, n)
    BY <1>4, <1>5, <1>6 DEF Paid, Booked, SaturatingSub
  <1>8. CASE n <= proceeds BY <1>4, <1>7, <1>8 DEF SaturatingSub
  <1>9. CASE ~(n <= proceeds)
    <2>1. Booked(r) - Paid(r) = n - proceeds
      BY <1>4, <1>7, <1>9 DEF SaturatingSub
    <2>2. (n - proceeds) * pr = n * pr - proceeds * pr BY <1>4
    <2>3. n * pr \in Nat /\ proceeds * pr \in Nat BY <1>4, Product
    <2>4. (n - proceeds) * pr <= h + 2 BY <1>4, <2>2, <2>3
    <2>5. c \in Reserves \ {r} BY <1>1, <1>6
    <2> QED BY <1>6, <2>1, <2>4, <2>5 DEF pr, h
  <1> QED BY <1>8, <1>9

(* Tokens a reserve books as paid in are in its vault, or what is missing  *)
(* is worth a few units: also when an order was filled in part, at the     *)
(* worst price verify_proceeds accepts.                                    *)
THEOREM BookedIsPaid == DexSpec => BookedTokensArePaid
  <1> DEFINE Covered ==
        \A r \in Reserves :
            Booked(r) > 0 =>
                \/ Booked(r) <= Paid(r)
                \/ \E c \in Reserves \ {r} :
                      (Booked(r) - Paid(r)) * reserve_info[r].price
                          <= AsU64(reserve_info[c].price) + 2
  <1>1. DexInv /\ [DexNext]_dex_vars => [Covered]_dex_vars
    <2> SUFFICES ASSUME DexInv, [DexNext]_dex_vars PROVE Covered
      OBVIOUS
    <2>1. TypeOK BY DEF DexInv
    <2>2. CASE [Next]_vars BY <2>1, <2>2, LendingMoves
    <2>3. CASE \E u \in Users, s, c \in Reserves : LiquidateDex(u, s, c)
      BY <2>1, <2>3, DexBooked
    <2> QED BY <2>2, <2>3, DexSteps
  <1> QED BY <1>1, DexInvariant, PTL DEF DexSpec, BookedTokensArePaid

-----------------------------------------------------------------------------
(* What holds of the handlers of Lending alone holds beside the DEX too.   *)

(* A DEX liquidation changes debt, deposits and fees of the reserve of the *)
(* loan, and neither the time charged for nor the deposit notes.           *)
LEMMA DexKeepsTime ==
  ASSUME TypeOK, NEW u \in Users, NEW r \in Reserves, NEW c \in Reserves,
         LiquidateDex(u, r, c), NEW s \in Reserves
  PROVE  /\ reserve'[s].accrued_until = reserve[s].accrued_until
         /\ reserve'[s].total_deposit_notes = reserve[s].total_deposit_notes
  <1>1. PICK sold, proceeds \in Nat : Liquidated(u, r, c, sold, proceeds)
    BY DexStepIs
  <1> DEFINE n == AsU64(LoanRepaidTokens(u, r, c))
             notes == AsU64(LoanRepaidNotes(u, r, c))
             extra == SaturatingSub(proceeds, n)
  <1>2. reserve' = [reserve EXCEPT ![r] =
                        AddUncollectedFees(RecordRepay(@, n, notes), extra)]
    BY <1>1 DEF Liquidated
  <1>3. reserve \in [Reserves -> ReserveState] BY DEF TypeOK
  <1> HIDE DEF n, notes, extra
  <1>4. \A x \in ReserveState :
            /\ AddUncollectedFees(RecordRepay(x, n, notes), extra).accrued_until
                  = x.accrued_until
            /\ AddUncollectedFees(RecordRepay(x, n, notes), extra).total_deposit_notes
                  = x.total_deposit_notes
    BY DEF AddUncollectedFees, RecordRepay, ReserveState
  <1> QED BY <1>2, <1>3, <1>4

(* It adds to no debt.                                                     *)
LEMMA DexChargesNothing ==
  ASSUME TypeOK, NEW u \in Users, NEW r \in Reserves, NEW c \in Reserves,
         LiquidateDex(u, r, c), NEW s \in Reserves
  PROVE  ~DebtGrows(s)
  <1> DEFINE n == AsU64(LoanRepaidTokens(u, r, c))
  <1>1. r # c BY DexStepIs
  <1>2. PICK sold, proceeds \in Nat : Liquidated(u, r, c, sold, proceeds)
    BY DexStepIs
  <1>3. PlanTyped(u, r, c) BY PlanNat
  <1>4. n \in Nat BY <1>2, <1>3, PlanWorth DEF Liquidated, PlanTyped
  <1>5. FromU64(n) \in Nat BY <1>4, ConversionNat
  <1>6. /\ \A q \in Reserves \ {r} : reserve'[q] = reserve[q]
        /\ reserve[r].outstanding_debt \in Nat
        /\ \/ reserve'[r].outstanding_debt = reserve[r].outstanding_debt - FromU64(n)
           \/ reserve'[r].outstanding_debt = 0
    BY <1>1, <1>2, <1>4, DexReserve
  <1> HIDE DEF n
  <1>7. reserve[s].outstanding_debt \in Nat BY DEF TypeOK, ReserveState
  <1> QED BY <1>5, <1>6, <1>7 DEF DebtGrows

(* Interest is charged once, whatever is liquidated on the DEX meanwhile:  *)
(* debt that nobody was paid for is interest for time not charged before.  *)
THEOREM DexInterestIsChargedOnce == DexSpec => InterestChargedOnce
  <1>1. DexInv /\ [DexNext]_dex_vars =>
            [\A r \in Reserves :
                DebtGrows(r) /\ wallet'[r] = wallet[r] =>
                    /\ reserve[r].accrued_until < reserve'[r].accrued_until
                    /\ reserve'[r].accrued_until <= unix_timestamp
                    /\ reserve'[r].accrued_until - reserve[r].accrued_until
                           <= MaxAccrual]_vars
    <2> SUFFICES ASSUME DexInv, [DexNext]_dex_vars, NEW r \in Reserves,
                        DebtGrows(r), wallet'[r] = wallet[r]
                 PROVE  ChargedOnce(r)
      BY DEF ChargedOnce
    <2>1. TypeOK BY DEF DexInv
    <2> QED BY <2>1, DexSteps, NextCharges, DexChargesNothing
  <1> QED BY <1>1, DexInvariant, PTL DEF DexSpec, InterestChargedOnce

(* Rates are of their slot beside the DEX too.                             *)
LEMMA DexRates == DexInv /\ RatesOfTheSlot /\ [DexNext]_dex_vars => RatesOfTheSlot'
  <1> SUFFICES ASSUME DexInv, RatesOfTheSlot, [DexNext]_dex_vars PROVE RatesOfTheSlot'
    OBVIOUS
  <1>1. TypeOK BY DEF DexInv
  <1>2. CASE [Next]_vars BY <1>1, <1>2, StepRates
  <1>3. ASSUME NEW u \in Users, NEW r \in Reserves, NEW c \in Reserves,
               LiquidateDex(u, r, c)
        PROVE  RatesOfTheSlot'
    <2>1. UNCHANGED <<slot, unix_timestamp, reserve_info>>
      BY <1>1, <1>3, DexStepIs DEF clock
    <2>2. \A s \in Reserves : reserve'[s].accrued_until = reserve[s].accrued_until
      BY <1>1, <1>3, DexKeepsTime
    <2> QED BY <2>1, <2>2 DEF RatesOfTheSlot, TimeBehind
  <1> QED BY <1>2, <1>3, DexSteps

(* The DEX is for obligations that are not healthy, and takes the          *)
(* collateral of one only.                                                 *)
LEMMA DexKeepsHealth ==
  ASSUME TypeOK, NEW u \in Users, NEW v \in Users, NEW r \in Reserves, NEW c \in Reserves,
         LiquidateDex(v, r, c)
  PROVE  KeepsHealth(u)
  <1>1. CASE u = v BY <1>1 DEF LiquidateDex, KeepsHealth
  <1>2. CASE u # v
    <2>1. PICK sold, proceeds \in Nat : Liquidated(v, r, c, sold, proceeds)
      BY DexStepIs
    <2>2. obligation'[u] = obligation[u] BY <1>2, <2>1 DEF Liquidated, TypeOK
    <2> QED BY <2>2, SameKeeps
  <1> QED BY <1>1, <1>2

(* Positions within what accounts hold are nothing in empty accounts. *)
LEMMA DexRecordsOfNothing ==
  ASSUME DexInv PROVE TypeOK /\ NothingFromNothing
  <1>1. TypeOK /\ PositionsWithinAccounts BY DEF DexInv
  <1>2. ASSUME NEW u \in Users, NEW r \in Reserves
        PROVE  /\ collateral_account[r][u] = 0 => obligation[u].collateral[r] = 0
               /\ loan_account[r][u] = 0 => obligation[u].loans[r] = 0
    <2>1. obligation[u].collateral[r] \in Nat /\ obligation[u].loans[r] \in Nat
      BY <1>1 DEF TypeOK, ObligationState
    <2>2. NoteAmount(0) = 0 BY NoteAmountLinear
    <2> QED BY <1>1, <2>1, <2>2 DEF PositionsWithinAccounts
  <1> QED BY <1>1, <1>2 DEF NothingFromNothing

(* A healthy obligation stays healthy in a market with a DEX: though its   *)
(* liquidations leave whole notes in accounts whose records lost exact     *)
(* Numbers, an account that is empty counts for nothing.                   *)
THEOREM DexHealthIsKept == DexSpec => StaysHealthy
  <1>0. DexInv => TypeOK /\ NothingFromNothing BY DexRecordsOfNothing
  <1>1. DexInv /\ DexInv' /\ [DexNext]_dex_vars =>
            [\A u \in Users :
                /\ Usable(u) /\ IsHealthy(obligation[u], reserve_info)
                /\ UNCHANGED <<slot, reserve_info>>
                /\ obligation'[u].loan_accounts \subseteq obligation[u].loan_accounts
                /\ Usable(u)'
                => IsHealthy(obligation'[u], reserve_info')]_vars
    <2> SUFFICES ASSUME DexInv, DexInv', [DexNext]_dex_vars, NEW u \in Users
                 PROVE  KeepsHealth(u)
      BY DEF KeepsHealth
    <2>1. TypeOK /\ NothingFromNothing /\ TypeOK' BY <1>0 DEF DexInv
    <2> QED BY <2>1, DexSteps, NextKeeps, DexKeepsHealth
  <1> QED BY <1>1, DexInvariant, PTL DEF DexSpec, StaysHealthy

-----------------------------------------------------------------------------
(* Positions, with a DEX.                                                  *)

(* An obligation is closed without positions, and gets none while closed:  *)
(* every instruction but its creation asks for the account.                *)
LEMMA StepClosed ==
  ASSUME TypeOK, ClosedHoldNothing, [Next]_vars
  PROVE  ClosedHoldNothing'
  <1>1. CASE UNCHANGED <<obligations, obligation>>
    BY <1>1 DEF ClosedHoldNothing
  <1>2. ASSUME NEW v \in Users, Elsewhere(v), v \in obligations',
               obligations \subseteq obligations'
        PROVE  ClosedHoldNothing'
    BY <1>2 DEF ClosedHoldNothing, Elsewhere
  <1>3. CASE Tick \/ OwnerStep \/ RefreshStep \/ UNCHANGED vars
    BY <1>1, <1>3 DEF Tick, OwnerStep, SetMarketFlags, UpdateReserveConfig, RefreshStep,
                      RefreshReserve, vars, accounts
  <1>4. CASE AccountStep
    <2>1. ASSUME NEW v \in Users, NEW r \in Reserves,
                 InitDepositAccount(v, r) \/ CloseDepositAccount(v, r)
          PROVE  ClosedHoldNothing'
      BY <1>1, <2>1 DEF InitDepositAccount, CloseDepositAccount
    <2>2. ASSUME NEW v \in Users, CloseObligation(v) PROVE ClosedHoldNothing'
      <3>1. obligation' = obligation /\ obligations' = obligations \ {v}
            /\ PositionCount(obligation[v]) = 0
        BY <2>2 DEF CloseObligation
      <3>2. obligation[v].loan_accounts = {} /\ obligation[v].collateral_accounts = {}
        BY <3>1, NoPositions DEF TypeOK
      <3> QED BY <3>1, <3>2 DEF ClosedHoldNothing
    <2>3. ASSUME NEW v \in Users, InitObligation(v) PROVE ClosedHoldNothing'
      <3>1. v \in obligations' /\ obligations \subseteq obligations' /\ Elsewhere(v)
        BY <2>3 DEF InitObligation, Elsewhere, TypeOK
      <3> QED BY <1>2, <3>1
    <2>4. ASSUME NEW v \in Users, NEW r \in Reserves,
                 \/ InitCollateralAccount(v, r) \/ CloseCollateralAccount(v, r)
                 \/ InitLoanAccount(v, r) \/ CloseLoanAccount(v, r)
          PROVE  ClosedHoldNothing'
      <3>1. v \in obligations' /\ obligations \subseteq obligations' /\ Elsewhere(v)
        BY <2>4 DEF InitCollateralAccount, CloseCollateralAccount, InitLoanAccount,
                    CloseLoanAccount, accounts, Elsewhere, TypeOK
      <3> QED BY <1>2, <3>1
    <2> QED BY <1>4, <2>1, <2>2, <2>3, <2>4 DEF AccountStep
  <1>5. CASE UserStep
    <2>1. ASSUME NEW v \in Users, NEW r \in Reserves, NEW a \in Amounts,
                 Withdraw(v, r, a) \/ \E to \in Users : DepositTokens(v, r, a, to)
          PROVE  ClosedHoldNothing'
      BY <1>1, <2>1 DEF Withdraw, WithdrawTokens, DepositTokens, accounts
    <2>2. ASSUME NEW v \in Users, NEW r \in Reserves, NEW a \in Amounts,
                 \/ DepositCollateral(v, r, a) \/ WithdrawCollateral(v, r, a)
                 \/ Borrow(v, r, a)
          PROVE  ClosedHoldNothing'
      <3>1. v \in obligations' /\ obligations \subseteq obligations' /\ Elsewhere(v)
        BY <2>2 DEF DepositCollateral, WithdrawCollateral, Borrow, accounts, Elsewhere,
                    TypeOK
      <3> QED BY <1>2, <3>1
    <2>3. ASSUME NEW payer \in Users, NEW v \in Users, NEW r \in Reserves,
                 NEW a \in Amounts,
                 \/ Repay(payer, v, r, a)
                 \/ \E c \in Reserves, m \in MinCollaterals :
                        Liquidate(payer, v, r, c, a, m)
          PROVE  ClosedHoldNothing'
      <3>1. obligations' = obligations BY <2>3, Zenon DEF Repay, Liquidate, accounts
      <3>2. \E before : PayOff(payer, v, r, a, before) BY <2>3, Zenon DEF Repay, Liquidate
      <3>3. v \in obligations /\ Elsewhere(v) BY <3>2 DEF PayOff, Elsewhere, TypeOK
      <3> QED BY <1>2, <3>1, <3>3
    <2> QED BY <1>5, <2>1, <2>2, <2>3 DEF UserStep
  <1> QED BY <1>3, <1>4, <1>5 DEF Next

(* A liquidation on the DEX is one on the record, of amounts that are not  *)
(* of whole notes.                                                         *)
LEMMA DexIsPosition ==
  ASSUME TypeOK, Nat \subseteq NoteAmounts, NEW u \in Users, NEW r \in Reserves,
         NEW c \in Reserves, LiquidateDex(u, r, c)
  PROVE  Elsewhere(u) /\ obligations' = obligations /\ u \in obligations /\ P(u)!Next
  <1> DEFINE x == LoanRepaidNotes(u, r, c)
             y == CollateralNotesSold(u, r, c)
  <1>1. x \in NoteAmounts /\ y \in NoteAmounts
    <2>1. PlanTyped(u, r, c) BY PlanNat
    <2> QED BY <2>1 DEF PlanTyped
  <1>2. /\ u \in obligations /\ obligations' = obligations
        /\ r \in obligation[u].loan_accounts /\ c \in obligation[u].collateral_accounts
        /\ obligation' = [obligation EXCEPT ![u] =
               SubtractLoan(SubtractCollateral(@, c, y), r, x)]
    BY DEF LiquidateDex, accounts
  <1> HIDE DEF x, y
  <1>3. /\ obligation'[u] = SubtractLoan(SubtractCollateral(obligation[u], c, y), r, x)
        /\ Elsewhere(u)
    BY <1>2 DEF TypeOK, Elsewhere
  <1> QED BY <1>1, <1>2, <1>3, LiquidationIsPosition

(* Also with a DEX the record of an obligation only ever changes as the    *)
(* slots can: in particular an account is never closed whose position the  *)
(* exact Numbers of a liquidation left above zero.                         *)
THEOREM DexImplementsPositions ==
  ASSUME Nat \subseteq NoteAmounts PROVE DexSpec => ObligationsArePositions
  <1>1. EveryAmount
    <2>1. \A n \in Nat : NoteAmount(n) \in Nat BY NoteAmountLinear
    <2> QED BY <2>1 DEF EveryAmount
  <1>2. DexInit => ClosedHoldNothing /\ \A u \in Users : P(u)!Init
    <2>1. Init => ClosedHoldNothing
      BY InitPositions, RecordsOfNothing
    <2> QED BY <2>1, InitIsPositions DEF DexInit
  <1>3. DexInv /\ ClosedHoldNothing /\ [DexNext]_dex_vars => ClosedHoldNothing'
    <2> SUFFICES ASSUME DexInv, ClosedHoldNothing, [DexNext]_dex_vars
                 PROVE  ClosedHoldNothing'
      OBVIOUS
    <2>1. TypeOK BY DEF DexInv
    <2>2. ASSUME NEW u \in Users, NEW r \in Reserves, NEW c \in Reserves,
                 LiquidateDex(u, r, c)
          PROVE  ClosedHoldNothing'
      BY <2>1, <2>2, DexIsPosition DEF ClosedHoldNothing, Elsewhere
    <2> QED BY <2>1, <2>2, DexSteps, StepClosed
  <1>4. DexInv /\ ClosedHoldNothing /\ [DexNext]_dex_vars
            => [\A u \in Users : P(u)!Next \/ UNCHANGED obligation[u]]_vars
    <2> SUFFICES ASSUME DexInv, ClosedHoldNothing, [DexNext]_dex_vars, NEW u \in Users
                 PROVE  P(u)!Next \/ UNCHANGED obligation[u]
      OBVIOUS
    <2>1. TypeOK /\ NothingFromNothing BY DexRecordsOfNothing
    <2>2. ASSUME NEW v \in Users, NEW r \in Reserves, NEW c \in Reserves,
                 LiquidateDex(v, r, c)
          PROVE  P(u)!Next \/ UNCHANGED obligation[u]
      BY <2>1, <2>2, DexIsPosition DEF Elsewhere
    <2> QED BY <1>1, <2>1, <2>2, DexSteps, StepsArePositions
  <1> QED BY <1>2, <1>3, <1>4, DexInvariant, PTL DEF DexSpec, ObligationsArePositions

-----------------------------------------------------------------------------
(* The step is a DEX liquidation.                                          *)

(* Debt that is paid off without a change of a collateral record is not.   *)
LEMMA PayOffIsNot ==
  ASSUME TypeOK, NEW payer \in Users, NEW v \in Users, NEW s \in Reserves,
         NEW a \in Amounts, NEW before \in ObligationState,
         before.collateral = obligation[v].collateral,
         PayOff(payer, v, s, a, before),
         NEW u \in Users, NEW r \in Reserves, NEW c \in Reserves,
         IsDexLiquidationOf(u, r, c)
  PROVE  FALSE
  <1> DEFINE n == PayoffNotes(v, s, a)
             o == SubtractLoan(before, s, NoteAmount(n))
  <1>1. /\ loan_account \in [Reserves -> [Users -> Nat]]
        /\ obligation[u] \in ObligationState /\ obligation[u].collateral[c] \in Nat
    BY DEF TypeOK, ObligationState
  <1>2. /\ loan_account' = [loan_account EXCEPT ![s][v] = @ - n]
        /\ obligation' = [obligation EXCEPT ![v] = o]
    BY DEF PayOff
  <1>3. o.collateral = obligation[v].collateral BY DEF SubtractLoan, ObligationState
  <1> HIDE DEF n, o
  <1>4. loan_account'[r][u] # loan_account[r][u]
    BY <1>1 DEF IsDexLiquidationOf
  <1>5. u = v BY <1>1, <1>2, <1>4
  <1>6. obligation'[u] = o BY <1>2, <1>5 DEF TypeOK
  <1> QED BY <1>1, <1>3, <1>5, <1>6 DEF IsDexLiquidationOf

(* No step of Lending is one: loan notes are burned when tokens are paid   *)
(* from a wallet, and collateral taken goes into a deposit account.        *)
LEMMA LendingIsNot ==
  ASSUME TypeOK, [Next]_vars, NEW u \in Users, NEW r \in Reserves, NEW c \in Reserves,
         IsDexLiquidationOf(u, r, c)
  PROVE  FALSE
  <1>1. /\ loan_account \in [Reserves -> [Users -> Nat]]
        /\ \A s \in Reserves, v \in Users : obligation[v] \in ObligationState
        /\ reserve_info \in Infos
    BY DEF TypeOK, Infos
  <1>2. loan_account'[r][u] < loan_account[r][u] /\ loan_account[r][u] \in Nat
    BY <1>1 DEF IsDexLiquidationOf
  <1>3. loan_account' # loan_account BY <1>2
  <1>4. CASE AccountStep
    <2>1. ASSUME NEW v \in Users, InitObligation(v) \/ CloseObligation(v)
          PROVE  UNCHANGED loan_account
      BY <2>1 DEF InitObligation, CloseObligation, loan_notes
    <2>2. ASSUME NEW v \in Users, NEW s \in Reserves,
                 \/ InitDepositAccount(v, s) \/ CloseDepositAccount(v, s)
                 \/ InitCollateralAccount(v, s) \/ CloseCollateralAccount(v, s)
          PROVE  UNCHANGED loan_account
      BY <2>2 DEF InitDepositAccount, CloseDepositAccount, BurnDepositNotes,
                  InitCollateralAccount, CloseCollateralAccount, loan_notes
    <2>3. ASSUME NEW v \in Users, NEW s \in Reserves,
                 InitLoanAccount(v, s) \/ CloseLoanAccount(v, s)
          PROVE  UNCHANGED loan_account
      BY <2>3 DEF InitLoanAccount, CloseLoanAccount, loan_notes
    <2> QED BY <1>3, <1>4, <2>1, <2>2, <2>3 DEF AccountStep
  <1>5. ASSUME NEW v \in Users, NEW s \in Reserves, NEW a \in Amounts, Borrow(v, s, a)
        PROVE  FALSE
    <2> DEFINE t    == AsTokens(a, reserve_info[s], "Down")
               fees == BorrowFee(config[s].loan_origination_fee, t)
               n    == NotesFromTokens(t + fees, reserve_info[s].loan_note_exchange_rate, "Up")
    <2>1. /\ reserve_info[s].loan_note_exchange_rate > 0
          /\ loan_account' = [loan_account EXCEPT ![s][v] = @ + n]
      BY <1>5 DEF Borrow
    <2>2. n \in Nat
      <3>1. config[s].loan_origination_fee \in Nat BY DEF TypeOK, Config
      <3> QED BY <2>1, <3>1, NewNotesNat
    <2> HIDE DEF n
    <2> QED BY <1>1, <1>2, <2>1, <2>2
  <1>6. ASSUME NEW payer \in Users, NEW v \in Users, NEW s \in Reserves, NEW a \in Amounts,
               Repay(payer, v, s, a)
        PROVE  FALSE
    <2>1. PayOff(payer, v, s, a, obligation[v]) BY <1>6 DEF Repay
    <2> QED BY <1>1, <2>1, PayOffIsNot, Zenon
  <1>7. ASSUME NEW payer \in Users, NEW v \in Users, NEW s \in Reserves, NEW q \in Reserves,
               NEW a \in Amounts, NEW m \in MinCollaterals, Liquidate(payer, v, s, q, a, m)
        PROVE  FALSE
    <2> DEFINE taken == CollateralTaken(v, s, q, a)
               before == SubtractCollateral(obligation[v], q, NoteAmount(taken))
    <2>1. /\ taken \in m .. collateral_account[q][v]
          /\ deposit_account' = [deposit_account EXCEPT ![q][payer] = @ + taken]
          /\ PayOff(payer, v, s, a, before)
      BY <1>7 DEF Liquidate
    <2> HIDE DEF taken
    <2>2. taken \in Nat
      <3>1. m \in Nat /\ collateral_account[q][v] \in Nat BY InputsAssumption DEF TypeOK
      <3> QED BY <2>1, <3>1
    <2>3. deposit_account' = deposit_account BY DEF IsDexLiquidationOf
    <2>4. deposit_account \in [Reserves -> [Users -> Nat]] BY DEF TypeOK
    <2>5. deposit_account'[q][payer] = deposit_account[q][payer] + taken
      BY <2>1, <2>4
    <2>6. taken = 0 BY <2>2, <2>3, <2>4, <2>5
    <2>7. NoteAmount(taken) = 0 BY <2>6, ONEAssumption DEF NoteAmount, FromU64
    <2>8. before \in ObligationState /\ before.collateral = obligation[v].collateral
      <3>1. before = [obligation[v] EXCEPT !.collateral[q] = SaturatingSub(@, 0)]
        BY <2>7 DEF SubtractCollateral
      <3>2. obligation[v] \in ObligationState /\ obligation[v].collateral[q] \in Nat
        BY <1>1 DEF ObligationState
      <3>3. SaturatingSub(obligation[v].collateral[q], 0) = obligation[v].collateral[q]
        BY <3>2 DEF SaturatingSub
      <3>4. before = [obligation[v] EXCEPT !.collateral[q] = obligation[v].collateral[q]]
        BY <3>1, <3>3
      <3> HIDE DEF before
      <3> QED BY <3>2, <3>4 DEF ObligationState
    <2> HIDE DEF before
    <2> QED BY <2>1, <2>8, PayOffIsNot
  <1>8. CASE UserStep
    <2>1. PICK v \in Users, s \in Reserves, a \in Amounts :
            \/ Withdraw(v, s, a) \/ \E to \in Users : DepositTokens(v, s, a, to)
            \/ DepositCollateral(v, s, a) \/ WithdrawCollateral(v, s, a)
            \/ Borrow(v, s, a)
            \/ \E w \in Users : Repay(v, w, s, a)
            \/ \E w \in Users, q \in Reserves, m \in MinCollaterals :
                   Liquidate(v, w, s, q, a, m)
      BY <1>8 DEF UserStep
    <2>2. CASE \/ Withdraw(v, s, a) \/ \E to \in Users : DepositTokens(v, s, a, to)
               \/ DepositCollateral(v, s, a) \/ WithdrawCollateral(v, s, a)
      <3>1. UNCHANGED loan_account
        BY <2>2 DEF Withdraw, WithdrawTokens, BurnDepositNotes, DepositTokens,
                    DepositCollateral, WithdrawCollateral, loan_notes
      <3> QED BY <1>3, <3>1
    <2> QED BY <1>5, <1>6, <1>7, <2>1, <2>2
  <1>9. CASE Tick \/ OwnerStep \/ RefreshStep \/ UNCHANGED vars
    BY <1>3, <1>9 DEF Tick, OwnerStep, SetMarketFlags, UpdateReserveConfig, RefreshStep,
           RefreshReserve, vars, loan_notes
  <1> QED BY <1>4, <1>8, <1>9 DEF Next

(* The notes burned and the record it lowers tell a DEX liquidation.       *)
LEMMA DexIsOf ==
  ASSUME TypeOK, NEW v \in Users, NEW s \in Reserves, NEW q \in Reserves,
         LiquidateDex(v, s, q), NEW u \in Users, NEW r \in Reserves, NEW c \in Reserves,
         IsDexLiquidationOf(u, r, c)
  PROVE  u = v /\ r = s /\ c = q
  <1> DEFINE n == AsU64(LoanRepaidNotes(v, s, q))
             x == LoanRepaidNotes(v, s, q)
             y == CollateralNotesSold(v, s, q)
             before == SubtractCollateral(obligation[v], q, y)
             after == SubtractLoan(before, s, x)
  <1>1. PICK sold, proceeds \in Nat : Liquidated(v, s, q, sold, proceeds)
    BY DexStepIs
  <1>2. /\ loan_account' = [loan_account EXCEPT ![s][v] = @ - n]
        /\ obligation' = [obligation EXCEPT ![v] = after]
    BY <1>1 DEF Liquidated
  <1>3. /\ loan_account \in [Reserves -> [Users -> Nat]]
        /\ obligation[v] \in ObligationState
        /\ \A p \in Reserves : obligation[v].collateral[p] \in Nat
    BY DEF TypeOK, ObligationState
  <1> HIDE DEF n, x, y
  <1>4. \A p \in Reserves \ {q} : after.collateral[p] = obligation[v].collateral[p]
    BY <1>3 DEF SubtractCollateral, SubtractLoan, ObligationState
  <1> HIDE DEF after
  <1>5. loan_account'[r][u] # loan_account[r][u] BY <1>3 DEF IsDexLiquidationOf
  <1>6. u = v /\ r = s BY <1>2, <1>3, <1>5
  <1>7. obligation'[u] = after BY <1>2, <1>6 DEF TypeOK
  <1>8. after.collateral[c] # obligation[v].collateral[c]
    BY <1>3, <1>6, <1>7 DEF IsDexLiquidationOf
  <1> QED BY <1>4, <1>6, <1>8

-----------------------------------------------------------------------------
(* LendersKeepBacking.                                                     *)

(* Of the collateral, what is sold is worth the notes burned, a note       *)
(* rounded down and half a token rounded up apart.                         *)
LEMMA DexCollateralBacking ==
  ASSUME TypeOK, NEW u \in Users, NEW r \in Reserves, NEW c \in Reserves,
         LiquidateDex(u, r, c)
  PROVE  BackingLost(c)
             <= reserve_info[c].deposit_note_exchange_rate
                    * (deposit_note_mint[c] - deposit_note_mint'[c] + 1) + ONE \div 2
  <1> DEFINE t == CollateralTokensTradable(u, r, c)
             q == reserve_info[c].deposit_note_exchange_rate
             n == AsU64(Div(t, q))
             m == n + 1
  <1>1. r # c BY DexStepIs
  <1>2. PICK sold, proceeds \in Nat : Liquidated(u, r, c, sold, proceeds)
    BY DexStepIs
  <1>3. PlanTyped(u, r, c) BY PlanNat
  <1>4. LoanRepaidTokens(u, r, c) \in Nat /\ t \in Nat /\ q \in Nat \ {0}
    BY <1>3 DEF PlanTyped
  <1>5. AsU64(LoanRepaidTokens(u, r, c)) \in Nat BY <1>4, WholePart
  <1>6. reserve'[c] = reserve[c] /\ vault[c] \in Nat /\ vault'[c] = vault[c] - sold
    BY <1>1, <1>2, <1>5, DexReserve
  <1>7. sold * ONE <= t + ONE \div 2 BY <1>2 DEF Liquidated
  <1>8. n = AsU64(CollateralNotesSold(u, r, c)) BY DEF CollateralNotesSold
  <1>9. deposit_note_mint' = [deposit_note_mint EXCEPT ![c] = @ - n]
    BY <1>2, <1>8 DEF Liquidated
  <1>10. deposit_note_mint \in [Reserves -> Nat]
         /\ reserve[c].outstanding_debt \in Nat /\ reserve[c].uncollected_fees \in Nat
    BY DEF TypeOK, ReserveState
  <1> HIDE DEF t, q
  <1>11. n \in Nat /\ m * q \in Nat /\ t + 1 <= m * q BY <1>4, WholeTokens
  <1> HIDE DEF n
  <1>12. deposit_note_mint[c] - deposit_note_mint'[c] + 1 = m BY <1>9, <1>10, <1>11
  <1>13. BackingLost(c) = sold * ONE
    <2>1. (vault[c] - sold) * ONE = vault[c] * ONE - sold * ONE
      BY <1>6, ONEAssumption
    <2>2. vault[c] * ONE \in Nat /\ sold * ONE \in Nat
      BY <1>6, Product, ONEAssumption
    <2> QED BY <1>6, <1>10, <2>1, <2>2 DEF BackingLost, Backing, FromU64
  <1>14. m \in Nat BY <1>11
  <1> HIDE DEF m
  <1>15. q * m = m * q BY <1>4, <1>14
  <1>16. sold * ONE \in Nat /\ ONE \div 2 \in Nat BY Product, Quotient, ONEAssumption
  <1> QED BY <1>4, <1>7, <1>11, <1>12, <1>13, <1>15, <1>16 DEF q

(* The debt written off is paid for, a fraction of a debt and the last     *)
(* digits of the price apart.                                              *)
LEMMA DexLoanBacking ==
  ASSUME TypeOK, NEW u \in Users, NEW r \in Reserves, NEW c \in Reserves,
         LiquidateDex(u, r, c)
  PROVE  (BackingLost(r) - ONE) * reserve_info[r].price
             <= (AsU64(reserve_info[c].price) + 2) * ONE
  <1> DEFINE n == AsU64(LoanRepaidTokens(u, r, c))
             pr == reserve_info[r].price
             h == AsU64(reserve_info[c].price)
             lost == BackingLost(r) - ONE
             debt == reserve[r].outstanding_debt
             left == reserve'[r].outstanding_debt
             fees == reserve[r].uncollected_fees
  <1>1. r # c BY DexStepIs
  <1>2. PICK sold, proceeds \in Nat : Liquidated(u, r, c, sold, proceeds)
    BY DexStepIs
  <1>3. PlanTyped(u, r, c) BY PlanNat
  <1>4. /\ n \in Nat /\ pr \in Nat /\ h \in Nat
        /\ n * pr <= proceeds * pr + h + 2
    BY <1>2, <1>3, PlanWorth DEF Liquidated, PlanTyped
  <1> DEFINE extra == SaturatingSub(proceeds, n)
  <1>5. /\ vault[r] \in Nat /\ vault'[r] = vault[r] + proceeds
        /\ fees \in Nat /\ reserve'[r].uncollected_fees = fees + extra * ONE
        /\ debt \in Nat /\ n * ONE <= debt
        /\ \/ left = debt - n * ONE
           \/ left = 0 /\ debt - n * ONE < ONE
    BY <1>1, <1>2, <1>4, DexReserve DEF FromU64
  <1> HIDE DEF n, pr, h
  <1>6. /\ extra \in Nat
        /\ \/ n <= proceeds /\ extra = proceeds - n
           \/ ~(n <= proceeds) /\ extra = 0
    BY <1>4 DEF SaturatingSub
  <1>7. lost = debt - left + vault[r] * ONE - (vault[r] + proceeds) * ONE + extra * ONE - ONE
    <2>1. /\ vault[r] * ONE \in Nat /\ (vault[r] + proceeds) * ONE \in Nat
          /\ extra * ONE \in Nat /\ left \in Int
      <3>1. vault[r] + proceeds \in Nat BY <1>5
      <3>2. n * ONE \in Nat BY <1>4, Product, ONEAssumption
      <3> QED BY <1>5, <1>6, <3>1, <3>2, Product, ONEAssumption
    <2> HIDE DEF extra
    <2> QED BY <1>5, <2>1, ONEAssumption DEF BackingLost, Backing, FromU64
  <1> HIDE DEF lost, debt, left, extra, fees
  <1>8. /\ n * ONE \in Nat /\ proceeds * ONE \in Nat /\ extra * ONE \in Nat
        /\ (vault[r] + proceeds) * ONE = vault[r] * ONE + proceeds * ONE
        /\ vault[r] * ONE \in Nat
    BY <1>4, <1>5, <1>6, Product, ONEAssumption
  <1>9. lost \in Int /\ lost <= n * ONE - proceeds * ONE + extra * ONE
    BY <1>5, <1>7, <1>8, ONEAssumption
  <1>10. h + 2 \in Nat /\ (h + 2) * ONE \in Nat
    <2>1. h + 2 \in Nat BY <1>4
    <2> QED BY <2>1, Product, ONEAssumption
  <1>11. lost * pr <= (h + 2) * ONE
    <2>1. CASE n <= proceeds
      <3>1. extra * ONE = proceeds * ONE - n * ONE BY <1>4, <1>6, <2>1, ONEAssumption
      <3>2. lost <= 0 BY <1>8, <1>9, <3>1
      <3>3. -lost \in Nat BY <1>9, <3>2
      <3>4. (-lost) * pr \in Nat BY <1>4, <3>3, Product
      <3>5. (-lost) * pr = -(lost * pr) BY <1>4, <1>9
      <3>6. lost * pr \in Int BY <1>4, <1>9
      <3> QED BY <1>10, <3>4, <3>5, <3>6
    <2>2. CASE ~(n <= proceeds)
      <3> DEFINE k == n - proceeds
      <3>1. k \in Nat /\ k * ONE = n * ONE - proceeds * ONE /\ extra * ONE = 0
        BY <1>4, <1>6, <2>2, ONEAssumption
      <3>2. k * pr = n * pr - proceeds * pr /\ n * pr \in Nat /\ proceeds * pr \in Nat
        BY <1>4, Product
      <3>3. k * pr \in Nat /\ k * pr <= h + 2 BY <1>4, <3>1, <3>2, Product
      <3> HIDE DEF k
      <3>4. (k * pr) * ONE <= (h + 2) * ONE BY <1>10, <3>3, Product, ONEAssumption
      <3>5. k * ONE \in Nat BY <3>1, Product, ONEAssumption
      <3>6. lost <= k * ONE BY <1>8, <1>9, <3>1
      <3>7. lost * pr <= (k * ONE) * pr
        <4>1. k * ONE - lost \in Nat BY <1>9, <3>5, <3>6
        <4>2. (k * ONE - lost) * pr \in Nat BY <1>4, <4>1, Product
        <4>3. (k * ONE - lost) * pr = (k * ONE) * pr - lost * pr
          BY <1>4, <1>9, <3>5
        <4>4. lost * pr \in Int /\ (k * ONE) * pr \in Int BY <1>4, <1>9, <3>5
        <4> QED BY <4>2, <4>3, <4>4
      <3>8. (k * ONE) * pr = (k * pr) * ONE BY <1>4, <3>1, ONEAssumption
      <3>9. lost * pr \in Int /\ (k * pr) * ONE \in Nat
        BY <1>4, <1>9, <3>3, Product, ONEAssumption
      <3> QED BY <1>10, <3>4, <3>7, <3>8, <3>9
    <2> QED BY <2>1, <2>2
  <1> QED BY <1>11 DEF lost, pr, h

(* The lenders of neither reserve lose by a DEX liquidation, whatever part *)
(* of the order the DEX filled.                                            *)
THEOREM LendersStayBacked == DexSpec => LendersKeepBacking
  <1> DEFINE Kept ==
        \A u \in Users, r, c \in Reserves :
            IsDexLiquidationOf(u, r, c) =>
              /\ BackingLost(c)
                     <= reserve_info[c].deposit_note_exchange_rate
                            * (deposit_note_mint[c] - deposit_note_mint'[c] + 1) + ONE \div 2
              /\ (BackingLost(r) - ONE) * reserve_info[r].price
                     <= (AsU64(reserve_info[c].price) + 2) * ONE
  <1>1. DexInv /\ [DexNext]_dex_vars => [Kept]_dex_vars
    <2> SUFFICES ASSUME DexInv, [DexNext]_dex_vars PROVE Kept
      OBVIOUS
    <2>1. TypeOK BY DEF DexInv
    <2>2. CASE [Next]_vars BY <2>1, <2>2, LendingIsNot
    <2>3. CASE \E v \in Users, s, q \in Reserves : LiquidateDex(v, s, q)
      <3> PICK v \in Users, s, q \in Reserves : LiquidateDex(v, s, q) BY <2>3
      <3> TAKE u \in Users, r, c \in Reserves
      <3> HAVE IsDexLiquidationOf(u, r, c)
      <3>1. u = v /\ r = s /\ c = q BY <2>1, DexIsOf
      <3> QED BY <2>1, <3>1, DexCollateralBacking, DexLoanBacking
    <2> QED BY <2>2, <2>3, DexSteps
  <1> QED BY <1>1, DexInvariant, PTL DEF DexSpec, LendersKeepBacking

(* What a reserve r loses of its backing in a step, beyond the worth, at   *)
(* its cached rate, of the deposit notes the step burns.  Its vault and    *)
(* the supply of its notes are compared: a sale on the DEX leaves the      *)
(* totals of the reserve behind, and they show nothing of it.              *)
WorthLost(r) ==
    BackingLost(r)
        + reserve_info[r].deposit_note_exchange_rate * Minted(r)

(* At an unchanged rate that is less than a note and a token; of a loan    *)
(* repaid by a sale, a token and what the digits of the prices leave open. *)
WorthKept(r) ==
    Cached(r)' /\ reserve_info'[r] = reserve_info[r] =>
        \/ WorthLost(r) <= reserve_info[r].deposit_note_exchange_rate + ONE
        \/ \E u \in Users, c \in Reserves :
              /\ LiquidateDex(u, r, c)
              /\ (WorthLost(r) - ONE) * reserve_info[r].price
                     <= (AsU64(reserve_info[c].price) + 2) * ONE

(* The numbers a reserve's backing and its notes consist of. *)
LEMMA BackingTyped ==
  ASSUME TypeOK, NEW r \in Reserves
  PROVE  /\ reserve[r] \in ReserveState /\ reserve_info[r] \in CachedReserveInfo
         /\ reserve[r].outstanding_debt \in Nat /\ reserve[r].uncollected_fees \in Nat
         /\ reserve[r].total_deposits \in Nat /\ reserve[r].total_deposit_notes \in Nat
         /\ vault[r] \in Nat /\ deposit_note_mint[r] \in Nat
         /\ reserve_info[r].deposit_note_exchange_rate \in Nat
         /\ FromU64(vault[r]) \in Nat /\ FromU64(reserve[r].total_deposits) \in Nat
         /\ Backing(r) \in Int
  <1>1. /\ reserve[r] \in ReserveState /\ reserve_info[r] \in CachedReserveInfo
        /\ vault[r] \in Nat /\ deposit_note_mint[r] \in Nat
    BY DEF TypeOK
  <1>2. /\ reserve[r].outstanding_debt \in Nat /\ reserve[r].uncollected_fees \in Nat
        /\ reserve[r].total_deposits \in Nat /\ reserve[r].total_deposit_notes \in Nat
        /\ reserve_info[r].deposit_note_exchange_rate \in Nat
    BY <1>1 DEF ReserveState, CachedReserveInfo
  <1>3. FromU64(vault[r]) \in Nat /\ FromU64(reserve[r].total_deposits) \in Nat
    BY <1>1, <1>2, ConversionNat, Zenon
  <1> QED BY <1>1, <1>2, <1>3 DEF Backing

(* The handlers of Lending keep the totals in step with vault and mint, so *)
(* what they leave short by the totals bounds what they really do.         *)
LEMMA LendingKeepsWorth ==
  ASSUME TypeOK, TypeOK', RatesOfTheSlot, [Next]_vars, NEW r \in Reserves
  PROVE  WorthKept(r)
  <1> DEFINE q == reserve_info[r].deposit_note_exchange_rate
             n == reserve[r].total_deposit_notes
             m == reserve'[r].total_deposit_notes
             t == reserve[r].total_deposits
             w == reserve'[r].total_deposits
             debt == reserve[r].outstanding_debt
             left == reserve'[r].outstanding_debt
             fees == reserve[r].uncollected_fees
             more == reserve'[r].uncollected_fees
             dropped == DebtDropped(r)
  <1> SUFFICES ASSUME Cached(r)', reserve_info'[r] = reserve_info[r]
               PROVE  WorthLost(r) <= q + ONE
    BY DEF WorthKept
  <1>1. /\ debt \in Nat /\ fees \in Nat /\ t \in Nat /\ n \in Nat /\ vault[r] \in Nat
        /\ q \in Nat /\ FromU64(vault[r]) \in Nat /\ FromU64(t) \in Nat
        /\ deposit_note_mint[r] \in Nat
    BY BackingTyped
  <1>2. /\ left \in Nat /\ more \in Nat /\ w \in Nat /\ m \in Nat /\ vault'[r] \in Nat
        /\ deposit_note_mint'[r] \in Nat
    <2>1. reserve'[r] \in ReserveState /\ vault'[r] \in Nat /\ deposit_note_mint'[r] \in Nat
      BY DEF TypeOK
    <2> QED BY <2>1 DEF ReserveState
  <1>3. FromU64(vault'[r]) \in Nat /\ FromU64(w) \in Nat BY <1>2, ConversionNat
  <1>4. Minted(r) = m - n /\ w - t <= vault'[r] - vault[r]
    BY LendingMoves DEF Booked, Paid
  <1>5. FromU64(w) + FromU64(vault[r]) <= FromU64(vault'[r]) + FromU64(t)
    <2>1. w + vault[r] <= vault'[r] + t BY <1>1, <1>2, <1>4
    <2>2. (w + vault[r]) * ONE <= (vault'[r] + t) * ONE
      BY <1>1, <1>2, <2>1, Product, ONEAssumption
    <2>3. /\ FromU64(w + vault[r]) = FromU64(w) + FromU64(vault[r])
          /\ FromU64(vault'[r] + t) = FromU64(vault'[r]) + FromU64(t)
      BY <1>1, <1>2, FromU64Distributes, Zenon
    <2> QED BY <2>2, <2>3 DEF FromU64
  <1>6. q * n \in Nat /\ q * m \in Nat /\ q * (m - n) = q * m - q * n
    BY <1>1, <1>2, Product
  <1>7. q * m - (left + FromU64(w) - more)
            <= q * n - (debt + FromU64(t) - fees) + dropped + AsU64(q)
    <2>1. DepositsKeep(r) BY NextKeepsPrices
    <2> QED BY <2>1 DEF DepositsKeep, DepositShortfall, DepositNoteValue
  <1>8. dropped \in Int /\ dropped < ONE
    <2>1. /\ FromU64(AsU64(debt)) \in Nat
          /\ debt < FromU64(AsU64(debt)) + ONE
      BY <1>1, WholePart, ONEAssumption DEF FromU64
    <2> HIDE DEF debt, left
    <2>2. dropped = IF left = 0 THEN debt - FromU64(AsU64(debt)) ELSE 0
      BY DEF DebtDropped, debt, left
    <2> HIDE DEF dropped
    <2> QED BY <1>1, <2>1, <2>2, ONEAssumption
  <1>9. AsU64(q) \in Nat /\ AsU64(q) <= q
    <2>1. AsU64(q) \in Nat /\ AsU64(q) * ONE <= q BY <1>1, WholePart, Zenon
    <2>2. AsU64(q) * 1 <= AsU64(q) * ONE
      BY <2>1, ONEAssumption
    <2>3. AsU64(q) * ONE \in Nat BY <2>1, Product, ONEAssumption
    <2> QED BY <1>1, <2>1, <2>2, <2>3
  <1>10. WorthLost(r) = (debt + FromU64(vault[r]) - fees)
                            - (left + FromU64(vault'[r]) - more) + q * (m - n)
    BY <1>4 DEF WorthLost, BackingLost, Backing
  <1> HIDE DEF q, n, m, t, w, debt, left, fees, more, dropped
  <1> QED BY <1>1, <1>2, <1>3, <1>5, <1>6, <1>7, <1>8, <1>9, <1>10, ONEAssumption

(* A sale moves what LendersKeepBacking says, and nothing elsewhere. *)
LEMMA DexKeepsWorth ==
  ASSUME TypeOK, NEW u \in Users, NEW s \in Reserves, NEW c \in Reserves,
         LiquidateDex(u, s, c), NEW r \in Reserves
  PROVE  WorthKept(r)
  <1>1. s # c BY DexStepIs
  <1>2. PICK sold, proceeds \in Nat : Liquidated(u, s, c, sold, proceeds)
    BY DexStepIs
  <1>3. PlanTyped(u, s, c) BY PlanNat
  <1> DEFINE k == AsU64(LoanRepaidTokens(u, s, c))
  <1>4. k \in Nat /\ AsU64(CollateralNotesSold(u, s, c)) \in Nat
    BY <1>3, WholePart DEF PlanTyped
  <1>5. /\ \A x \in Reserves \ {s} : reserve'[x] = reserve[x]
        /\ \A x \in Reserves \ {s, c} : vault'[x] = vault[x]
        /\ vault'[c] = vault[c] - sold /\ vault'[s] = vault[s] + proceeds
        /\ reserve'[s].uncollected_fees
               = reserve[s].uncollected_fees + FromU64(SaturatingSub(proceeds, k))
        /\ \/ reserve'[s].outstanding_debt = reserve[s].outstanding_debt - FromU64(k)
           \/ reserve'[s].outstanding_debt = 0
    BY <1>1, <1>2, <1>4, DexReserve
  <1> DEFINE n == AsU64(CollateralNotesSold(u, s, c))
             q == reserve_info[r].deposit_note_exchange_rate
             lost == BackingLost(r)
  <1>6. /\ n \in Nat /\ deposit_note_mint \in [Reserves -> Nat]
        /\ deposit_note_mint' = [deposit_note_mint EXCEPT ![c] = @ - n]
    BY <1>2, <1>4 DEF Liquidated, TypeOK
  <1>7. /\ q \in Nat /\ Backing(r) \in Int /\ deposit_note_mint[r] \in Nat
        /\ vault[r] \in Nat /\ FromU64(vault[r]) \in Nat
        /\ reserve[r].outstanding_debt \in Nat /\ reserve[r].uncollected_fees \in Nat
    BY BackingTyped
  <1> HIDE DEF n
  <1>8. CASE r = c
    <2>1. lost <= q * (deposit_note_mint[r] - deposit_note_mint'[r] + 1) + ONE \div 2
      BY <1>8, DexCollateralBacking
    <2>2. Minted(r) = -n /\ deposit_note_mint[r] - deposit_note_mint'[r] + 1 = n + 1
      BY <1>6, <1>7, <1>8 DEF Minted
    <2>3. q * (n + 1) = q * n + q /\ q * (-n) = -(q * n) /\ q * n \in Nat
      <3> HIDE DEF k, q, lost
      <3>1. q \in Nat /\ n \in Nat BY <1>6, <1>7
      <3>2. q * n \in Nat BY <3>1, Product
      <3>3. q * (n + 1) = q * n + q BY <3>1
      <3>4. q * (-n) = -(q * n) BY <3>1
      <3> QED BY <3>2, <3>3, <3>4
    <2>4. lost \in Int
      <3>1. reserve'[r] = reserve[r] /\ vault'[r] = vault[r] - sold BY <1>1, <1>5, <1>8
      <3>2. FromU64(vault'[r]) \in Int BY <1>7, <3>1, ONEAssumption DEF FromU64
      <3> QED BY <1>7, <3>1, <3>2 DEF BackingLost, Backing
    <2>5. ONE \div 2 \in Nat /\ ONE \div 2 <= ONE BY ONEAssumption
    <2> HIDE DEF lost, q
    <2>6. lost + q * Minted(r) <= q + ONE
      BY <1>6, <1>7, <2>1, <2>2, <2>3, <2>4, <2>5, ONEAssumption
    <2> QED BY <2>6 DEF WorthKept, WorthLost, lost, q
  <1>9. CASE r = s
    <2>1. (lost - ONE) * reserve_info[s].price <= (AsU64(reserve_info[c].price) + 2) * ONE
      BY <1>9, DexLoanBacking
    <2>2. Minted(r) = 0 BY <1>1, <1>6, <1>7, <1>9 DEF Minted
    <2>3. q * 0 = 0 BY <1>7
    <2>4. lost \in Int
      <3>1. SaturatingSub(proceeds, k) \in Nat BY <1>4 DEF SaturatingSub
      <3>2. /\ FromU64(SaturatingSub(proceeds, k)) \in Nat /\ FromU64(k) \in Nat
            /\ FromU64(vault'[r]) \in Nat
        BY <1>4, <1>5, <1>7, <1>9, <3>1, ConversionNat
      <3> HIDE DEF k
      <3>3. /\ reserve'[r].uncollected_fees \in Int /\ reserve'[r].outstanding_debt \in Int
        BY <1>5, <1>7, <1>9, <3>2
      <3> QED BY <1>7, <3>2, <3>3 DEF BackingLost, Backing
    <2> HIDE DEF lost, q
    <2>5. WorthLost(r) = lost BY <2>2, <2>3, <2>4 DEF WorthLost, lost, q
    <2> QED BY <1>9, <2>1, <2>5 DEF WorthKept
  <1>10. CASE r \notin {s, c}
    <2>1. reserve'[r] = reserve[r] /\ vault'[r] = vault[r] BY <1>5, <1>10
    <2>2. Minted(r) = 0 BY <1>6, <1>7, <1>10 DEF Minted
    <2>3. lost = 0 BY <1>7, <2>1 DEF BackingLost, Backing
    <2>4. q * 0 = 0 BY <1>7
    <2> HIDE DEF lost, q
    <2>5. WorthLost(r) <= q + ONE
      BY <1>7, <2>2, <2>3, <2>4, ONEAssumption DEF WorthLost, lost, q
    <2> QED BY <2>5 DEF WorthKept, q
  <1> QED BY <1>8, <1>9, <1>10

(* In a market with a DEX, too, the notes of a reserve lose no more of     *)
(* their worth by any step at an unchanged rate, whoever takes it, than    *)
(* roundings: judged by what is in the vault and what is in the mint, for  *)
(* both reserves of a sale, and all the others.                            *)
THEOREM DexNotesKeepWorth ==
  DexSpec => [][\A r \in Reserves : WorthKept(r)]_dex_vars
  <1>1. DexInv /\ DexInv' /\ RatesOfTheSlot /\ [DexNext]_dex_vars
            => [\A r \in Reserves : WorthKept(r)]_dex_vars
    <2> SUFFICES ASSUME DexInv, DexInv', RatesOfTheSlot, [DexNext]_dex_vars,
                        NEW r \in Reserves
                 PROVE  WorthKept(r)
      OBVIOUS
    <2>1. TypeOK /\ TypeOK' BY DEF DexInv
    <2> QED BY <2>1, DexSteps, LendingKeepsWorth, DexKeepsWorth
  <1>2. DexInit => RatesOfTheSlot BY InitRates DEF DexInit
  <1> QED BY <1>1, <1>2, DexRates, DexInvariant, PTL DEF DexSpec

-----------------------------------------------------------------------------
(* PremiumBounded.                                                         *)

(* t tokens' worth of notes off a pledge of k lower its value by their     *)
(* price, a unit apart: q is the rate of the notes, price that of a token. *)
LEMMA PledgeSold ==
  ASSUME NEW k \in Nat, NEW t \in Nat, NEW q \in Nat \ {0}, NEW price \in Nat
  PROVE  LET before == NoteValue(k, q, price)
             after == NoteValue(SaturatingSub(k, Div(t, q)), q, price)
         IN  /\ before \in Nat /\ after \in Nat /\ t * price \in Nat
             /\ before * ONE <= after * ONE + t * price + ONE
  <1> DEFINE x == Div(t, q)
             left == SaturatingSub(k, x)
             a == Mul(k, q)
             b == Mul(left, q)
             before == Mul(a, price)
             after == Mul(b, price)
  <1>1. x \in Nat /\ t * ONE \in Nat /\ x * q \in Nat /\ x * q <= t * ONE
    BY DivTruncates
  <1> HIDE DEF x
  <1>2. left \in Nat /\ k <= left + x BY <1>1 DEF SaturatingSub
  <1> HIDE DEF left
  <1>3. a \in Nat /\ k * q \in Nat /\ a * ONE \in Nat /\ a * ONE <= k * q
    BY TruncatedProduct
  <1>4. b \in Nat /\ left * q \in Nat /\ b * ONE \in Nat /\ left * q + 1 <= b * ONE + ONE
    BY <1>2, TruncatedProduct, Zenon
  <1> HIDE DEF a, b
  <1>5. a <= b + t
    <2>1. left + x \in Nat BY <1>1, <1>2
    <2>2. k * q <= (left + x) * q BY <1>2, <2>1, Product
    <2>3. (left + x) * q = left * q + x * q BY <1>1, <1>2
    <2>4. a * ONE + 1 <= b * ONE + t * ONE + ONE
      BY <1>1, <1>3, <1>4, <2>2, <2>3, ONEAssumption
    <2>5. SUFFICES ASSUME b + t + 1 <= a PROVE FALSE BY <1>3, <1>4
    <2>6. b + t + 1 \in Nat BY <1>4
    <2>7. (b + t + 1) * ONE <= a * ONE BY <1>3, <2>5, <2>6, Product, ONEAssumption
    <2>8. (b + t + 1) * ONE = b * ONE + t * ONE + ONE BY <1>4, ONEAssumption
    <2> QED BY <1>1, <1>3, <1>4, <2>4, <2>7, <2>8, ONEAssumption
  <1>6. /\ before \in Nat /\ a * price \in Nat /\ before * ONE \in Nat
        /\ before * ONE <= a * price
    BY <1>3, TruncatedProduct, Zenon
  <1>7. /\ after \in Nat /\ b * price \in Nat /\ after * ONE \in Nat
        /\ b * price + 1 <= after * ONE + ONE
    BY <1>4, TruncatedProduct, Zenon
  <1> HIDE DEF before, after
  <1>8. t * price \in Nat BY Product
  <1>9. a * price <= b * price + t * price
    <2>1. b + t \in Nat BY <1>4
    <2>2. a * price <= (b + t) * price BY <1>3, <1>5, <2>1, Product
    <2>3. (b + t) * price = b * price + t * price BY <1>4
    <2> QED BY <2>2, <2>3
  <1>10. before * ONE <= after * ONE + t * price + ONE
    BY <1>6, <1>7, <1>8, <1>9, ONEAssumption
  <1> QED BY <1>6, <1>7, <1>8, <1>10 DEF NoteValue, before, after, a, b, left, x

(* What the collateral of a liquidated obligation loses in value.          *)
LEMMA DexCollateralLost ==
  ASSUME TypeOK, NEW u \in Users, NEW r \in Reserves, NEW c \in Reserves,
         LiquidateDex(u, r, c)
  PROVE  LET t == CollateralTokensTradable(u, r, c)
             price == reserve_info[c].price
         IN  /\ CollateralLost(u) \in Int /\ t * price \in Nat
             /\ CollateralLost(u) * ONE <= t * price + ONE
  <1> DEFINE t == CollateralTokensTradable(u, r, c)
             price == reserve_info[c].price
             q == reserve_info[c].deposit_note_exchange_rate
             o == obligation[u]
             x == Div(t, q)
             y == LoanRepaidNotes(u, r, c)
             b == SubtractCollateral(o, c, x)
             p == SubtractLoan(b, r, y)
             k == o.collateral[c]
             before == NoteValue(k, q, price)
             after == NoteValue(SaturatingSub(k, x), q, price)
  <1>1. PICK sold, proceeds \in Nat : Liquidated(u, r, c, sold, proceeds)
    BY DexStepIs
  <1>2. PlanTyped(u, r, c) BY PlanNat
  <1>3. t \in Nat /\ q \in Nat \ {0} /\ price \in Nat /\ y \in Nat BY <1>2 DEF PlanTyped
  <1>4. /\ o \in ObligationState /\ reserve_info \in Infos /\ k \in Nat
        /\ c \in o.collateral_accounts
    BY DEF TypeOK, Infos, ObligationState, LiquidateDex
  <1>5. obligation'[u] = p
    <2>1. obligation' = [obligation EXCEPT ![u] = p]
      BY <1>1 DEF Liquidated, CollateralNotesSold
    <2> HIDE DEF p
    <2> QED BY <2>1 DEF TypeOK
  <1> HIDE DEF t, y
  <1>6. x \in Nat BY <1>3, DivNat
  <1> HIDE DEF x
  <1>7. b \in ObligationState BY <1>4, <1>6, SubtractTyped
  <1>8. p \in ObligationState
    <2> HIDE DEF b
    <2> QED BY <1>3, <1>7, SubtractTyped
  <1>9. /\ b.collateral_accounts = o.collateral_accounts
        /\ b.collateral[c] = SaturatingSub(k, x)
        /\ \A s \in Reserves \ {c} : b.collateral[s] = o.collateral[s]
    BY <1>4 DEF SubtractCollateral, ObligationState
  <1>10. p.collateral = b.collateral /\ p.collateral_accounts = b.collateral_accounts
    BY DEF SubtractLoan
  <1> HIDE DEF o, p, b
  <1>11. CollateralValue(o, reserve_info) - Pledged(o, reserve_info)[c]
            = CollateralValue(p, reserve_info) - Pledged(p, reserve_info)[c]
    <2>1. /\ p.collateral_accounts = o.collateral_accounts
          /\ \A s \in Reserves \ {c} : p.collateral[s] = o.collateral[s]
      BY <1>9, <1>10
    <2> QED BY <1>4, <1>8, <2>1, CollateralValueChanges
  <1>12. Pledged(o, reserve_info)[c] = before /\ Pledged(p, reserve_info)[c] = after
    BY <1>9, <1>10 DEF Pledged
  <1>13. /\ before \in Nat /\ after \in Nat /\ t * price \in Nat
         /\ before * ONE <= after * ONE + t * price + ONE
    BY <1>3, <1>4, PledgeSold, Zenon DEF x
  <1>14. /\ CollateralValue(o, reserve_info) \in Nat
         /\ CollateralValue(p, reserve_info) \in Nat
    BY <1>4, <1>8, ValuesNat
  <1>15. CollateralLost(u)
            = CollateralValue(o, reserve_info) - CollateralValue(p, reserve_info)
    BY <1>5 DEF CollateralLost, o
  <1> HIDE DEF before, after
  <1>16. CollateralLost(u) = before - after BY <1>11, <1>12, <1>13, <1>14, <1>15
  <1>17. (before - after) * ONE = before * ONE - after * ONE BY <1>13, ONEAssumption
  <1>18. before * ONE \in Nat /\ after * ONE \in Nat BY <1>13, Product, ONEAssumption
  <1>19. CollateralLost(u) * ONE <= t * price + ONE
    BY <1>13, <1>16, <1>17, <1>18, ONEAssumption
  <1> QED BY <1>13, <1>16, <1>19 DEF t, price

(* It is worth no more than the debt written off and the premium on it.    *)
LEMMA DexPremium ==
  ASSUME TypeOK, NEW u \in Users, NEW r \in Reserves, NEW c \in Reserves,
         LiquidateDex(u, r, c)
  PROVE  CollateralLost(u) * ONE
            <= (Mul(reserve_info[r].price, DebtPaid(r) + ONE)
                  + AsU64(LoanRepayValue(obligation[u], r, c)) + 3)
               * (ONE + Premium(c))
  <1> DEFINE n == AsU64(LoanRepaidTokens(u, r, c))
             pr == reserve_info[r].price
             pc == reserve_info[c].price
             t == CollateralTokensTradable(u, r, c)
             a == AsU64(LoanRepayValue(obligation[u], r, c))
             w == ONE + Premium(c)
             y == (n + 1) * pr
             d == Mul(pr, DebtPaid(r) + ONE)
             lost == CollateralLost(u)
  <1>1. r # c BY DexStepIs
  <1>2. PICK sold, proceeds \in Nat : Liquidated(u, r, c, sold, proceeds)
    BY DexStepIs
  <1>3. PlanTyped(u, r, c) BY PlanNat
  <1>4. /\ n \in Nat /\ pr \in Nat /\ a \in Nat /\ y \in Nat
        /\ t * pc <= (y + a + 2) * w
    BY <1>2, <1>3, PlanWorth DEF Liquidated, PlanTyped
  <1>5. w \in Nat /\ ONE <= w BY <1>3, ONEAssumption DEF PlanTyped
  <1>6. lost \in Int /\ t * pc \in Nat /\ lost * ONE <= t * pc + ONE
    BY DexCollateralLost
  <1>7. DebtPaid(r) \in Nat /\ n * ONE <= DebtPaid(r)
    <2>1. /\ reserve[r].outstanding_debt \in Nat
          /\ n * ONE <= reserve[r].outstanding_debt
          /\ \/ reserve'[r].outstanding_debt = reserve[r].outstanding_debt - n * ONE
             \/ reserve'[r].outstanding_debt = 0
      BY <1>1, <1>2, <1>4, DexReserve DEF FromU64
    <2> HIDE DEF n
    <2>2. n * ONE \in Nat BY <1>4, Product, ONEAssumption
    <2> QED BY <2>1, <2>2 DEF DebtPaid
  <1> HIDE DEF n, pr, pc, t, a, w, lost
  <1>8. d \in Nat /\ y <= d
    <2> DEFINE m == n + 1
               e == DebtPaid(r) + ONE
    <2>1. m \in Nat /\ e \in Nat /\ m * ONE \in Nat /\ m * ONE <= e
      <3>1. m \in Nat /\ e \in Nat BY <1>4, <1>7, ONEAssumption
      <3>2. m * ONE = n * ONE + ONE /\ n * ONE \in Nat
        BY <1>4, Product, ONEAssumption
      <3> QED BY <1>7, <3>1, <3>2, ONEAssumption
    <2> HIDE DEF m, e
    <2>2. (m * ONE) * pr <= e * pr BY <1>4, <2>1, Product
    <2>3. e * pr = pr * e /\ pr * e \in Nat /\ (m * ONE) * pr = (m * pr) * ONE
      BY <1>4, <2>1, Product, ONEAssumption
    <2>4. m * pr \in Nat /\ (m * pr) * ONE \in Nat
      <3>1. m * pr \in Nat BY <1>4, <2>1, Product
      <3> QED BY <3>1, Product, ONEAssumption
    <2>5. (m * pr) * ONE <= pr * e BY <2>2, <2>3
    <2>6. ((m * pr) * ONE) \div ONE <= (pr * e) \div ONE
      BY <2>3, <2>4, <2>5, QuotientMonotone, ONEAssumption
    <2>7. m * pr <= Mul(pr, e) BY <2>4, <2>6, QuotientExact, ONEAssumption DEF Mul
    <2>8. Mul(pr, e) \in Nat BY <1>4, <2>1, MulNat, Zenon
    <2> QED BY <2>7, <2>8 DEF m, e
  <1> HIDE DEF y, d
  <1>9. lost * ONE <= (d + a + 3) * w
    <2>1. y + a + 2 \in Nat /\ d + a + 2 \in Nat /\ y + a + 2 <= d + a + 2
      BY <1>4, <1>8
    <2>2. (y + a + 2) * w <= (d + a + 2) * w BY <1>5, <2>1, Product
    <2>3. (d + a + 3) * w = (d + a + 2) * w + w BY <1>4, <1>5, <1>8
    <2>4. /\ (y + a + 2) * w \in Nat /\ (d + a + 2) * w \in Nat
          /\ lost * ONE \in Int
      BY <1>5, <1>6, <2>1, Product, ONEAssumption
    <2> QED BY <1>4, <1>5, <1>6, <2>2, <2>3, <2>4, ONEAssumption
  <1> QED BY <1>9 DEF lost, d, pr, a, w

(* A DEX liquidation costs the borrower no more than the premium over the  *)
(* debt it writes off, whatever it sells and whatever the DEX fills.       *)
THEOREM PremiumIsBounded == DexSpec => PremiumBounded
  <1> DEFINE Bounded ==
        \A u \in Users, r, c \in Reserves :
            IsDexLiquidationOf(u, r, c) =>
              CollateralLost(u) * ONE
                  <= (Mul(reserve_info[r].price, DebtPaid(r) + ONE)
                        + AsU64(LoanRepayValue(obligation[u], r, c)) + 3)
                     * (ONE + Premium(c))
  <1>1. DexInv /\ [DexNext]_dex_vars => [Bounded]_dex_vars
    <2> SUFFICES ASSUME DexInv, [DexNext]_dex_vars PROVE Bounded
      OBVIOUS
    <2>1. TypeOK BY DEF DexInv
    <2>2. CASE [Next]_vars BY <2>1, <2>2, LendingIsNot
    <2>3. CASE \E v \in Users, s, q \in Reserves : LiquidateDex(v, s, q)
      <3> PICK v \in Users, s, q \in Reserves : LiquidateDex(v, s, q) BY <2>3
      <3> TAKE u \in Users, r, c \in Reserves
      <3> HAVE IsDexLiquidationOf(u, r, c)
      <3>1. u = v /\ r = s /\ c = q BY <2>1, DexIsOf
      <3> QED BY <2>1, <3>1, DexPremium
    <2> QED BY <2>2, <2>3, DexSteps
  <1> QED BY <1>1, DexInvariant, PTL DEF DexSpec, PremiumBounded

(* Every note is still in somebody's account after DEX liquidations, though*)
(* the reserves' totals no longer say how many there are.                  *)
THEOREM DexNotesHeld == DexSpec => []NotesHeld
  BY DexInvariant, PTL DEF DexInv
=============================================================================
