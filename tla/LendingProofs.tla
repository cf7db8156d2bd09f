--------------------------- MODULE LendingProofs ---------------------------
(***************************************************************************)
(* Theorems about every market Lending.tla describes, whatever its         *)
(* reserves, users, prices, rates and amounts: that its totals, caches and *)
(* vaults agree (AccountingInv), that interest is charged once, that every *)
(* note the totals count is in some account, and that none is minted or    *)
(* burned past a flag.                                                     *)
(***************************************************************************)
EXTENDS LendingProperties, NumberProofs

-----------------------------------------------------------------------------
(* Number arithmetic stays in the natural numbers.                         *)

(* The product of natural numbers is one. *)
LEMMA ProductNat == ASSUME NEW a \in Nat, NEW b \in Nat PROVE a * b \in Nat
  OBVIOUS

(* Division by a positive number keeps a natural number natural. *)
LEMMA QuotientNat ==
  ASSUME NEW a \in Nat, NEW b \in Nat \ {0}
  PROVE  a \div b \in Nat
  OBVIOUS

(* Number::from makes a Number of a u64, and as_u64 and as_u64_ceil a u64  *)
(* of a Number.                                                            *)
LEMMA ConversionNat ==
  ASSUME NEW n \in Nat, NEW rounding
  PROVE  /\ FromU64(n) \in Nat /\ AsU64(n) \in Nat /\ AsU64Ceil(n) \in Nat
         /\ Rounded(n, rounding) \in Nat
  <1>1. FromU64(n) \in Nat BY ProductNat, ONEAssumption DEF FromU64
  <1>2. AsU64(n) \in Nat BY QuotientNat, ONEAssumption DEF AsU64
  <1>3. n + ONE - 1 \in Nat BY ONEAssumption
  <1>4. AsU64Ceil(n) \in Nat BY <1>3, QuotientNat, ONEAssumption DEF AsU64Ceil
  <1> QED BY <1>1, <1>2, <1>4 DEF Rounded

(* Number multiplication, and division by anything but zero. *)
LEMMA MulNat == ASSUME NEW a \in Nat, NEW b \in Nat PROVE Mul(a, b) \in Nat
  <1>1. a * b \in Nat BY ProductNat
  <1> QED BY <1>1, QuotientNat, ONEAssumption DEF Mul

(* The quotient of two Numbers is a Number: a fixed-point division by     *)
(* something never goes below zero.                                        *)
LEMMA DivNat == ASSUME NEW a \in Nat, NEW b \in Nat \ {0} PROVE Div(a, b) \in Nat
  <1>1. a * ONE \in Nat BY ProductNat, ONEAssumption
  <1> QED BY <1>1, QuotientNat DEF Div

(* A product of Numbers is truncated, never rounded up. *)
LEMMA MulTruncates ==
  ASSUME NEW a \in Nat, NEW b \in Nat
  PROVE  /\ Mul(a, b) \in Nat /\ a * b \in Nat /\ Mul(a, b) * ONE \in Nat
         /\ Mul(a, b) * ONE <= a * b
  <1>1. Mul(a, b) \in Nat /\ a * b \in Nat BY MulNat, Product
  <1>2. Mul(a, b) * ONE <= a * b BY <1>1, Quotient, ONEAssumption DEF Mul
  <1>3. Mul(a, b) * ONE \in Nat BY <1>1, Product, ONEAssumption
  <1> QED BY <1>1, <1>2, <1>3

(* So is a quotient. *)
LEMMA DivTruncates ==
  ASSUME NEW a \in Nat, NEW b \in Nat \ {0}
  PROVE  /\ Div(a, b) \in Nat /\ a * ONE \in Nat /\ Div(a, b) * b \in Nat
         /\ Div(a, b) * b <= a * ONE
  <1>1. Div(a, b) \in Nat /\ a * ONE \in Nat BY DivNat, Product, ONEAssumption
  <1>2. Div(a, b) * b <= a * ONE BY <1>1, Quotient DEF Div
  <1>3. Div(a, b) * b \in Nat BY <1>1, Product
  <1> QED BY <1>1, <1>2, <1>3

(* A truncated quotient loses less than the divisor.                       *)
LEMMA TruncatedQuotient ==
  ASSUME NEW a \in Nat, NEW b \in Nat \ {0}
  PROVE  /\ Div(a, b) \in Nat /\ a * ONE \in Nat /\ Div(a, b) * b \in Nat
         /\ Div(a, b) * b <= a * ONE /\ a * ONE + 1 <= Div(a, b) * b + b
  <1> DEFINE d == Div(a, b)
  <1>1. d \in Nat /\ a * ONE \in Nat /\ d * b \in Nat /\ d * b <= a * ONE
    BY DivTruncates
  <1>2. a * ONE < d * b + b BY <1>1, Quotient, Zenon DEF Div
  <1> HIDE DEF d
  <1>3. a * ONE + 1 <= d * b + b BY <1>1, <1>2
  <1> QED BY <1>1, <1>3 DEF d

(* The whole tokens of a Number leave less than one.                       *)
LEMMA WholePart ==
  ASSUME NEW a \in Nat
  PROVE  /\ AsU64(a) \in Nat /\ AsU64(a) * ONE \in Nat
         /\ AsU64(a) * ONE <= a /\ a + 1 <= AsU64(a) * ONE + ONE
  <1> DEFINE n == AsU64(a)
  <1>1. n \in Nat /\ n * ONE <= a /\ a < n * ONE + ONE
    BY Quotient, ONEAssumption DEF AsU64
  <1> HIDE DEF n
  <1>2. n * ONE \in Nat BY <1>1, Product, ONEAssumption
  <1>3. a + 1 <= n * ONE + ONE BY <1>1, <1>2, ONEAssumption
  <1> QED BY <1>1, <1>2, <1>3 DEF n

(* Rounding up gives up to a token more.                                   *)
LEMMA RoundedUp ==
  ASSUME NEW a \in Nat
  PROVE  a <= FromU64(AsU64Ceil(a))
  <1> DEFINE b == a + ONE - 1
             n == AsU64Ceil(a)
  <1>1. b \in Nat BY ONEAssumption
  <1> HIDE DEF b
  <1>2. n \in Nat /\ b < n * ONE + ONE
    BY <1>1, Quotient, ONEAssumption DEF AsU64Ceil, b
  <1> HIDE DEF n
  <1>3. n * ONE \in Nat BY <1>2, Product, ONEAssumption
  <1>4. a <= n * ONE BY <1>2, <1>3, ONEAssumption DEF b
  <1> QED BY <1>4 DEF FromU64, n

-----------------------------------------------------------------------------
(* The operators of Reserve.tla map well-typed states to well-typed states.*)

(* An exchange rate is never computed by dividing by zero. *)
LEMMA ExchangeRateNat ==
  ASSUME NEW token_supply \in Nat, NEW note_supply \in Nat
  PROVE  ExchangeRate(token_supply, note_supply) \in Nat
  <1>1. FromU64(note_supply) \in Nat BY ConversionNat
  <1>2. /\ OneIfZero(token_supply) \in Nat
        /\ OneIfZero(FromU64(note_supply)) \in Nat \ {0}
    BY <1>1, ONEAssumption DEF OneIfZero
  <1> QED BY <1>2, DivNat DEF ExchangeRate

(* Notes are converted to tokens at any rate, tokens to notes at any but zero. *)
LEMMA NotesNat ==
  ASSUME NEW n \in Nat, NEW rate \in Nat, NEW rounding
  PROVE  /\ TokensFromNotes(n, rate, rounding) \in Nat
         /\ rate > 0 => NotesFromTokens(n, rate, rounding) \in Nat
  <1>1. FromU64(n) \in Nat BY ConversionNat
  <1>2. TokensFromNotes(n, rate, rounding) \in Nat
    BY <1>1, MulNat, ConversionNat, Zenon DEF TokensFromNotes
  <1>3. rate > 0 => NotesFromTokens(n, rate, rounding) \in Nat
    BY <1>1, DivNat, ConversionNat DEF NotesFromTokens
  <1> QED BY <1>2, <1>3

(* What Amount converts to is a u64 wherever the conversion does not fail. *)
LEMMA AmountsNat ==
  ASSUME NEW amount \in Amounts, NEW info \in CachedReserveInfo, NEW rounding
  PROVE  /\ AsTokens(amount, info, rounding) \in Nat
         /\ HasDepositNotes(amount, info) => AsDepositNotes(amount, info, rounding) \in Nat
         /\ HasLoanNotes(amount, info) => AsLoanNotes(amount, info, rounding) \in Nat
  <1>1. amount \in [units : Units, value : Nat] BY InputsAssumption
  <1>2. /\ info.deposit_note_exchange_rate \in Nat
        /\ info.loan_note_exchange_rate \in Nat
    BY DEF CachedReserveInfo
  <1>3. AsTokens(amount, info, rounding) \in Nat
    BY <1>1, <1>2, NotesNat DEF AsTokens, Units
  <1>4. HasDepositNotes(amount, info) => AsDepositNotes(amount, info, rounding) \in Nat
    BY <1>1, <1>2, NotesNat DEF HasDepositNotes, AsDepositNotes
  <1>5. HasLoanNotes(amount, info) => AsLoanNotes(amount, info, rounding) \in Nat
    BY <1>1, <1>2, NotesNat DEF HasLoanNotes, AsLoanNotes
  <1> QED BY <1>3, <1>4, <1>5

(* Recording a deposit, a withdrawal, a loan or a repayment that passes    *)
(* its checks leaves no total below zero.                                  *)
LEMMA RecordsTyped ==
  ASSUME NEW s \in ReserveState, NEW t \in Nat, NEW n \in Nat, NEW fees \in Nat,
         NEW current_slot
  PROVE  /\ RecordDeposit(s, t, n) \in ReserveState
         /\ CanWithdraw(s, t, n) => RecordWithdraw(s, t, n) \in ReserveState
         /\ CanBorrow(s, current_slot, t) => RecordBorrow(s, t, n, fees) \in ReserveState
         /\ CanRepay(s, current_slot, t, n) => RecordRepay(s, t, n) \in ReserveState
  <1>1. FromU64(t) \in Nat /\ FromU64(fees) \in Nat BY ConversionNat
  <1>2. RecordDeposit(s, t, n) \in ReserveState
    <2>1. s.total_deposits + t \in Nat /\ s.total_deposit_notes + n \in Nat
      BY DEF ReserveState
    <2> QED BY <2>1, Zenon DEF RecordDeposit, ReserveState
  <1>3. CanWithdraw(s, t, n) => RecordWithdraw(s, t, n) \in ReserveState
    <2> SUFFICES ASSUME CanWithdraw(s, t, n)
                 PROVE  RecordWithdraw(s, t, n) \in ReserveState
      OBVIOUS
    <2>1. s.total_deposits - t \in Nat /\ s.total_deposit_notes - n \in Nat
      BY DEF CanWithdraw, ReserveState
    <2> QED BY <2>1, Zenon DEF RecordWithdraw, ReserveState
  <1>4. CanBorrow(s, current_slot, t) => RecordBorrow(s, t, n, fees) \in ReserveState
    <2> SUFFICES ASSUME CanBorrow(s, current_slot, t)
                 PROVE  RecordBorrow(s, t, n, fees) \in ReserveState
      OBVIOUS
    <2>1. /\ s.uncollected_fees + FromU64(fees) \in Nat
          /\ s.outstanding_debt + FromU64(t) + FromU64(fees) \in Nat
          /\ s.total_deposits - t \in Nat
          /\ s.total_loan_notes + n \in Nat
      BY <1>1 DEF CanBorrow, ReserveState
    <2> QED BY <2>1, Zenon DEF RecordBorrow, ReserveState
  <1>5. CanRepay(s, current_slot, t, n) => RecordRepay(s, t, n) \in ReserveState
    <2> SUFFICES ASSUME CanRepay(s, current_slot, t, n)
                 PROVE  RecordRepay(s, t, n) \in ReserveState
      OBVIOUS
    <2>1. /\ s.outstanding_debt - FromU64(t) \in Nat
          /\ s.total_loan_notes - n \in Nat
          /\ s.total_deposits + t \in Nat
      BY <1>1 DEF CanRepay, ReserveState
    <2> QED BY <2>1, Zenon DEF RecordRepay, ReserveState
  <1> QED BY <1>2, <1>3, <1>4, <1>5

(* Accruing interest up to a time not before the last accrual. *)
LEMMA AccrueInterestTyped ==
  ASSUME NEW s \in ReserveState, NEW compound_rate \in Nat, NEW manage_fee_rate \in Nat,
         NEW target_time \in Nat, NEW target_slot \in Nat,
         TimeBehind(s, target_time) >= 0
  PROVE  /\ AccrueInterest(s, compound_rate, manage_fee_rate, target_time, target_slot)
                \in ReserveState
         /\ IsFull(s, target_time) =>
                LET accrued == AccrueInterest(s, compound_rate, manage_fee_rate,
                                              target_time, target_slot)
                IN  accrued.last_updated = target_slot /\ ~accrued.invalidated
         /\ ~IsFull(s, target_time) =>
                LET accrued == AccrueInterest(s, compound_rate, manage_fee_rate,
                                              target_time, target_slot)
                IN  accrued.last_updated = s.last_updated /\ accrued.invalidated
  <1> DEFINE interest == Interest(s, compound_rate, target_time)
             a == Accrued(s, compound_rate, manage_fee_rate, target_time)
  <1>1. TimeToAccrue(s, target_time) \in Nat
    BY MaxAccrualAssumption DEF TimeToAccrue, TimeBehind, Least, ReserveState
  <1>2. interest \in Nat BY MulNat, Zenon DEF Interest, ReserveState
  <1>3. Mul(interest, manage_fee_rate) \in Nat BY <1>2, MulNat, Zenon
  <1>4. a \in ReserveState /\ a.last_updated = s.last_updated
    <2>1. /\ s.outstanding_debt + interest \in Nat
          /\ s.uncollected_fees + Mul(interest, manage_fee_rate) \in Nat
          /\ s.accrued_until + TimeToAccrue(s, target_time) \in Nat
      BY <1>1, <1>2, <1>3 DEF ReserveState
    <2> QED BY <2>1, Zenon DEF Accrued, ReserveState
  <1> QED BY <1>4, Zenon DEF AccrueInterest, RefreshTo, Invalidate, ReserveState

(* Collecting the fees, at a rate that is not zero if there are any. *)
LEMMA CollectAccruedFeesTyped ==
  ASSUME NEW s \in ReserveState, NEW threshold \in Nat, NEW exchange_rate \in Nat,
         CollectsFees(s, threshold) => exchange_rate > 0
  PROVE  /\ FeeNotes(s, threshold, exchange_rate) \in Nat
         /\ CollectAccruedFees(s, threshold, exchange_rate) \in ReserveState
  <1>1. FeeNotes(s, threshold, exchange_rate) \in Nat
    <2>1. CASE CollectsFees(s, threshold)
      <3>1. Div(s.uncollected_fees, exchange_rate) \in Nat
        BY <2>1, DivNat DEF ReserveState
      <3> QED BY <2>1, <3>1, ConversionNat DEF FeeNotes
    <2>2. CASE ~CollectsFees(s, threshold) BY <2>2 DEF FeeNotes
    <2> QED BY <2>1, <2>2
  <1>2. CollectAccruedFees(s, threshold, exchange_rate) \in ReserveState
    <2>1. s.total_deposit_notes + FeeNotes(s, threshold, exchange_rate) \in Nat
      BY <1>1 DEF ReserveState
    <2> QED BY <2>1, Zenon DEF CollectAccruedFees, ReserveState
  <1> QED BY <1>1, <1>2
-----------------------------------------------------------------------------
(* TypeOK: initially, and after each action.                               *)

(* A created market is well typed. *)
LEMMA InitTypeOK == Init => TypeOK
  <1> SUFFICES ASSUME Init PROVE TypeOK
    OBVIOUS
  <1>1. NewReserve(0) \in ReserveState BY DEF NewReserve, ReserveState
  <1>2. NewReserveInfo \in CachedReserveInfo BY DEF NewReserveInfo, CachedReserveInfo
  <1>3. NewObligation \in ObligationState BY DEF NewObligation, ObligationState
  <1>4. config \in [Reserves -> Config] BY InputsAssumption DEF Init
  <1>5. wallet \in [Reserves -> [Users -> Nat]] /\ slot \in Nat
    BY InputsAssumption DEF Init
  <1>6. flags \subseteq Flags BY DEF Init
  <1> QED BY <1>1, <1>2, <1>3, <1>4, <1>5, <1>6 DEF Init, TypeOK, NoNotes

(* Time, flags and configurations. *)
LEMMA OwnerTypeOK ==
  ASSUME TypeOK,
         \/ Tick
         \/ \E f \in FlagSettings : SetMarketFlags(f)
         \/ \E r \in Reserves, c \in Configs : UpdateReserveConfig(r, c)
  PROVE  TypeOK'
  <1>1. CASE Tick
    <2>1. slot' \in Nat /\ unix_timestamp' \in Nat
      BY <1>1, InputsAssumption DEF Tick, TypeOK
    <2> QED BY <1>1, <2>1 DEF Tick, TypeOK, settings, accounts, tokens, deposit_notes, loan_notes
  <1>2. ASSUME NEW f \in FlagSettings, SetMarketFlags(f) PROVE TypeOK'
    <2>1. flags' \subseteq Flags BY <1>2, InputsAssumption DEF SetMarketFlags
    <2> QED BY <1>2, <2>1 DEF SetMarketFlags, TypeOK, clock, accounts, tokens,
                              deposit_notes, loan_notes
  <1>3. ASSUME NEW r \in Reserves, NEW c \in Configs, UpdateReserveConfig(r, c) PROVE TypeOK'
    <2>1. config' \in [Reserves -> Config]
      BY <1>3, InputsAssumption DEF UpdateReserveConfig, TypeOK
    <2> QED BY <1>3, <2>1 DEF UpdateReserveConfig, TypeOK, clock, accounts, tokens,
                              deposit_notes, loan_notes
  <1> QED BY <1>1, <1>2, <1>3

(* Registering and unregistering positions keeps an obligation typed. *)
LEMMA RegistersTyped ==
  ASSUME NEW o \in ObligationState, NEW r \in Reserves
  PROVE  /\ RegisterCollateral(o, r) \in ObligationState
         /\ RegisterLoan(o, r) \in ObligationState
         /\ UnregisterCollateral(o, r) \in ObligationState
         /\ UnregisterLoan(o, r) \in ObligationState
  BY DEF ObligationState, RegisterCollateral, RegisterLoan, UnregisterCollateral, UnregisterLoan

(* So does adding notes to a position, and taking as many off as there are.*)
LEMMA PositionsTyped ==
  ASSUME NEW o \in ObligationState, NEW r \in Reserves, NEW n \in Nat
  PROVE  /\ AddCollateral(o, r, NoteAmount(n)) \in ObligationState
         /\ AddLoan(o, r, NoteAmount(n)) \in ObligationState
         /\ SubtractCollateral(o, r, NoteAmount(n)) \in ObligationState
         /\ SubtractLoan(o, r, NoteAmount(n)) \in ObligationState
  <1>1. NoteAmount(n) \in Nat BY ConversionNat DEF NoteAmount
  <1>2. ASSUME NEW b \in Nat
        PROVE  b + NoteAmount(n) \in Nat /\ SaturatingSub(b, NoteAmount(n)) \in Nat
    BY <1>1 DEF SaturatingSub
  <1>3. /\ o.collateral[r] + NoteAmount(n) \in Nat
        /\ o.loans[r] + NoteAmount(n) \in Nat
        /\ SaturatingSub(o.collateral[r], NoteAmount(n)) \in Nat
        /\ SaturatingSub(o.loans[r], NoteAmount(n)) \in Nat
    <2>1. o.collateral[r] \in Nat /\ o.loans[r] \in Nat BY DEF ObligationState
    <2> QED BY <1>2, <2>1
  <1>4. AddCollateral(o, r, NoteAmount(n)) \in ObligationState
    BY <1>3 DEF ObligationState, AddCollateral
  <1>5. AddLoan(o, r, NoteAmount(n)) \in ObligationState
    BY <1>3 DEF ObligationState, AddLoan
  <1>6. SubtractCollateral(o, r, NoteAmount(n)) \in ObligationState
    BY <1>3 DEF ObligationState, SubtractCollateral
  <1>7. SubtractLoan(o, r, NoteAmount(n)) \in ObligationState
    BY <1>3 DEF ObligationState, SubtractLoan
  <1> QED BY <1>4, <1>5, <1>6, <1>7

(* Creating and closing an obligation. *)
LEMMA ObligationTypeOK ==
  ASSUME TypeOK, NEW u \in Users, InitObligation(u) \/ CloseObligation(u)
  PROVE  TypeOK'
  <1>1. NewObligation \in ObligationState BY DEF NewObligation, ObligationState
  <1>2. obligation' \in [Users -> ObligationState] /\ obligations' \subseteq Users
    BY <1>1, Zenon DEF TypeOK, InitObligation, CloseObligation
  <1>3. UNCHANGED <<clock, settings, reserve, reserve_info, deposit_accounts, tokens,
                    deposit_notes, loan_notes>>
    BY DEF InitObligation, CloseObligation
  <1> QED BY <1>2, <1>3 DEF TypeOK, clock, settings, tokens, deposit_notes, loan_notes

(* Opening and closing its accounts, and opening a deposit account. *)
LEMMA AccountTypeOK ==
  ASSUME TypeOK, NEW u \in Users, NEW r \in Reserves,
         \/ InitDepositAccount(u, r)
         \/ InitCollateralAccount(u, r) \/ CloseCollateralAccount(u, r)
         \/ InitLoanAccount(u, r) \/ CloseLoanAccount(u, r)
  PROVE  TypeOK'
  <1>1. obligation' \in [Users -> ObligationState]
    <2>1. obligation[u] \in ObligationState BY DEF TypeOK
    <2>2. /\ RegisterCollateral(obligation[u], r) \in ObligationState
          /\ RegisterLoan(obligation[u], r) \in ObligationState
          /\ UnregisterCollateral(obligation[u], r) \in ObligationState
          /\ UnregisterLoan(obligation[u], r) \in ObligationState
      BY <2>1, RegistersTyped
    <2>3. \/ UNCHANGED obligation
          \/ \E o \in ObligationState : obligation' = [obligation EXCEPT ![u] = o]
      BY <2>2 DEF InitDepositAccount, InitCollateralAccount, CloseCollateralAccount,
                  InitLoanAccount, CloseLoanAccount
    <2> QED BY <2>3, Zenon DEF TypeOK
  <1>2. obligations' \subseteq Users /\ deposit_accounts' \subseteq Users \X Reserves
    BY DEF TypeOK, InitDepositAccount, InitCollateralAccount, CloseCollateralAccount,
           InitLoanAccount, CloseLoanAccount, accounts
  <1>3. UNCHANGED <<clock, settings, reserve, reserve_info, tokens, deposit_notes, loan_notes>>
    BY DEF InitDepositAccount, InitCollateralAccount, CloseCollateralAccount,
           InitLoanAccount, CloseLoanAccount
  <1> QED BY <1>1, <1>2, <1>3 DEF TypeOK, clock, settings, tokens, deposit_notes, loan_notes

(* The fees a refresh mints notes for, when it brings r up to date.        *)
LEMMA FeeNotesNat ==
  ASSUME TypeOK, NEW r \in Reserves, NEW price \in Prices, NEW x \in AccrualRates,
         RefreshReserve(r, price, x), IsFull(reserve[r], unix_timestamp)
  PROVE  LET accrued == AccrueInterest(reserve[r], x, config[r].manage_fee_rate,
                                       unix_timestamp, slot)
             rate == DepositNoteExchangeRate(accrued)
             threshold == FromU64(config[r].manage_fee_collection_threshold)
         IN  /\ accrued \in ReserveState /\ rate \in Nat
             /\ FeeNotes(accrued, threshold, rate) \in Nat
             /\ CollectAccruedFees(accrued, threshold, rate) \in ReserveState
  <1> DEFINE accrued == AccrueInterest(reserve[r], x, config[r].manage_fee_rate,
                                       unix_timestamp, slot)
             rate == DepositNoteExchangeRate(accrued)
             threshold == FromU64(config[r].manage_fee_collection_threshold)
  <1>1. /\ reserve[r] \in ReserveState /\ config[r] \in Config
        /\ unix_timestamp \in Nat /\ slot \in Nat /\ x \in Nat
    BY InputsAssumption DEF TypeOK
  <1>2. /\ DepositNoteValue(accrued) >= 0
        /\ CollectsFees(accrued, threshold) => rate > 0
        /\ TimeBehind(reserve[r], unix_timestamp) >= 0
    BY DEF RefreshReserve
  <1>3. accrued \in ReserveState BY <1>1, <1>2, AccrueInterestTyped, Zenon DEF Config
  <1>4. threshold \in Nat BY <1>1, ConversionNat DEF Config
  <1>5. DepositNoteValue(accrued) \in Nat
    <2>1. FromU64(accrued.total_deposits) \in Nat
      BY <1>3, ConversionNat DEF ReserveState
    <2> QED BY <1>2, <1>3, <2>1 DEF DepositNoteValue, ReserveState
  <1>6. rate \in Nat
    BY <1>3, <1>5, ExchangeRateNat, Zenon DEF DepositNoteExchangeRate, ReserveState
  <1> QED BY <1>2, <1>3, <1>4, <1>6, CollectAccruedFeesTyped

(* A refresh, which subtracts the fees from what the notes are worth. *)
LEMMA RefreshTypeOK ==
  ASSUME TypeOK, NEW r \in Reserves, NEW price \in Prices, NEW x \in AccrualRates,
         RefreshReserve(r, price, x)
  PROVE  TypeOK'
  <1> DEFINE accrued == AccrueInterest(reserve[r], x, config[r].manage_fee_rate,
                                       unix_timestamp, slot)
             rate == DepositNoteExchangeRate(accrued)
             threshold == FromU64(config[r].manage_fee_collection_threshold)
             fee_notes == FeeNotes(accrued, threshold, rate)
  <1>1. /\ reserve[r] \in ReserveState /\ reserve_info[r] \in CachedReserveInfo
        /\ config[r] \in Config /\ unix_timestamp \in Nat /\ slot \in Nat
        /\ price \in Nat /\ x \in Nat
    BY InputsAssumption DEF TypeOK
  <1>2. accrued \in ReserveState
    BY <1>1, AccrueInterestTyped, Zenon DEF RefreshReserve, Config
  <1>3. UNCHANGED <<clock, settings, accounts, obligation, tokens, loan_notes>>
    BY DEF RefreshReserve
  <1>4. CASE ~IsFull(reserve[r], unix_timestamp)
    <2>1. /\ reserve' = [reserve EXCEPT ![r] = accrued]
          /\ reserve_info' = [reserve_info EXCEPT ![r] = Invalidate(reserve_info[r])]
          /\ UNCHANGED deposit_notes
      BY <1>4 DEF RefreshReserve
    <2>2. Invalidate(reserve_info[r]) \in CachedReserveInfo
      BY <1>1, Zenon DEF Invalidate, CachedReserveInfo
    <2> QED BY <1>2, <1>3, <2>1, <2>2
            DEF TypeOK, clock, settings, accounts, tokens, deposit_notes, loan_notes
  <1>5. CASE IsFull(reserve[r], unix_timestamp)
    <2>1. /\ DepositNoteValue(accrued) >= 0
          /\ CollectsFees(accrued, threshold) => rate > 0
          /\ reserve' = [reserve EXCEPT ![r] = CollectAccruedFees(accrued, threshold, rate)]
          /\ reserve_info' = [reserve_info EXCEPT ![r] = UpToDateInfo(r, accrued, price)]
          /\ fee_note_vault' = [fee_note_vault EXCEPT ![r] = @ + fee_notes]
          /\ deposit_note_mint' = [deposit_note_mint EXCEPT ![r] = @ + fee_notes]
          /\ UNCHANGED <<deposit_account, collateral_account>>
      BY <1>5 DEF RefreshReserve
    <2>2. LoanNoteExchangeRate(accrued) \in Nat
      BY <1>2, ExchangeRateNat, Zenon DEF LoanNoteExchangeRate, ReserveState
    <2>3. /\ fee_notes \in Nat /\ rate \in Nat
          /\ CollectAccruedFees(accrued, threshold, rate) \in ReserveState
      BY <1>5, FeeNotesNat
    <2>4. UpToDateInfo(r, accrued, price) \in CachedReserveInfo
      BY <1>1, <2>2, <2>3, Zenon DEF UpToDateInfo, RefreshTo, CachedReserveInfo, Config
    <2>5. /\ fee_note_vault' \in [Reserves -> Nat]
          /\ deposit_note_mint' \in [Reserves -> Nat]
      BY <2>1, <2>3 DEF TypeOK
    <2> QED BY <1>3, <2>1, <2>3, <2>4, <2>5
            DEF TypeOK, clock, settings, accounts, tokens, loan_notes
  <1> QED BY <1>4, <1>5

(* Setting one user's balance keeps all balances natural numbers. *)
LEMMA BalanceTyped ==
  ASSUME NEW f \in [Reserves -> [Users -> Nat]], NEW r \in Reserves, NEW u \in Users,
         NEW n \in Nat
  PROVE  [f EXCEPT ![r][u] = n] \in [Reserves -> [Users -> Nat]]
  <1>1. [f[r] EXCEPT ![u] = n] \in [Users -> Nat] OBVIOUS
  <1> QED BY <1>1

(* A deposit, wherever its notes go. *)
LEMMA DepositTypeOK ==
  ASSUME TypeOK, NEW u \in Users, NEW to \in Users, NEW r \in Reserves,
         NEW amount \in Amounts, DepositTokens(u, r, amount, to)
  PROVE  TypeOK'
  <1> DEFINE token_amount == AsTokens(amount, reserve_info[r], "Up")
             note_amount  == AsDepositNotes(amount, reserve_info[r], "Down")
  <1>1. reserve[r] \in ReserveState /\ reserve_info[r] \in CachedReserveInfo
    BY DEF TypeOK
  <1>2. token_amount \in Nat /\ note_amount \in Nat
    BY <1>1, AmountsNat DEF DepositTokens
  <1>3. RecordDeposit(reserve[r], token_amount, note_amount) \in ReserveState
    BY <1>1, <1>2, RecordsTyped, Zenon
  <1>4. reserve' \in [Reserves -> ReserveState]
    BY <1>3 DEF DepositTokens, TypeOK
  <1>5. /\ wallet' \in [Reserves -> [Users -> Nat]]
        /\ vault' \in [Reserves -> Nat]
        /\ deposit_note_mint' \in [Reserves -> Nat]
    <2>1. wallet[r][u] \in Nat /\ vault[r] \in Nat /\ deposit_note_mint[r] \in Nat
      BY DEF TypeOK
    <2>2. token_amount <= wallet[r][u] BY DEF DepositTokens
    <2>3. wallet[r][u] - token_amount \in Nat /\ vault[r] + token_amount \in Nat
          /\ deposit_note_mint[r] + note_amount \in Nat
      BY <1>2, <2>1, <2>2
    <2>4. /\ wallet' = [wallet EXCEPT ![r][u] = @ - token_amount]
          /\ vault' = [vault EXCEPT ![r] = @ + token_amount]
          /\ deposit_note_mint' = [deposit_note_mint EXCEPT ![r] = @ + note_amount]
      BY DEF DepositTokens
    <2> QED BY <2>3, <2>4 DEF TypeOK
  <1>6. /\ deposit_account' \in [Reserves -> [Users -> Nat]]
        /\ collateral_account' \in [Reserves -> [Users -> Nat]]
        /\ UNCHANGED fee_note_vault
    <2>1. deposit_account[r][to] + note_amount \in Nat
          /\ collateral_account[r][to] + note_amount \in Nat
      <3>1. deposit_account[r][to] \in Nat /\ collateral_account[r][to] \in Nat
        BY DEF TypeOK
      <3> QED BY <1>2, <3>1
    <2>2. \/ /\ deposit_account' = [deposit_account EXCEPT ![r][to] = @ + note_amount]
             /\ UNCHANGED <<collateral_account, fee_note_vault>>
          \/ /\ collateral_account' = [collateral_account EXCEPT ![r][to] = @ + note_amount]
             /\ UNCHANGED <<deposit_account, fee_note_vault>>
      BY DEF DepositTokens, IntoDepositAccount, IntoCollateralAccount
    <2>3. /\ deposit_account \in [Reserves -> [Users -> Nat]]
          /\ collateral_account \in [Reserves -> [Users -> Nat]]
      BY DEF TypeOK
    <2>4. [deposit_account EXCEPT ![r][to] = @ + note_amount] \in [Reserves -> [Users -> Nat]]
      BY <2>1, <2>3, BalanceTyped
    <2>5. [collateral_account EXCEPT ![r][to] = @ + note_amount] \in [Reserves -> [Users -> Nat]]
      BY <2>1, <2>3, BalanceTyped
    <2> QED BY <2>2, <2>3, <2>4, <2>5, Zenon
  <1>7. UNCHANGED <<clock, settings, reserve_info, accounts, obligation, loan_notes>>
    BY DEF DepositTokens
  <1> QED BY <1>4, <1>5, <1>6, <1>7 DEF TypeOK, clock, settings, accounts, loan_notes

(* Paying tokens out of a vault that holds them. *)
LEMMA PayFromVaultTyped ==
  ASSUME TypeOK, NEW u \in Users, NEW r \in Reserves, NEW token_amount \in Nat,
         token_amount <= vault[r], PayFromVault(r, u, token_amount)
  PROVE  wallet' \in [Reserves -> [Users -> Nat]] /\ vault' \in [Reserves -> Nat]
  <1>1. /\ wallet \in [Reserves -> [Users -> Nat]] /\ vault \in [Reserves -> Nat]
        /\ wallet[r][u] + token_amount \in Nat /\ vault[r] - token_amount \in Nat
    BY DEF TypeOK
  <1>2. [wallet EXCEPT ![r][u] = @ + token_amount] \in [Reserves -> [Users -> Nat]]
    BY <1>1, BalanceTyped
  <1> QED BY <1>1, <1>2, Zenon DEF PayFromVault, tokens

(* Burning notes a deposit account holds. *)
LEMMA BurnDepositNotesTyped ==
  ASSUME TypeOK, NEW u \in Users, NEW r \in Reserves, NEW note_amount \in Nat,
         note_amount <= deposit_account[r][u], note_amount <= deposit_note_mint[r],
         BurnDepositNotes(r, u, note_amount)
  PROVE  /\ deposit_account' \in [Reserves -> [Users -> Nat]]
         /\ deposit_note_mint' \in [Reserves -> Nat]
         /\ UNCHANGED <<collateral_account, fee_note_vault>>
  <1>1. /\ deposit_account \in [Reserves -> [Users -> Nat]]
        /\ deposit_note_mint \in [Reserves -> Nat]
        /\ deposit_account[r][u] - note_amount \in Nat
        /\ deposit_note_mint[r] - note_amount \in Nat
    BY DEF TypeOK
  <1>2. [deposit_account EXCEPT ![r][u] = @ - note_amount] \in [Reserves -> [Users -> Nat]]
    BY <1>1, BalanceTyped
  <1> QED BY <1>1, <1>2 DEF BurnDepositNotes

(* What keeps a burn from taking more notes than a mint has: either the    *)
(* totals the handlers compare it with are the supplies, or no account     *)
(* holds more than the supply.  The former fails once a DEX liquidation    *)
(* has left the totals behind (DexProofs), and then the latter is used.    *)
BurnsCovered ==
    \/ TotalsMatchMints
    \/ \A r \in Reserves, u \in Users :
          /\ deposit_account[r][u] <= deposit_note_mint[r]
          /\ loan_account[r][u] <= loan_note_mint[r]

(* A withdrawal, or the close of a deposit account that still holds notes, *)
(* burns no more notes than the mint has.                                  *)
LEMMA WithdrawTypeOK ==
  ASSUME TypeOK, BurnsCovered, NEW u \in Users, NEW r \in Reserves,
         \/ \E amount \in Amounts : WithdrawTokens(u, r, amount)
         \/ CloseDepositAccount(u, r)
  PROVE  TypeOK'
  <1>1. ASSUME NEW token_amount \in Nat, NEW note_amount \in Nat,
               CanWithdraw(reserve[r], token_amount, note_amount),
               token_amount <= vault[r], note_amount <= deposit_account[r][u],
               reserve' = [reserve EXCEPT ![r] =
                               RecordWithdraw(@, token_amount, note_amount)],
               PayFromVault(r, u, token_amount), BurnDepositNotes(r, u, note_amount),
               deposit_accounts' \subseteq deposit_accounts,
               UNCHANGED <<clock, settings, reserve_info, obligations, obligation, loan_notes>>
        PROVE  TypeOK'
    <2>1. RecordWithdraw(reserve[r], token_amount, note_amount) \in ReserveState
      BY <1>1, RecordsTyped, Zenon DEF TypeOK
    <2>2. reserve' \in [Reserves -> ReserveState] BY <1>1, <2>1 DEF TypeOK
    <2>3. wallet' \in [Reserves -> [Users -> Nat]] /\ vault' \in [Reserves -> Nat]
      BY <1>1, PayFromVaultTyped
    <2>4. note_amount <= deposit_note_mint[r]
      BY <1>1 DEF CanWithdraw, BurnsCovered, TotalsMatchMints, TypeOK
    <2>5. /\ deposit_account' \in [Reserves -> [Users -> Nat]]
          /\ deposit_note_mint' \in [Reserves -> Nat]
          /\ UNCHANGED <<collateral_account, fee_note_vault>>
      BY <1>1, <2>4, BurnDepositNotesTyped
    <2> QED BY <1>1, <2>2, <2>3, <2>5 DEF TypeOK, clock, settings, loan_notes
  <1>2. reserve_info[r] \in CachedReserveInfo /\ deposit_account[r][u] \in Nat
    BY DEF TypeOK
  <1>3. ASSUME NEW amount \in Amounts, WithdrawTokens(u, r, amount) PROVE TypeOK'
    <2> DEFINE token_amount == AsTokens(amount, reserve_info[r], "Down")
               note_amount  == AsDepositNotes(amount, reserve_info[r], "Up")
    <2>1. token_amount \in Nat /\ note_amount \in Nat
      BY <1>2, <1>3, AmountsNat DEF WithdrawTokens
    <2> HIDE DEF token_amount, note_amount
    <2>2. /\ CanWithdraw(reserve[r], token_amount, note_amount)
          /\ token_amount <= vault[r] /\ note_amount <= deposit_account[r][u]
          /\ reserve' = [reserve EXCEPT ![r] = RecordWithdraw(@, token_amount, note_amount)]
          /\ PayFromVault(r, u, token_amount) /\ BurnDepositNotes(r, u, note_amount)
          /\ deposit_accounts' \subseteq deposit_accounts
          /\ UNCHANGED <<clock, settings, reserve_info, obligations, obligation, loan_notes>>
      BY <1>3 DEF WithdrawTokens, accounts, token_amount, note_amount
    <2> QED BY <1>1, <2>1, <2>2, Zenon
  <1>4. CASE CloseDepositAccount(u, r)
    <2> DEFINE notes_remaining == deposit_account[r][u]
               tokens_to_withdraw == TokensFromNotes(notes_remaining,
                   reserve_info[r].deposit_note_exchange_rate, "Down")
    <2>1. notes_remaining \in Nat /\ tokens_to_withdraw \in Nat
      BY <1>2, NotesNat DEF CachedReserveInfo
    <2>2. /\ deposit_accounts' \subseteq deposit_accounts
          /\ UNCHANGED <<clock, settings, reserve_info, obligations, obligation, loan_notes>>
      BY <1>4 DEF CloseDepositAccount
    <2>3. CASE UNCHANGED <<reserve, tokens, deposit_notes>>
      BY <2>2, <2>3 DEF TypeOK, clock, settings, tokens, deposit_notes, loan_notes
    <2>4. CASE ~UNCHANGED <<reserve, tokens, deposit_notes>>
      <3>1. /\ CanWithdraw(reserve[r], tokens_to_withdraw, notes_remaining)
            /\ tokens_to_withdraw <= vault[r] /\ notes_remaining <= deposit_account[r][u]
            /\ reserve' = [reserve EXCEPT ![r] =
                               RecordWithdraw(@, tokens_to_withdraw, notes_remaining)]
            /\ PayFromVault(r, u, tokens_to_withdraw)
            /\ BurnDepositNotes(r, u, notes_remaining)
        BY <1>2, <1>4, <2>4 DEF CloseDepositAccount
      <3> HIDE DEF notes_remaining, tokens_to_withdraw
      <3> QED BY <1>1, <2>1, <2>2, <3>1, Zenon
    <2> QED BY <2>3, <2>4
  <1> QED BY <1>3, <1>4

(* Notes moved between a deposit and a collateral account. *)
LEMMA CollateralTypeOK ==
  ASSUME TypeOK, NEW u \in Users, NEW r \in Reserves, NEW amount \in Amounts,
         DepositCollateral(u, r, amount) \/ WithdrawCollateral(u, r, amount)
  PROVE  TypeOK'
  <1>1. /\ reserve_info[r] \in CachedReserveInfo /\ obligation[u] \in ObligationState
        /\ deposit_account \in [Reserves -> [Users -> Nat]]
        /\ collateral_account \in [Reserves -> [Users -> Nat]]
    BY DEF TypeOK
  <1>2. CASE DepositCollateral(u, r, amount)
    <2> DEFINE note_amount == AsDepositNotes(amount, reserve_info[r], "Down")
    <2>1. note_amount \in Nat BY <1>1, <1>2, AmountsNat DEF DepositCollateral
    <2>2. deposit_account[r][u] - note_amount \in Nat
      BY <1>1, <1>2, <2>1 DEF DepositCollateral
    <2>3. collateral_account[r][u] + note_amount \in Nat BY <1>1, <2>1
    <2>4. [deposit_account EXCEPT ![r][u] = @ - note_amount] \in [Reserves -> [Users -> Nat]]
      BY <1>1, <2>2, BalanceTyped
    <2>5. [collateral_account EXCEPT ![r][u] = @ + note_amount] \in [Reserves -> [Users -> Nat]]
      BY <1>1, <2>3, BalanceTyped
    <2>6. AddCollateral(obligation[u], r, NoteAmount(note_amount)) \in ObligationState
      BY <1>1, <2>1, PositionsTyped
    <2> QED BY <1>2, <2>4, <2>5, <2>6
            DEF DepositCollateral, TypeOK, clock, settings, accounts, tokens, loan_notes
  <1>3. CASE WithdrawCollateral(u, r, amount)
    <2> DEFINE note_amount == AsDepositNotes(amount, reserve_info[r], "Up")
    <2>1. note_amount \in Nat BY <1>1, <1>3, AmountsNat DEF WithdrawCollateral
    <2>2. collateral_account[r][u] - note_amount \in Nat
      BY <1>1, <1>3, <2>1 DEF WithdrawCollateral
    <2>3. deposit_account[r][u] + note_amount \in Nat BY <1>1, <2>1
    <2>4. [deposit_account EXCEPT ![r][u] = @ + note_amount] \in [Reserves -> [Users -> Nat]]
      BY <1>1, <2>3, BalanceTyped
    <2>5. [collateral_account EXCEPT ![r][u] = @ - note_amount] \in [Reserves -> [Users -> Nat]]
      BY <1>1, <2>2, BalanceTyped
    <2>6. SubtractCollateral(obligation[u], r, NoteAmount(note_amount)) \in ObligationState
      BY <1>1, <2>1, PositionsTyped
    <2> QED BY <1>3, <2>4, <2>5, <2>6
            DEF WithdrawCollateral, TypeOK, clock, settings, accounts, tokens, loan_notes
  <1> QED BY <1>2, <1>3

(* The notes of a loan: those of the tokens and the origination fee. *)
LEMMA NewNotesNat ==
  ASSUME TypeOK, NEW r \in Reserves, NEW a \in Amounts, NEW fee_rate \in Nat,
         reserve_info[r].loan_note_exchange_rate > 0
  PROVE  LET t == AsTokens(a, reserve_info[r], "Down")
         IN  NotesFromTokens(t + BorrowFee(fee_rate, t),
                 reserve_info[r].loan_note_exchange_rate, "Up") \in Nat
  <1> DEFINE t == AsTokens(a, reserve_info[r], "Down")
             fees == BorrowFee(fee_rate, t)
  <1>1. reserve_info[r] \in CachedReserveInfo BY DEF TypeOK
  <1>2. t \in Nat BY <1>1, AmountsNat
  <1> HIDE DEF t
  <1>3. fee_rate * t \in Nat BY <1>2, ProductNat
  <1>4. fees \in Nat BY <1>3, ConversionNat DEF BorrowFee
  <1> HIDE DEF fees
  <1>5. /\ t + fees \in Nat
        /\ reserve_info[r].loan_note_exchange_rate \in Nat \ {0}
    BY <1>1, <1>2, <1>4 DEF CachedReserveInfo
  <1>6. NotesFromTokens(t + fees, reserve_info[r].loan_note_exchange_rate, "Up") \in Nat
    BY <1>5, NotesNat
  <1> QED BY <1>6 DEF t, fees

(* A loan: its notes are minted for the tokens and the origination fee. *)
LEMMA BorrowTypeOK ==
  ASSUME TypeOK, NEW u \in Users, NEW r \in Reserves, NEW amount \in Amounts,
         Borrow(u, r, amount)
  PROVE  TypeOK'
  <1> DEFINE requested_tokens == AsTokens(amount, reserve_info[r], "Down")
             fees      == BorrowFee(config[r].loan_origination_fee, requested_tokens)
             new_notes == NotesFromTokens(requested_tokens + fees,
                              reserve_info[r].loan_note_exchange_rate, "Up")
             after     == AddLoan(obligation[u], r, NoteAmount(new_notes))
  <1>1. /\ reserve[r] \in ReserveState /\ reserve_info[r] \in CachedReserveInfo
        /\ obligation[u] \in ObligationState /\ config[r] \in Config
        /\ wallet \in [Reserves -> [Users -> Nat]] /\ vault \in [Reserves -> Nat]
        /\ loan_account \in [Reserves -> [Users -> Nat]]
        /\ loan_note_mint \in [Reserves -> Nat]
    BY DEF TypeOK
  <1>2. requested_tokens \in Nat BY <1>1, AmountsNat
  <1>3. fees \in Nat
    <2> HIDE DEF requested_tokens
    <2>1. config[r].loan_origination_fee * requested_tokens \in Nat
      BY <1>1, <1>2, ProductNat DEF Config
    <2> QED BY <2>1, ConversionNat DEF BorrowFee
  <1>4. new_notes \in Nat
    <2>1. /\ config[r].loan_origination_fee \in Nat
          /\ reserve_info[r].loan_note_exchange_rate > 0
      BY <1>1 DEF Config, Borrow
    <2> QED BY <2>1, NewNotesNat
  <1>5. /\ CanBorrow(reserve[r], slot, requested_tokens)
        /\ requested_tokens <= vault[r]
        /\ reserve' = [reserve EXCEPT ![r] =
                           RecordBorrow(@, requested_tokens, new_notes, fees)]
        /\ loan_account' = [loan_account EXCEPT ![r][u] = @ + new_notes]
        /\ loan_note_mint' = [loan_note_mint EXCEPT ![r] = @ + new_notes]
        /\ obligation' = [obligation EXCEPT ![u] = after]
        /\ wallet' = [wallet EXCEPT ![r][u] = @ + requested_tokens]
        /\ vault' = [vault EXCEPT ![r] = @ - requested_tokens]
        /\ UNCHANGED <<clock, settings, reserve_info, accounts, deposit_notes>>
    BY DEF Borrow
  <1> HIDE DEF requested_tokens, fees, new_notes
  <1>6. reserve' \in [Reserves -> ReserveState]
    <2>1. RecordBorrow(reserve[r], requested_tokens, new_notes, fees) \in ReserveState
      BY <1>1, <1>2, <1>3, <1>4, <1>5, RecordsTyped
    <2> QED BY <1>5, <2>1 DEF TypeOK
  <1>7. obligation' \in [Users -> ObligationState]
    <2>1. after \in ObligationState BY <1>1, <1>4, PositionsTyped, Zenon
    <2> QED BY <1>5, <2>1 DEF TypeOK
  <1>8. /\ loan_account' \in [Reserves -> [Users -> Nat]]
        /\ loan_note_mint' \in [Reserves -> Nat]
    <2>1. loan_account[r][u] + new_notes \in Nat /\ loan_note_mint[r] + new_notes \in Nat
      BY <1>1, <1>4
    <2>2. [loan_account EXCEPT ![r][u] = @ + new_notes] \in [Reserves -> [Users -> Nat]]
      BY <1>1, <2>1, BalanceTyped
    <2> QED BY <1>1, <1>5, <2>1, <2>2
  <1>9. wallet' \in [Reserves -> [Users -> Nat]] /\ vault' \in [Reserves -> Nat]
    <2>1. wallet[r][u] + requested_tokens \in Nat /\ vault[r] - requested_tokens \in Nat
      BY <1>1, <1>2, <1>5
    <2>2. [wallet EXCEPT ![r][u] = @ + requested_tokens] \in [Reserves -> [Users -> Nat]]
      BY <1>1, <2>1, BalanceTyped
    <2> QED BY <1>1, <1>5, <2>1, <2>2
  <1> HIDE DEF after
  <1> QED BY <1>5, <1>6, <1>7, <1>8, <1>9
          DEF TypeOK, clock, settings, accounts, deposit_notes

(* What a repayment burns and costs: at most the loan, at most the debt. *)
LEMMA PayoffNat ==
  ASSUME TypeOK, NEW u \in Users, NEW r \in Reserves, NEW amount \in Amounts,
         HasLoanNotes(amount, reserve_info[r])
  PROVE  /\ PayoffNotes(u, r, amount) \in Nat
         /\ PayoffNotes(u, r, amount) <= loan_account[r][u]
         /\ PayoffTokens(r, PayoffNotes(u, r, amount)) \in Nat
  <1> DEFINE notes == PayoffNotes(u, r, amount)
  <1>1. /\ reserve[r] \in ReserveState /\ reserve_info[r] \in CachedReserveInfo
        /\ loan_account[r][u] \in Nat
    BY DEF TypeOK
  <1>2. AsLoanNotes(amount, reserve_info[r], "Down") \in Nat BY <1>1, AmountsNat
  <1>3. notes \in Nat /\ notes <= loan_account[r][u]
    BY <1>1, <1>2 DEF PayoffNotes, Least
  <1> HIDE DEF notes
  <1>4. TokensFromNotes(notes, reserve_info[r].loan_note_exchange_rate, "Up") \in Nat
    BY <1>1, <1>3, NotesNat DEF CachedReserveInfo
  <1>5. AsU64(reserve[r].outstanding_debt) \in Nat
    BY <1>1, ConversionNat DEF ReserveState
  <1>6. PayoffTokens(r, notes) \in Nat BY <1>4, <1>5 DEF PayoffTokens, Least
  <1> QED BY <1>3, <1>6 DEF notes

(* A repayment, of a loan whose obligation is well typed so far: it burns  *)
(* no more notes than the mint has.                                        *)
LEMMA PayOffTyped ==
  ASSUME TypeOK, BurnsCovered, NEW payer \in Users, NEW u \in Users,
         NEW r \in Reserves, NEW amount \in Amounts, NEW before \in ObligationState,
         PayOff(payer, u, r, amount, before)
  PROVE  /\ reserve' \in [Reserves -> ReserveState]
         /\ obligation' \in [Users -> ObligationState]
         /\ loan_account' \in [Reserves -> [Users -> Nat]]
         /\ loan_note_mint' \in [Reserves -> Nat]
         /\ wallet' \in [Reserves -> [Users -> Nat]]
         /\ vault' \in [Reserves -> Nat]
  <1> DEFINE notes == PayoffNotes(u, r, amount)
             tokens_due == PayoffTokens(r, notes)
  <1>1. /\ reserve[r] \in ReserveState
        /\ wallet \in [Reserves -> [Users -> Nat]] /\ vault \in [Reserves -> Nat]
        /\ loan_account \in [Reserves -> [Users -> Nat]]
        /\ loan_note_mint \in [Reserves -> Nat]
    BY DEF TypeOK
  <1>2. /\ notes \in Nat /\ notes <= loan_account[r][u] /\ tokens_due \in Nat
    BY PayoffNat DEF PayOff
  <1>3. /\ CanRepay(reserve[r], slot, tokens_due, notes)
        /\ tokens_due <= wallet[r][payer]
        /\ loan_account' = [loan_account EXCEPT ![r][u] = @ - notes]
        /\ loan_note_mint' = [loan_note_mint EXCEPT ![r] = @ - notes]
        /\ wallet' = [wallet EXCEPT ![r][payer] = @ - tokens_due]
        /\ vault' = [vault EXCEPT ![r] = @ + tokens_due]
        /\ reserve' = [reserve EXCEPT ![r] = RecordRepay(@, tokens_due, notes)]
        /\ obligation' = [obligation EXCEPT ![u] = SubtractLoan(before, r, NoteAmount(notes))]
    BY DEF PayOff
  <1> HIDE DEF notes, tokens_due
  <1>4. reserve' \in [Reserves -> ReserveState]
    <2>1. RecordRepay(reserve[r], tokens_due, notes) \in ReserveState
      BY <1>1, <1>2, <1>3, RecordsTyped
    <2> QED BY <1>3, <2>1 DEF TypeOK
  <1>5. obligation' \in [Users -> ObligationState]
    <2>1. SubtractLoan(before, r, NoteAmount(notes)) \in ObligationState
      BY <1>2, PositionsTyped
    <2> QED BY <1>3, <2>1 DEF TypeOK
  <1>6. /\ loan_account' \in [Reserves -> [Users -> Nat]]
        /\ loan_note_mint' \in [Reserves -> Nat]
    <2>1. notes <= loan_note_mint[r]
      BY <1>1, <1>2, <1>3 DEF CanRepay, BurnsCovered, TotalsMatchMints
    <2>2. loan_account[r][u] - notes \in Nat /\ loan_note_mint[r] - notes \in Nat
      BY <1>1, <1>2, <2>1
    <2>3. [loan_account EXCEPT ![r][u] = @ - notes] \in [Reserves -> [Users -> Nat]]
      BY <1>1, <2>2, BalanceTyped
    <2> QED BY <1>1, <1>3, <2>2, <2>3
  <1>7. wallet' \in [Reserves -> [Users -> Nat]] /\ vault' \in [Reserves -> Nat]
    <2>1. wallet[r][payer] - tokens_due \in Nat /\ vault[r] + tokens_due \in Nat
      BY <1>1, <1>2, <1>3
    <2>2. [wallet EXCEPT ![r][payer] = @ - tokens_due] \in [Reserves -> [Users -> Nat]]
      BY <1>1, <2>1, BalanceTyped
    <2> QED BY <1>1, <1>3, <2>1, <2>2
  <1> QED BY <1>4, <1>5, <1>6, <1>7

(* Repayments and liquidations. *)
LEMMA RepayTypeOK ==
  ASSUME TypeOK, BurnsCovered, NEW payer \in Users, NEW u \in Users,
         NEW r \in Reserves, NEW amount \in Amounts, Repay(payer, u, r, amount)
  PROVE  TypeOK'
  <1>1. obligation[u] \in ObligationState BY DEF TypeOK
  <1>2. /\ PayOff(payer, u, r, amount, obligation[u])
        /\ UNCHANGED <<clock, settings, reserve_info, accounts, deposit_notes>>
    BY DEF Repay
  <1> QED BY <1>1, <1>2, PayOffTyped DEF TypeOK, clock, settings, accounts, deposit_notes

(* A liquidation keeps every variable's type: it takes no more collateral  *)
(* than the account holds, and pays off the loan as a repayment does.      *)
LEMMA LiquidateTypeOK ==
  ASSUME TypeOK, BurnsCovered, NEW payer \in Users, NEW u \in Users,
         NEW r \in Reserves, NEW c \in Reserves, NEW amount \in Amounts,
         NEW min_collateral \in MinCollaterals,
         Liquidate(payer, u, r, c, amount, min_collateral)
  PROVE  TypeOK'
  <1> DEFINE taken == CollateralTaken(u, r, c, amount)
             before == SubtractCollateral(obligation[u], c, NoteAmount(taken))
  <1>1. /\ obligation[u] \in ObligationState
        /\ collateral_account \in [Reserves -> [Users -> Nat]]
        /\ deposit_account \in [Reserves -> [Users -> Nat]]
    BY DEF TypeOK
  <1>2. /\ taken \in min_collateral .. collateral_account[c][u]
        /\ collateral_account' = [collateral_account EXCEPT ![c][u] = @ - taken]
        /\ deposit_account' = [deposit_account EXCEPT ![c][payer] = @ + taken]
        /\ PayOff(payer, u, r, amount, before)
        /\ UNCHANGED <<clock, settings, reserve_info, accounts, fee_note_vault,
                       deposit_note_mint>>
    BY DEF Liquidate
  <1> HIDE DEF taken
  <1>3. min_collateral \in Nat BY InputsAssumption
  <1>4. taken \in Nat /\ taken <= collateral_account[c][u] BY <1>1, <1>2, <1>3
  <1>5. before \in ObligationState BY <1>1, <1>4, PositionsTyped
  <1>6. /\ collateral_account' \in [Reserves -> [Users -> Nat]]
        /\ deposit_account' \in [Reserves -> [Users -> Nat]]
    <2>1. collateral_account[c][u] - taken \in Nat /\ deposit_account[c][payer] + taken \in Nat
      BY <1>1, <1>4
    <2>2. [collateral_account EXCEPT ![c][u] = @ - taken] \in [Reserves -> [Users -> Nat]]
      BY <1>1, <2>1, BalanceTyped
    <2>3. [deposit_account EXCEPT ![c][payer] = @ + taken] \in [Reserves -> [Users -> Nat]]
      BY <1>1, <2>1, BalanceTyped
    <2> QED BY <1>2, <2>2, <2>3
  <1> HIDE DEF before
  <1> QED BY <1>2, <1>5, <1>6, PayOffTyped DEF TypeOK, clock, settings, accounts

(* Every step keeps the types. *)
LEMMA StepTypeOK ==
  ASSUME TypeOK, BurnsCovered, [Next]_vars
  PROVE  TypeOK'
  <1>1. CASE Tick \/ OwnerStep BY <1>1, OwnerTypeOK DEF OwnerStep
  <1>2. CASE AccountStep
    BY <1>2, ObligationTypeOK, AccountTypeOK, WithdrawTypeOK DEF AccountStep
  <1>3. CASE RefreshStep BY <1>3, RefreshTypeOK DEF RefreshStep
  <1>4. CASE UserStep
    BY <1>4, DepositTypeOK, WithdrawTypeOK, CollateralTypeOK, BorrowTypeOK, RepayTypeOK,
       LiquidateTypeOK DEF UserStep, Withdraw
  <1>5. CASE UNCHANGED vars BY <1>5 DEF vars, TypeOK
  <1> QED BY <1>1, <1>2, <1>3, <1>4, <1>5 DEF Next

-----------------------------------------------------------------------------
(* AccountingInv is inductive.                                             *)

(* It speaks of five variables only. *)
LEMMA UntouchedAccounting ==
  ASSUME AccountingInv, TypeOK',
         UNCHANGED <<reserve, reserve_info, vault, deposit_note_mint, loan_note_mint>>
  PROVE  AccountingInv'
  BY DEF AccountingInv, TotalsMatchMints, CachesAgree, VaultCoversDeposits

(* A change of one reserve's totals that leaves its caches alone preserves *)
(* it if mints and vault keep up with the totals.                          *)
LEMMA OneReserveAccounting ==
  ASSUME AccountingInv, TypeOK', NEW r \in Reserves, NEW s \in ReserveState,
         reserve' = [reserve EXCEPT ![r] = s], UNCHANGED reserve_info,
         s.last_updated = reserve[r].last_updated,
         s.invalidated = reserve[r].invalidated,
         s.total_deposit_notes = deposit_note_mint'[r],
         s.total_loan_notes = loan_note_mint'[r],
         s.total_deposits <= vault'[r],
         \A q \in Reserves \ {r} : /\ deposit_note_mint'[q] = deposit_note_mint[q]
                                   /\ loan_note_mint'[q] = loan_note_mint[q]
                                   /\ vault'[q] = vault[q]
  PROVE  AccountingInv'
  <1>1. reserve \in [Reserves -> ReserveState] BY DEF AccountingInv, TypeOK
  <1>2. reserve'[r] = s /\ \A q \in Reserves \ {r} : reserve'[q] = reserve[q] BY <1>1
  <1>3. TotalsMatchMints' BY <1>2 DEF AccountingInv, TotalsMatchMints
  <1>4. CachesAgree' BY <1>2 DEF AccountingInv, CachesAgree
  <1>5. VaultCoversDeposits' BY <1>2 DEF AccountingInv, VaultCoversDeposits
  <1> QED BY <1>3, <1>4, <1>5 DEF AccountingInv

(* The clock and the market owner touch neither totals, caches nor vaults. *)
LEMMA OwnerAccounting ==
  ASSUME AccountingInv,
         \/ Tick
         \/ \E f \in FlagSettings : SetMarketFlags(f)
         \/ \E r \in Reserves, c \in Configs : UpdateReserveConfig(r, c)
  PROVE  AccountingInv'
  <1>1. TypeOK' BY OwnerTypeOK DEF AccountingInv
  <1>2. UNCHANGED <<reserve, reserve_info, vault, deposit_note_mint, loan_note_mint>>
    BY DEF Tick, SetMarketFlags, UpdateReserveConfig, tokens, deposit_notes, loan_notes
  <1> QED BY <1>1, <1>2, UntouchedAccounting

(* Nor does opening or closing obligations and their accounts.             *)
LEMMA ObligationAccounting ==
  ASSUME AccountingInv, NEW u \in Users, InitObligation(u) \/ CloseObligation(u)
  PROVE  AccountingInv'
  <1>1. TypeOK' BY ObligationTypeOK DEF AccountingInv
  <1>2. UNCHANGED <<reserve, reserve_info, vault, deposit_note_mint, loan_note_mint>>
    BY DEF InitObligation, CloseObligation, tokens, deposit_notes, loan_notes
  <1> QED BY <1>1, <1>2, UntouchedAccounting

(* An account step keeps the accounting: closing a deposit account         *)
(* withdraws what it holds, the others move nothing.                       *)
LEMMA AccountAccounting ==
  ASSUME AccountingInv, NEW u \in Users, NEW r \in Reserves,
         \/ InitDepositAccount(u, r)
         \/ InitCollateralAccount(u, r) \/ CloseCollateralAccount(u, r)
         \/ InitLoanAccount(u, r) \/ CloseLoanAccount(u, r)
  PROVE  AccountingInv'
  <1>1. TypeOK' BY AccountTypeOK DEF AccountingInv
  <1>2. UNCHANGED <<reserve, reserve_info, vault, deposit_note_mint, loan_note_mint>>
    BY DEF InitDepositAccount, InitCollateralAccount, CloseCollateralAccount,
           InitLoanAccount, CloseLoanAccount, tokens, deposit_notes, loan_notes
  <1> QED BY <1>1, <1>2, UntouchedAccounting

(* Collateral moves notes between accounts and leaves the totals alone.    *)
LEMMA CollateralAccounting ==
  ASSUME AccountingInv, NEW u \in Users, NEW r \in Reserves, NEW amount \in Amounts,
         DepositCollateral(u, r, amount) \/ WithdrawCollateral(u, r, amount)
  PROVE  AccountingInv'
  <1>1. TypeOK' BY CollateralTypeOK DEF AccountingInv
  <1>2. UNCHANGED <<reserve, reserve_info, vault, deposit_note_mint, loan_note_mint>>
    BY DEF DepositCollateral, WithdrawCollateral, tokens, loan_notes
  <1> QED BY <1>1, <1>2, UntouchedAccounting

(* What a refresh starts from. *)
LEMMA RefreshStarts ==
  ASSUME TypeOK, NEW r \in Reserves, NEW price \in Prices, NEW x \in AccrualRates,
         RefreshReserve(r, price, x)
  PROVE  LET accrued == AccrueInterest(reserve[r], x, config[r].manage_fee_rate,
                                       unix_timestamp, slot)
         IN  /\ accrued \in ReserveState
             /\ IsFull(reserve[r], unix_timestamp) =>
                    accrued.last_updated = slot /\ ~accrued.invalidated
             /\ ~IsFull(reserve[r], unix_timestamp) =>
                    accrued.last_updated = reserve[r].last_updated /\ accrued.invalidated
             /\ accrued.total_deposits = reserve[r].total_deposits
             /\ accrued.total_deposit_notes = reserve[r].total_deposit_notes
             /\ accrued.total_loan_notes = reserve[r].total_loan_notes
  <1> DEFINE accrued == AccrueInterest(reserve[r], x, config[r].manage_fee_rate,
                                       unix_timestamp, slot)
  <1>1. /\ reserve[r] \in ReserveState /\ config[r] \in Config
        /\ unix_timestamp \in Nat /\ slot \in Nat /\ x \in Nat
    BY InputsAssumption DEF TypeOK
  <1>2. /\ accrued \in ReserveState
        /\ IsFull(reserve[r], unix_timestamp) =>
               accrued.last_updated = slot /\ ~accrued.invalidated
        /\ ~IsFull(reserve[r], unix_timestamp) =>
               accrued.last_updated = reserve[r].last_updated /\ accrued.invalidated
    BY <1>1, AccrueInterestTyped, Zenon DEF RefreshReserve, Config
  <1>3. /\ accrued.total_deposits = reserve[r].total_deposits
        /\ accrued.total_deposit_notes = reserve[r].total_deposit_notes
        /\ accrued.total_loan_notes = reserve[r].total_loan_notes
    BY <1>1 DEF AccrueInterest, Accrued, RefreshTo, Invalidate, ReserveState
  <1> QED BY <1>2, <1>3

(* A refresh stamps both caches with the slot, or invalidates both. *)
LEMMA RefreshCaches ==
  ASSUME TypeOK, CachesAgree, NEW r \in Reserves, NEW price \in Prices,
         NEW x \in AccrualRates, RefreshReserve(r, price, x)
  PROVE  CachesAgree'
  <1> DEFINE accrued == AccrueInterest(reserve[r], x, config[r].manage_fee_rate,
                                       unix_timestamp, slot)
             rate == DepositNoteExchangeRate(accrued)
             threshold == FromU64(config[r].manage_fee_collection_threshold)
             collected == CollectAccruedFees(accrued, threshold, rate)
             info == UpToDateInfo(r, accrued, price)
  <1> SUFFICES ASSUME NEW q \in Reserves
               PROVE  /\ reserve'[q].last_updated = reserve_info'[q].last_updated
                      /\ reserve'[q].invalidated = reserve_info'[q].invalidated
    BY DEF CachesAgree
  <1>1. /\ reserve \in [Reserves -> ReserveState]
        /\ reserve_info \in [Reserves -> CachedReserveInfo]
        /\ reserve_info[r] \in CachedReserveInfo
    BY DEF TypeOK
  <1>2. /\ accrued \in ReserveState
        /\ IsFull(reserve[r], unix_timestamp) =>
               accrued.last_updated = slot /\ ~accrued.invalidated
        /\ ~IsFull(reserve[r], unix_timestamp) =>
               accrued.last_updated = reserve[r].last_updated /\ accrued.invalidated
    BY RefreshStarts
  <1>3. accrued.invalidated \in BOOLEAN BY <1>2 DEF ReserveState
  <1>4. \A s \in Reserves \ {r} : reserve'[s] = reserve[s] /\ reserve_info'[s] = reserve_info[s]
    BY <1>1 DEF RefreshReserve
  <1>5. CASE q # r BY <1>4, <1>5 DEF CachesAgree
  <1>6. CASE q = r /\ ~IsFull(reserve[r], unix_timestamp)
    <2>1. reserve'[r] = accrued /\ reserve_info'[r] = Invalidate(reserve_info[r])
      BY <1>1, <1>6 DEF RefreshReserve
    <2> HIDE DEF accrued
    <2>2. /\ Invalidate(reserve_info[r]).last_updated = reserve_info[r].last_updated
          /\ Invalidate(reserve_info[r]).invalidated = TRUE
      BY <1>1 DEF Invalidate, CachedReserveInfo
    <2> QED BY <1>2, <1>3, <1>6, <2>1, <2>2, Zenon DEF CachesAgree
  <1>7. CASE q = r /\ IsFull(reserve[r], unix_timestamp)
    <2>1. reserve'[r] = collected /\ reserve_info'[r] = info
      BY <1>1, <1>7 DEF RefreshReserve
    <2> HIDE DEF accrued, threshold, rate
    <2>2. /\ collected.last_updated = accrued.last_updated
          /\ collected.invalidated = accrued.invalidated
      BY <1>2 DEF CollectAccruedFees, ReserveState
    <2>3. info.last_updated = slot /\ info.invalidated = FALSE
      BY <1>1 DEF UpToDateInfo, RefreshTo, CachedReserveInfo
    <2> QED BY <1>2, <1>3, <1>7, <2>1, <2>2, <2>3, Zenon
  <1> QED BY <1>5, <1>6, <1>7

(* A refresh mints the fee notes it adds to the total. *)
LEMMA RefreshAccounting ==
  ASSUME AccountingInv, NEW r \in Reserves, NEW price \in Prices, NEW x \in AccrualRates,
         RefreshReserve(r, price, x)
  PROVE  AccountingInv'
  <1> DEFINE accrued == AccrueInterest(reserve[r], x, config[r].manage_fee_rate,
                                       unix_timestamp, slot)
             rate == DepositNoteExchangeRate(accrued)
             threshold == FromU64(config[r].manage_fee_collection_threshold)
             fee_notes == FeeNotes(accrued, threshold, rate)
  <1>1. TypeOK' /\ CachesAgree' BY RefreshTypeOK, RefreshCaches DEF AccountingInv
  <1>2. /\ reserve \in [Reserves -> ReserveState]
        /\ deposit_note_mint \in [Reserves -> Nat]
    BY DEF AccountingInv, TypeOK
  <1>3. UNCHANGED <<vault, loan_note_mint>> BY DEF RefreshReserve, tokens, loan_notes
  <1>4. /\ accrued \in ReserveState
        /\ accrued.total_deposits = reserve[r].total_deposits
        /\ accrued.total_deposit_notes = reserve[r].total_deposit_notes
        /\ accrued.total_loan_notes = reserve[r].total_loan_notes
    BY RefreshStarts DEF AccountingInv
  <1>5. CASE ~IsFull(reserve[r], unix_timestamp)
    <2>1. /\ reserve' = [reserve EXCEPT ![r] = accrued]
          /\ UNCHANGED deposit_note_mint
      BY <1>5 DEF RefreshReserve, deposit_notes
    <2> HIDE DEF accrued
    <2>2. TotalsMatchMints' BY <1>2, <1>3, <1>4, <2>1 DEF AccountingInv, TotalsMatchMints
    <2>3. VaultCoversDeposits'
      BY <1>2, <1>3, <1>4, <2>1 DEF AccountingInv, VaultCoversDeposits
    <2> QED BY <1>1, <2>2, <2>3 DEF AccountingInv
  <1>6. CASE IsFull(reserve[r], unix_timestamp)
    <2> DEFINE collected == CollectAccruedFees(accrued, threshold, rate)
    <2>1. /\ reserve' = [reserve EXCEPT ![r] = collected]
          /\ deposit_note_mint' = [deposit_note_mint EXCEPT ![r] = @ + fee_notes]
      BY <1>6 DEF RefreshReserve
    <2> HIDE DEF accrued, threshold, rate
    <2>2. /\ collected.total_deposits = accrued.total_deposits
          /\ collected.total_loan_notes = accrued.total_loan_notes
      BY <1>4 DEF CollectAccruedFees, ReserveState
    <2>3. collected.total_deposit_notes = accrued.total_deposit_notes + fee_notes
      <3>1. CASE CollectsFees(accrued, threshold)
        BY <1>4, <3>1 DEF CollectAccruedFees, ReserveState
      <3>2. CASE ~CollectsFees(accrued, threshold)
        BY <1>4, <3>2 DEF CollectAccruedFees, FeeNotes, ReserveState
      <3> QED BY <3>1, <3>2
    <2> HIDE DEF collected, fee_notes
    <2>4. TotalsMatchMints'
      BY <1>2, <1>3, <1>4, <2>1, <2>2, <2>3 DEF AccountingInv, TotalsMatchMints
    <2>5. VaultCoversDeposits'
      BY <1>2, <1>3, <1>4, <2>1, <2>2 DEF AccountingInv, VaultCoversDeposits
    <2> QED BY <1>1, <2>4, <2>5 DEF AccountingInv
  <1> QED BY <1>5, <1>6

(* A deposit adds the same tokens to total and vault, the same notes to    *)
(* total and mint.                                                         *)
LEMMA DepositAccounting ==
  ASSUME AccountingInv, NEW u \in Users, NEW to \in Users, NEW r \in Reserves,
         NEW amount \in Amounts, DepositTokens(u, r, amount, to)
  PROVE  AccountingInv'
  <1> DEFINE token_amount == AsTokens(amount, reserve_info[r], "Up")
             note_amount  == AsDepositNotes(amount, reserve_info[r], "Down")
             s == RecordDeposit(reserve[r], token_amount, note_amount)
  <1>1. TypeOK' BY DepositTypeOK DEF AccountingInv
  <1>2. /\ reserve[r] \in ReserveState /\ reserve_info[r] \in CachedReserveInfo
        /\ vault \in [Reserves -> Nat] /\ deposit_note_mint \in [Reserves -> Nat]
    BY DEF AccountingInv, TypeOK
  <1>3. token_amount \in Nat /\ note_amount \in Nat
    BY <1>2, AmountsNat DEF DepositTokens
  <1>4. /\ reserve' = [reserve EXCEPT ![r] = s]
        /\ vault' = [vault EXCEPT ![r] = @ + token_amount]
        /\ deposit_note_mint' = [deposit_note_mint EXCEPT ![r] = @ + note_amount]
        /\ UNCHANGED <<reserve_info, loan_note_mint>>
    BY DEF DepositTokens, loan_notes
  <1> HIDE DEF token_amount, note_amount
  <1>5. s \in ReserveState BY <1>2, <1>3, RecordsTyped, Zenon
  <1>6. /\ s.last_updated = reserve[r].last_updated
        /\ s.invalidated = reserve[r].invalidated
        /\ s.total_loan_notes = reserve[r].total_loan_notes
        /\ s.total_deposit_notes = reserve[r].total_deposit_notes + note_amount
        /\ s.total_deposits = reserve[r].total_deposits + token_amount
    BY <1>2 DEF RecordDeposit, ReserveState
  <1> HIDE DEF s
  <1>7. /\ s.total_deposit_notes = deposit_note_mint'[r]
        /\ s.total_loan_notes = loan_note_mint'[r]
    BY <1>2, <1>4, <1>6 DEF AccountingInv, TotalsMatchMints
  <1>8. s.total_deposits <= vault'[r]
    <2>1. reserve[r].total_deposits <= vault[r]
      BY DEF AccountingInv, VaultCoversDeposits
    <2>2. vault'[r] = vault[r] + token_amount BY <1>2, <1>4
    <2> QED BY <1>2, <1>3, <1>6, <2>1, <2>2 DEF ReserveState
  <1> QED BY <1>1, <1>2, <1>4, <1>5, <1>6, <1>7, <1>8, OneReserveAccounting, Zenon

(* A withdrawal takes them off again; the vault may keep the tokens. *)
LEMMA WithdrawAccounting ==
  ASSUME AccountingInv, NEW u \in Users, NEW r \in Reserves,
         \/ \E amount \in Amounts : WithdrawTokens(u, r, amount)
         \/ CloseDepositAccount(u, r)
  PROVE  AccountingInv'
  <1>1. TypeOK' BY WithdrawTypeOK DEF AccountingInv, BurnsCovered
  <1>2. /\ reserve[r] \in ReserveState /\ reserve_info[r] \in CachedReserveInfo
        /\ vault \in [Reserves -> Nat] /\ deposit_note_mint \in [Reserves -> Nat]
        /\ deposit_account[r][u] \in Nat
    BY DEF AccountingInv, TypeOK
  <1>3. ASSUME NEW t \in Nat, NEW n \in Nat, CanWithdraw(reserve[r], t, n),
               reserve' = [reserve EXCEPT ![r] = RecordWithdraw(@, t, n)],
               PayFromVault(r, u, t), BurnDepositNotes(r, u, n),
               UNCHANGED <<reserve_info, loan_note_mint>>
        PROVE  AccountingInv'
    <2> DEFINE s == RecordWithdraw(reserve[r], t, n)
    <2>1. s \in ReserveState BY <1>2, <1>3, RecordsTyped, Zenon
    <2>2. /\ s.last_updated = reserve[r].last_updated
          /\ s.invalidated = reserve[r].invalidated
          /\ s.total_loan_notes = reserve[r].total_loan_notes
          /\ s.total_deposit_notes = reserve[r].total_deposit_notes - n
          /\ s.total_deposits = reserve[r].total_deposits - t
      BY <1>2 DEF RecordWithdraw, ReserveState
    <2>3. reserve' = [reserve EXCEPT ![r] = s] BY <1>3
    <2> HIDE DEF s
    <2>4. deposit_note_mint' = [deposit_note_mint EXCEPT ![r] = @ - n]
      BY <1>3 DEF BurnDepositNotes
    <2>5. /\ vault'[r] = vault[r] - t \/ vault'[r] = vault[r]
          /\ \A q \in Reserves \ {r} : vault'[q] = vault[q]
      BY <1>2, <1>3 DEF PayFromVault, tokens
    <2>6. /\ s.total_deposit_notes = deposit_note_mint'[r]
          /\ s.total_loan_notes = loan_note_mint'[r]
      BY <1>2, <1>3, <2>2, <2>4 DEF AccountingInv, TotalsMatchMints
    <2>7. s.total_deposits <= vault'[r]
      <3>1. reserve[r].total_deposits <= vault[r] /\ vault[r] \in Nat
        BY <1>2 DEF AccountingInv, VaultCoversDeposits
      <3> QED BY <1>2, <1>3, <2>2, <2>5, <3>1 DEF ReserveState
    <2>8. \A q \in Reserves \ {r} : /\ deposit_note_mint'[q] = deposit_note_mint[q]
                                    /\ loan_note_mint'[q] = loan_note_mint[q]
                                    /\ vault'[q] = vault[q]
      BY <1>2, <1>3, <2>4, <2>5
    <2>9. UNCHANGED reserve_info BY <1>3
    <2> QED BY <1>1, <2>1, <2>2, <2>3, <2>6, <2>7, <2>8, <2>9, OneReserveAccounting, Zenon
  <1>4. ASSUME NEW amount \in Amounts, WithdrawTokens(u, r, amount) PROVE AccountingInv'
    <2> DEFINE t == AsTokens(amount, reserve_info[r], "Down")
               n == AsDepositNotes(amount, reserve_info[r], "Up")
    <2>1. t \in Nat /\ n \in Nat BY <1>2, <1>4, AmountsNat DEF WithdrawTokens
    <2>2. /\ CanWithdraw(reserve[r], t, n)
          /\ reserve' = [reserve EXCEPT ![r] = RecordWithdraw(@, t, n)]
          /\ PayFromVault(r, u, t) /\ BurnDepositNotes(r, u, n)
          /\ UNCHANGED <<reserve_info, loan_note_mint>>
      BY <1>4 DEF WithdrawTokens, loan_notes
    <2> HIDE DEF t, n
    <2> QED BY <1>3, <2>1, <2>2, Zenon
  <1>5. CASE CloseDepositAccount(u, r)
    <2> DEFINE n == deposit_account[r][u]
               t == TokensFromNotes(n, reserve_info[r].deposit_note_exchange_rate, "Down")
    <2>1. t \in Nat /\ n \in Nat BY <1>2, NotesNat DEF CachedReserveInfo
    <2>2. UNCHANGED <<reserve_info, loan_note_mint>>
      BY <1>5 DEF CloseDepositAccount, loan_notes
    <2>3. CASE UNCHANGED <<reserve, tokens, deposit_notes>>
      BY <1>1, <2>2, <2>3, UntouchedAccounting DEF tokens, deposit_notes
    <2>4. CASE ~UNCHANGED <<reserve, tokens, deposit_notes>>
      <3>1. /\ CanWithdraw(reserve[r], t, n)
            /\ reserve' = [reserve EXCEPT ![r] = RecordWithdraw(@, t, n)]
            /\ PayFromVault(r, u, t) /\ BurnDepositNotes(r, u, n)
        BY <1>5, <2>4 DEF CloseDepositAccount
      <3> HIDE DEF t, n
      <3> QED BY <1>3, <2>1, <2>2, <3>1, Zenon
    <2> QED BY <2>3, <2>4
  <1> QED BY <1>4, <1>5

(* A loan takes as many tokens off the total as leave the vault. *)
LEMMA BorrowAccounting ==
  ASSUME AccountingInv, NEW u \in Users, NEW r \in Reserves, NEW amount \in Amounts,
         Borrow(u, r, amount)
  PROVE  AccountingInv'
  <1> DEFINE t    == AsTokens(amount, reserve_info[r], "Down")
             fees == BorrowFee(config[r].loan_origination_fee, t)
             n    == NotesFromTokens(t + fees, reserve_info[r].loan_note_exchange_rate, "Up")
             s    == RecordBorrow(reserve[r], t, n, fees)
  <1>1. TypeOK' BY BorrowTypeOK DEF AccountingInv
  <1>2. /\ reserve \in [Reserves -> ReserveState] /\ reserve' \in [Reserves -> ReserveState]
        /\ reserve_info[r] \in CachedReserveInfo
        /\ vault \in [Reserves -> Nat] /\ loan_note_mint \in [Reserves -> Nat]
    BY <1>1 DEF AccountingInv, TypeOK
  <1>3. t \in Nat BY <1>2, AmountsNat
  <1>4. /\ reserve' = [reserve EXCEPT ![r] = s]
        /\ vault' = [vault EXCEPT ![r] = @ - t]
        /\ loan_note_mint' = [loan_note_mint EXCEPT ![r] = @ + n]
        /\ UNCHANGED <<reserve_info, deposit_note_mint>>
    BY DEF Borrow, deposit_notes
  <1> HIDE DEF t, fees, n
  <1>5. s \in ReserveState BY <1>2, <1>4
  <1>6. /\ s.last_updated = reserve[r].last_updated
        /\ s.invalidated = reserve[r].invalidated
        /\ s.total_loan_notes = reserve[r].total_loan_notes + n
        /\ s.total_deposit_notes = reserve[r].total_deposit_notes
        /\ s.total_deposits = reserve[r].total_deposits - t
    BY <1>2 DEF RecordBorrow, ReserveState
  <1> HIDE DEF s
  <1>7. /\ s.total_deposit_notes = deposit_note_mint'[r]
        /\ s.total_loan_notes = loan_note_mint'[r]
    BY <1>2, <1>4, <1>6 DEF AccountingInv, TotalsMatchMints
  <1>8. s.total_deposits <= vault'[r]
    <2>1. reserve[r].total_deposits <= vault[r]
      BY DEF AccountingInv, VaultCoversDeposits
    <2>2. vault'[r] = vault[r] - t /\ reserve[r].total_deposits \in Nat /\ vault[r] \in Nat
      BY <1>2, <1>4 DEF ReserveState
    <2> QED BY <1>3, <1>6, <2>1, <2>2
  <1> QED BY <1>1, <1>2, <1>4, <1>5, <1>6, <1>7, <1>8, OneReserveAccounting, Zenon

(* A repayment, alone or in a liquidation, puts them back. *)
LEMMA PayOffAccounting ==
  ASSUME AccountingInv, TypeOK', NEW payer \in Users, NEW u \in Users, NEW r \in Reserves,
         NEW amount \in Amounts, NEW before, PayOff(payer, u, r, amount, before),
         UNCHANGED <<reserve_info, deposit_note_mint>>
  PROVE  AccountingInv'
  <1> DEFINE n == PayoffNotes(u, r, amount)
             t == PayoffTokens(r, n)
             s == RecordRepay(reserve[r], t, n)
  <1>1. /\ reserve \in [Reserves -> ReserveState] /\ reserve' \in [Reserves -> ReserveState]
        /\ vault \in [Reserves -> Nat] /\ loan_note_mint \in [Reserves -> Nat]
    BY DEF AccountingInv, TypeOK
  <1>2. n \in Nat /\ t \in Nat BY PayoffNat DEF PayOff, AccountingInv
  <1>3. /\ reserve' = [reserve EXCEPT ![r] = s]
        /\ vault' = [vault EXCEPT ![r] = @ + t]
        /\ loan_note_mint' = [loan_note_mint EXCEPT ![r] = @ - n]
    BY DEF PayOff
  <1> HIDE DEF t, n
  <1>4. s \in ReserveState BY <1>1, <1>3
  <1>5. /\ s.last_updated = reserve[r].last_updated
        /\ s.invalidated = reserve[r].invalidated
        /\ s.total_loan_notes = reserve[r].total_loan_notes - n
        /\ s.total_deposit_notes = reserve[r].total_deposit_notes
        /\ s.total_deposits = reserve[r].total_deposits + t
    BY <1>1 DEF RecordRepay, ReserveState
  <1> HIDE DEF s
  <1>6. /\ s.total_deposit_notes = deposit_note_mint'[r]
        /\ s.total_loan_notes = loan_note_mint'[r]
    BY <1>1, <1>3, <1>5 DEF AccountingInv, TotalsMatchMints
  <1>7. s.total_deposits <= vault'[r]
    <2>1. reserve[r].total_deposits <= vault[r]
      BY DEF AccountingInv, VaultCoversDeposits
    <2>2. vault'[r] = vault[r] + t /\ reserve[r].total_deposits \in Nat /\ vault[r] \in Nat
      BY <1>1, <1>3 DEF ReserveState
    <2> QED BY <1>2, <1>5, <2>1, <2>2
  <1> QED BY <1>1, <1>3, <1>4, <1>5, <1>6, <1>7, OneReserveAccounting, Zenon

-----------------------------------------------------------------------------
(* A created market satisfies AccountingInv. *)
LEMMA InitAccounting == Init => AccountingInv
  <1> SUFFICES ASSUME Init PROVE AccountingInv
    OBVIOUS
  <1>1. TypeOK BY InitTypeOK
  <1>2. ASSUME NEW r \in Reserves
        PROVE  /\ reserve[r] = NewReserve(0) /\ reserve_info[r] = NewReserveInfo
               /\ vault[r] = 0 /\ deposit_note_mint[r] = 0 /\ loan_note_mint[r] = 0
    BY DEF Init
  <1>3. /\ NewReserve(0).total_deposits = 0 /\ NewReserve(0).total_deposit_notes = 0
        /\ NewReserve(0).total_loan_notes = 0
        /\ NewReserve(0).last_updated = NewReserveInfo.last_updated
        /\ NewReserve(0).invalidated = NewReserveInfo.invalidated
    BY DEF NewReserve, NewReserveInfo
  <1>4. TotalsMatchMints BY <1>2, <1>3 DEF TotalsMatchMints
  <1>5. CachesAgree BY <1>2, <1>3 DEF CachesAgree
  <1>6. VaultCoversDeposits BY <1>2, <1>3 DEF VaultCoversDeposits
  <1> QED BY <1>1, <1>4, <1>5, <1>6 DEF AccountingInv

(* And every step preserves it. *)
LEMMA NextAccounting == AccountingInv /\ [Next]_vars => AccountingInv'
  <1> SUFFICES ASSUME AccountingInv, [Next]_vars PROVE AccountingInv'
    OBVIOUS
  <1>1. CASE Tick \/ OwnerStep BY <1>1, OwnerAccounting DEF OwnerStep
  <1>2. CASE AccountStep
    BY <1>2, ObligationAccounting, AccountAccounting, WithdrawAccounting DEF AccountStep
  <1>3. CASE RefreshStep BY <1>3, RefreshAccounting DEF RefreshStep
  <1>4. CASE UserStep
    <2>1. PICK u \in Users, r \in Reserves, a \in Amounts :
            \/ \E to \in Users : DepositTokens(u, r, a, to)
            \/ Withdraw(u, r, a)
            \/ DepositCollateral(u, r, a) \/ WithdrawCollateral(u, r, a)
            \/ Borrow(u, r, a)
            \/ \E v \in Users : Repay(u, v, r, a)
            \/ \E v \in Users, c \in Reserves, m \in MinCollaterals :
                   Liquidate(u, v, r, c, a, m)
      BY <1>4 DEF UserStep
    <2>2. CASE \E to \in Users : DepositTokens(u, r, a, to) BY <2>2, DepositAccounting
    <2>3. CASE Withdraw(u, r, a) BY <2>3, WithdrawAccounting DEF Withdraw
    <2>4. CASE DepositCollateral(u, r, a) \/ WithdrawCollateral(u, r, a)
      BY <2>4, CollateralAccounting
    <2>5. CASE Borrow(u, r, a) BY <2>5, BorrowAccounting
    <2>6. ASSUME NEW v \in Users, Repay(u, v, r, a) PROVE AccountingInv'
      <3>1. TypeOK' BY <2>6, RepayTypeOK DEF AccountingInv, BurnsCovered
      <3>2. /\ PayOff(u, v, r, a, obligation[v])
            /\ UNCHANGED <<reserve_info, deposit_note_mint>>
        BY <2>6 DEF Repay, deposit_notes
      <3> QED BY <3>1, <3>2, PayOffAccounting
    <2>7. ASSUME NEW v \in Users, NEW c \in Reserves, NEW m \in MinCollaterals,
                 Liquidate(u, v, r, c, a, m)
          PROVE  AccountingInv'
      <3> DEFINE before == SubtractCollateral(obligation[v], c,
                               NoteAmount(CollateralTaken(v, r, c, a)))
      <3>1. TypeOK' BY <2>7, LiquidateTypeOK DEF AccountingInv, BurnsCovered
      <3>2. PayOff(u, v, r, a, before) /\ UNCHANGED <<reserve_info, deposit_note_mint>>
        BY <2>7 DEF Liquidate
      <3> HIDE DEF before
      <3> QED BY <3>1, <3>2, PayOffAccounting
    <2> QED BY <2>1, <2>2, <2>3, <2>4, <2>5, <2>6, <2>7
  <1>5. CASE UNCHANGED vars
    <2>1. TypeOK' BY <1>5 DEF vars, AccountingInv, TypeOK
    <2> QED BY <1>5, <2>1, UntouchedAccounting DEF vars
  <1> QED BY <1>1, <1>2, <1>3, <1>4, <1>5 DEF Next

(* Types, totals, caches and vaults are right in every reachable state of  *)
(* every market.                                                           *)
THEOREM AccountingInvariant == Spec => []AccountingInv
  BY InitAccounting, NextAccounting, PTL DEF Spec

(* Every total, balance and position stays what its layout says. *)
THEOREM TypeCorrect == Spec => []TypeOK
  <1>1. AccountingInv => TypeOK BY DEF AccountingInv
  <1> QED BY <1>1, AccountingInvariant, PTL

(* The totals the exchange rates are computed from are the supplies of the *)
(* note mints.                                                             *)
THEOREM TotalsAreSupplies == Spec => []TotalsMatchMints
  <1>1. AccountingInv => TotalsMatchMints BY DEF AccountingInv
  <1> QED BY <1>1, AccountingInvariant, PTL

(* Whoever finds the market's entry of a reserve fresh may unwrap its state*)
(* without looking.                                                        *)
THEOREM CachesStayInSync == Spec => []CachesInSync
  <1>1. AccountingInv => CachesInSync
    BY DEF AccountingInv, CachesAgree, CachesInSync, Cached, Fresh
  <1> QED BY <1>1, AccountingInvariant, PTL

(* No withdrawal or loan that a reserve's total allows fails for want of   *)
(* tokens in the vault.                                                    *)
THEOREM VaultsCoverDeposits == Spec => []VaultCoversDeposits
  <1>1. AccountingInv => VaultCoversDeposits BY DEF AccountingInv
  <1> QED BY <1>1, AccountingInvariant, PTL

-----------------------------------------------------------------------------
(* InterestChargedOnce.                                                    *)

(* What a step that adds to r's debt without paying anybody must be.       *)
ChargedOnce(r) ==
    /\ reserve[r].accrued_until < reserve'[r].accrued_until
    /\ reserve'[r].accrued_until <= unix_timestamp
    /\ reserve'[r].accrued_until - reserve[r].accrued_until <= MaxAccrual

(* An accrual that charges something has advanced accrued_until, by what   *)
(* it charged for.                                                         *)
LEMMA AccrualCharges ==
  ASSUME NEW s \in ReserveState, NEW x \in Nat, NEW fee_rate \in Nat,
         NEW target_time \in Nat, NEW target_slot \in Nat,
         TimeBehind(s, target_time) >= 0,
         NEW a, a = AccrueInterest(s, x, fee_rate, target_time, target_slot),
         s.outstanding_debt < a.outstanding_debt
  PROVE  /\ s.accrued_until < a.accrued_until
         /\ a.accrued_until <= target_time
         /\ a.accrued_until - s.accrued_until <= MaxAccrual
  <1> DEFINE t == TimeToAccrue(s, target_time)
  <1>1. /\ a.outstanding_debt = s.outstanding_debt + Interest(s, x, target_time)
        /\ a.accrued_until = s.accrued_until + t
    BY DEF AccrueInterest, Accrued, RefreshTo, Invalidate, ReserveState
  <1>2. s.outstanding_debt \in Nat /\ s.accrued_until \in Nat BY DEF ReserveState
  <1>3. /\ t \in Nat /\ t <= MaxAccrual /\ t <= target_time - s.accrued_until
    BY <1>2, MaxAccrualAssumption DEF TimeToAccrue, TimeBehind, Least
  <1>4. t > 0
    <2>1. SUFFICES ASSUME ~(t > 0) PROVE FALSE OBVIOUS
    <2>2. Interest(s, x, target_time) = 0 BY <2>1 DEF Interest
    <2> QED BY <1>1, <1>2, <2>2
  <1> HIDE DEF t
  <1> QED BY <1>1, <1>2, <1>3, <1>4, MaxAccrualAssumption

(* A refresh adds interest only; the fees it collects are no debt.         *)
LEMMA RefreshCharges ==
  ASSUME TypeOK, NEW r \in Reserves, NEW s \in Reserves, NEW price \in Prices,
         NEW x \in AccrualRates, RefreshReserve(s, price, x), DebtGrows(r)
  PROVE  ChargedOnce(r)
  <1> DEFINE a == AccrueInterest(reserve[s], x, config[s].manage_fee_rate,
                                 unix_timestamp, slot)
  <1>1. /\ reserve \in [Reserves -> ReserveState] /\ config[s] \in Config
        /\ unix_timestamp \in Nat /\ slot \in Nat
    BY DEF TypeOK
  <1>2. TimeBehind(reserve[s], unix_timestamp) >= 0 BY DEF RefreshReserve
  <1>3. x \in Nat /\ config[s].manage_fee_rate \in Nat
    BY <1>1, InputsAssumption DEF Config
  <1>4. a \in ReserveState BY <1>1, <1>2, <1>3, AccrueInterestTyped, Zenon
  <1>5. PICK t : /\ reserve' = [reserve EXCEPT ![s] = t]
                 /\ t.outstanding_debt = a.outstanding_debt
                 /\ t.accrued_until = a.accrued_until
    <2>1. ASSUME NEW threshold, NEW rate
          PROVE  /\ CollectAccruedFees(a, threshold, rate).outstanding_debt
                        = a.outstanding_debt
                 /\ CollectAccruedFees(a, threshold, rate).accrued_until = a.accrued_until
      <3> HIDE DEF a
      <3> QED BY <1>4 DEF CollectAccruedFees, ReserveState
    <2>2. \/ reserve' = [reserve EXCEPT ![s] = a]
          \/ \E threshold, rate :
                reserve' = [reserve EXCEPT ![s] = CollectAccruedFees(a, threshold, rate)]
      BY DEF RefreshReserve
    <2> HIDE DEF a
    <2> QED BY <2>1, <2>2
  <1> HIDE DEF a
  <1>6. r = s /\ reserve'[r] = t
    <2>1. reserve[r] \in ReserveState BY <1>1
    <2>2. reserve[r].outstanding_debt \in Nat BY <2>1 DEF ReserveState
    <2> QED BY <1>1, <1>5, <2>2 DEF DebtGrows
  <1>7. reserve[s].outstanding_debt < a.outstanding_debt BY <1>5, <1>6 DEF DebtGrows
  <1>8. reserve[s] \in ReserveState BY <1>1
  <1>9. /\ reserve[s].accrued_until < a.accrued_until
        /\ a.accrued_until <= unix_timestamp
        /\ a.accrued_until - reserve[s].accrued_until <= MaxAccrual
    BY <1>1, <1>2, <1>3, <1>7, <1>8, AccrualCharges, Zenon DEF a
  <1> QED BY <1>5, <1>6, <1>9 DEF ChargedOnce

(* A loan of no tokens has no fee: every other loan pays somebody.         *)
LEMMA BorrowPays ==
  ASSUME TypeOK, NEW r \in Reserves, NEW u \in Users, NEW s \in Reserves,
         NEW amount \in Amounts, Borrow(u, s, amount), DebtGrows(r)
  PROVE  wallet'[r] # wallet[r]
  <1> DEFINE t    == AsTokens(amount, reserve_info[s], "Down")
             fees == BorrowFee(config[s].loan_origination_fee, t)
             n    == NotesFromTokens(t + fees, reserve_info[s].loan_note_exchange_rate, "Up")
  <1>1. /\ reserve \in [Reserves -> ReserveState] /\ wallet \in [Reserves -> [Users -> Nat]]
        /\ reserve_info[s] \in CachedReserveInfo /\ config[s] \in Config
    BY DEF TypeOK
  <1>2. t \in Nat BY <1>1, AmountsNat
  <1>3. /\ reserve' = [reserve EXCEPT ![s] = RecordBorrow(@, t, n, fees)]
        /\ wallet' = [wallet EXCEPT ![s][u] = @ + t]
    BY DEF Borrow
  <1>4. config[s].loan_origination_fee \in Nat BY <1>1 DEF Config
  <1>5. t = 0 => fees = 0
    <2> SUFFICES ASSUME t = 0 PROVE fees = 0 OBVIOUS
    <2>1. config[s].loan_origination_fee * t = 0 BY <1>4
    <2> HIDE DEF t
    <2> QED BY <2>1, ONEAssumption DEF BorrowFee, AsU64Ceil
  <1> HIDE DEF t, fees, n
  <1>6. reserve[r] \in ReserveState /\ reserve[r].outstanding_debt \in Nat
    BY <1>1 DEF ReserveState
  <1>7. r = s BY <1>1, <1>3, <1>6 DEF DebtGrows
  <1>8. t # 0
    <2> SUFFICES ASSUME t = 0 PROVE FALSE OBVIOUS
    <2>1. FromU64(0) = 0 BY ONEAssumption DEF FromU64
    <2>2. RecordBorrow(reserve[s], t, n, fees).outstanding_debt
              = reserve[s].outstanding_debt + FromU64(t) + FromU64(fees)
      BY <1>6, <1>7 DEF RecordBorrow, ReserveState
    <2>3. reserve'[r].outstanding_debt = reserve[r].outstanding_debt
      BY <1>1, <1>3, <1>5, <1>6, <1>7, <2>1, <2>2
    <2> QED BY <1>6, <2>3 DEF DebtGrows
  <1>9. wallet'[r][u] = wallet[r][u] + t /\ wallet[r][u] \in Nat BY <1>1, <1>3, <1>7
  <1> QED BY <1>2, <1>8, <1>9

(* Deposits, withdrawals and repayments add to no debt.                    *)
LEMMA OthersChargeNothing ==
  ASSUME TypeOK, NEW r \in Reserves, NEW s \in Reserves, NEW t, NEW n,
         \/ reserve' = [reserve EXCEPT ![s] = RecordDeposit(@, t, n)]
         \/ reserve' = [reserve EXCEPT ![s] = RecordWithdraw(@, t, n)]
         \/ /\ reserve' = [reserve EXCEPT ![s] = RecordRepay(@, t, n)]
            /\ t \in Nat /\ CanRepay(reserve[s], slot, t, n)
  PROVE  ~DebtGrows(r)
  <1>1. /\ reserve \in [Reserves -> ReserveState]
        /\ reserve[r] \in ReserveState /\ reserve[s] \in ReserveState
    BY DEF TypeOK
  <1>2. reserve[r].outstanding_debt \in Nat /\ reserve[s].outstanding_debt \in Nat
    BY <1>1 DEF ReserveState
  <1>3. PICK v : /\ reserve' = [reserve EXCEPT ![s] = v]
                 /\ ~(reserve[s].outstanding_debt < v.outstanding_debt)
    <2>1. /\ RecordDeposit(reserve[s], t, n).outstanding_debt = reserve[s].outstanding_debt
          /\ RecordWithdraw(reserve[s], t, n).outstanding_debt = reserve[s].outstanding_debt
      BY <1>1 DEF RecordDeposit, RecordWithdraw, ReserveState
    <2>2. ASSUME t \in Nat, CanRepay(reserve[s], slot, t, n)
          PROVE  ~(reserve[s].outstanding_debt
                      < RecordRepay(reserve[s], t, n).outstanding_debt)
      <3>1. FromU64(t) \in Nat BY <2>2, ConversionNat
      <3> QED BY <1>1, <1>2, <2>2, <3>1 DEF RecordRepay, CanRepay, ReserveState
    <2> QED BY <1>2, <2>1, <2>2
  <1> QED BY <1>1, <1>2, <1>3 DEF DebtGrows

(* Of the steps that change a reserve only a refresh and a loan add debt.  *)
LEMMA NextCharges ==
  ASSUME TypeOK, [Next]_vars, NEW r \in Reserves, DebtGrows(r), wallet'[r] = wallet[r]
  PROVE  ChargedOnce(r)
  <1>1. reserve[r] \in ReserveState BY DEF TypeOK
  <1>2. reserve[r].outstanding_debt \in Nat BY <1>1 DEF ReserveState
  <1>3. reserve' # reserve BY <1>2 DEF DebtGrows
  <1>4. CASE RefreshStep BY <1>4, RefreshCharges DEF RefreshStep
  <1>5. ASSUME NEW u \in Users, NEW s \in Reserves, CloseDepositAccount(u, s) PROVE FALSE
    <2>1. \E t, n : reserve' = [reserve EXCEPT ![s] = RecordWithdraw(@, t, n)]
      BY <1>3, <1>5 DEF CloseDepositAccount
    <2> QED BY <2>1, OthersChargeNothing, Zenon
  <1>6. ASSUME NEW u \in Users, NEW s \in Reserves, NEW a \in Amounts,
               Withdraw(u, s, a) \/ \E to \in Users : DepositTokens(u, s, a, to)
        PROVE  FALSE
    <2>1. \E t, n : \/ reserve' = [reserve EXCEPT ![s] = RecordWithdraw(@, t, n)]
                   \/ reserve' = [reserve EXCEPT ![s] = RecordDeposit(@, t, n)]
      BY <1>6 DEF Withdraw, WithdrawTokens, DepositTokens
    <2> QED BY <2>1, OthersChargeNothing
  <1>7. ASSUME NEW payer \in Users, NEW u \in Users, NEW s \in Reserves, NEW a \in Amounts,
               NEW before, PayOff(payer, u, s, a, before)
        PROVE  FALSE
    <2> DEFINE n == PayoffNotes(u, s, a)
               t == PayoffTokens(s, n)
    <2>1. t \in Nat BY <1>7, PayoffNat DEF PayOff
    <2>2. /\ reserve' = [reserve EXCEPT ![s] = RecordRepay(@, t, n)]
          /\ CanRepay(reserve[s], slot, t, n)
      BY <1>7 DEF PayOff
    <2> HIDE DEF t, n
    <2> QED BY <2>1, <2>2, OthersChargeNothing, Zenon
  <1>8. CASE AccountStep
    BY <1>3, <1>5, <1>8, Zenon DEF AccountStep, InitDepositAccount, InitObligation, CloseObligation,
           InitCollateralAccount, CloseCollateralAccount, InitLoanAccount, CloseLoanAccount
  <1>9. CASE UserStep
    <2>1. PICK u \in Users, s \in Reserves, a \in Amounts :
            \/ Withdraw(u, s, a) \/ \E to \in Users : DepositTokens(u, s, a, to)
            \/ DepositCollateral(u, s, a) \/ WithdrawCollateral(u, s, a)
            \/ Borrow(u, s, a)
            \/ \E v \in Users : Repay(u, v, s, a)
            \/ \E v \in Users, c \in Reserves, m \in MinCollaterals :
                   Liquidate(u, v, s, c, a, m)
      BY <1>9 DEF UserStep
    <2>2. ~(DepositCollateral(u, s, a) \/ WithdrawCollateral(u, s, a))
      BY <1>3 DEF DepositCollateral, WithdrawCollateral
    <2>3. ~Borrow(u, s, a) BY BorrowPays
    <2>4. ASSUME NEW v \in Users, Repay(u, v, s, a) PROVE FALSE
      BY <1>7, <2>4 DEF Repay
    <2>5. ASSUME NEW v \in Users, NEW c \in Reserves, NEW m \in MinCollaterals,
                 Liquidate(u, v, s, c, a, m)
          PROVE  FALSE
      BY <1>7, <2>5 DEF Liquidate
    <2> QED BY <1>6, <2>1, <2>2, <2>3, <2>4, <2>5
  <1> QED BY <1>3, <1>4, <1>8, <1>9
          DEF Next, Tick, OwnerStep, SetMarketFlags, UpdateReserveConfig, vars

(* Debt that no tokens were paid out for is interest for time not charged  *)
(* before, no further than the clock and one accrual at a time: however    *)
(* late refreshes are, and whatever loans, fees and repayments are between.*)
THEOREM InterestIsChargedOnce == Spec => InterestChargedOnce
  <1>1. TypeOK /\ [Next]_vars =>
            [\A r \in Reserves :
                DebtGrows(r) /\ wallet'[r] = wallet[r] =>
                    /\ reserve[r].accrued_until < reserve'[r].accrued_until
                    /\ reserve'[r].accrued_until <= unix_timestamp
                    /\ reserve'[r].accrued_until - reserve[r].accrued_until <= MaxAccrual]_vars
    BY NextCharges DEF ChargedOnce
  <1> QED BY <1>1, TypeCorrect, PTL DEF Spec, InterestChargedOnce

-----------------------------------------------------------------------------
(* What the handlers record in a reserve, and at which price.              *)

(* Tokens are paid for notes at a rate, rounded up, or down.               *)
LEMMA TokensForNotes ==
  ASSUME NEW n \in Nat, NEW rate \in Nat
  PROVE  /\ n * rate \in Nat
         /\ FromU64(TokensFromNotes(n, rate, "Down")) <= n * rate
         /\ n * rate <= FromU64(TokensFromNotes(n, rate, "Up"))
  <1> DEFINE v == n * rate
  <1>1. v \in Nat BY Product
  <1>2. Mul(rate, FromU64(n)) = v
    <2>1. rate * FromU64(n) = v * ONE BY ONEAssumption DEF FromU64
    <2> HIDE DEF v
    <2> QED BY <1>1, <2>1, QuotientExact, ONEAssumption DEF Mul
  <1> HIDE DEF v
  <1>3. FromU64(AsU64(v)) <= v BY <1>1, WholePart DEF FromU64
  <1>4. v <= FromU64(AsU64Ceil(v)) BY <1>1, RoundedUp
  <1> QED BY <1>1, <1>2, <1>3, <1>4 DEF TokensFromNotes, Rounded, v

(* Notes are given for tokens at a rate, rounded down; or rounded up, when *)
(* the division before may still lose a part of a note, worth no more than *)
(* the whole tokens of the rate.                                           *)
LEMMA NotesForTokens ==
  ASSUME NEW t \in Nat, NEW rate \in Nat \ {0}
  PROVE  /\ NotesFromTokens(t, rate, "Down") * rate <= FromU64(t)
         /\ FromU64(t) <= NotesFromTokens(t, rate, "Up") * rate + AsU64(rate)
  <1> DEFINE v == FromU64(t)
             q == Div(v, rate)
             down == AsU64(q)
             up == AsU64Ceil(q)
             whole == AsU64(rate)
  <1>1. v \in Nat BY ConversionNat
  <1> HIDE DEF v
  <1>2. /\ q \in Nat /\ v * ONE \in Nat /\ q * rate \in Nat
        /\ q * rate <= v * ONE /\ v * ONE + 1 <= q * rate + rate
    BY <1>1, TruncatedQuotient
  <1> HIDE DEF q
  <1>3. down \in Nat /\ down * ONE \in Nat /\ down * ONE <= q BY <1>2, WholePart
  <1>4. up \in Nat /\ up * ONE \in Nat /\ q <= up * ONE
    BY <1>2, ConversionNat, RoundedUp, Product, ONEAssumption DEF FromU64
  <1>5. whole \in Nat /\ whole * ONE \in Nat /\ rate + 1 <= whole * ONE + ONE
    BY WholePart
  <1> HIDE DEF down, up, whole
  <1>6. down * rate <= v
    <2>1. (down * ONE) * rate <= q * rate BY <1>2, <1>3, Product
    <2>2. (down * ONE) * rate = (down * rate) * ONE BY <1>3, ONEAssumption
    <2>3. down * rate \in Nat /\ (down * rate) * ONE \in Nat
      BY <1>3, Product, ONEAssumption
    <2>4. (down * rate) * ONE <= v * ONE BY <1>2, <2>1, <2>2, <2>3
    <2> QED BY <1>1, <2>3, <2>4, CancelFactor, ONEAssumption
  <1>7. v <= up * rate + whole
    <2> DEFINE p == up * rate
    <2>1. p \in Nat BY <1>4, Product
    <2>2. q * rate <= (up * ONE) * rate BY <1>2, <1>4, Product
    <2>3. (up * ONE) * rate = p * ONE BY <1>4, ONEAssumption
    <2> HIDE DEF p
    <2>4. p * ONE \in Nat BY <2>1, Product, ONEAssumption
    <2>5. v * ONE < p * ONE + whole * ONE + ONE BY <1>2, <1>5, <2>2, <2>3, <2>4, ONEAssumption
    <2>6. SUFFICES ASSUME p + whole + 1 <= v PROVE FALSE BY <1>1, <1>5, <2>1 DEF p
    <2>7. (p + whole + 1) * ONE <= v * ONE
      <3>1. p + whole + 1 \in Nat BY <1>5, <2>1
      <3> QED BY <1>1, <2>6, <3>1, Product, ONEAssumption
    <2>8. (p + whole + 1) * ONE = p * ONE + whole * ONE + ONE
      BY <1>5, <2>1, ONEAssumption
    <2> QED BY <1>2, <1>5, <2>4, <2>5, <2>7, <2>8, ONEAssumption
  <1> QED BY <1>6, <1>7 DEF NotesFromTokens, Rounded, v, q, down, up, whole

(* What the handlers of Lending record in a reserve s: t tokens for n      *)
(* notes at a cached rate, what that makes of its vault (a withdrawal may  *)
(* be paid into the vault itself) and of the mint of its deposit notes.  A *)
(* repayment may cost less than its notes are worth, if it costs every     *)
(* whole token that is owed.                                               *)
Recorded(s, t, n, fees) ==
    LET deposit_rate == reserve_info[s].deposit_note_exchange_rate
        loan_rate == reserve_info[s].loan_note_exchange_rate
    IN  \/ /\ reserve' = [reserve EXCEPT ![s] = RecordDeposit(@, t, n)]
           /\ vault' = [vault EXCEPT ![s] = @ + t]
           /\ deposit_note_mint' = [deposit_note_mint EXCEPT ![s] = @ + n]
           /\ n * deposit_rate <= FromU64(t)
        \/ /\ reserve' = [reserve EXCEPT ![s] = RecordWithdraw(@, t, n)]
           /\ vault' = [vault EXCEPT ![s] = @ - t] \/ UNCHANGED vault
           /\ deposit_note_mint' = [deposit_note_mint EXCEPT ![s] = @ - n]
           /\ CanWithdraw(reserve[s], t, n)
           /\ FromU64(t) <= n * deposit_rate + AsU64(deposit_rate)
        \/ /\ reserve' = [reserve EXCEPT ![s] = RecordBorrow(@, t, n, fees)]
           /\ vault' = [vault EXCEPT ![s] = @ - t]
           /\ UNCHANGED deposit_note_mint
           /\ CanBorrow(reserve[s], slot, t)
           /\ FromU64(t + fees) <= n * loan_rate + AsU64(loan_rate)
        \/ /\ reserve' = [reserve EXCEPT ![s] = RecordRepay(@, t, n)]
           /\ vault' = [vault EXCEPT ![s] = @ + t]
           /\ UNCHANGED deposit_note_mint
           /\ CanRepay(reserve[s], slot, t, n)
           /\ \/ n * loan_rate <= FromU64(t)
              \/ t = AsU64(reserve[s].outstanding_debt)

(* Deposits, in whichever unit, pay at least what their notes are worth;   *)
(* withdrawals get at most that, and what a division may lose.             *)
LEMMA DepositPrices ==
  ASSUME NEW a \in Amounts, NEW info \in CachedReserveInfo, HasDepositNotes(a, info)
  PROVE  LET rate == info.deposit_note_exchange_rate
         IN  /\ AsDepositNotes(a, info, "Down") * rate <= FromU64(AsTokens(a, info, "Up"))
             /\ FromU64(AsTokens(a, info, "Down"))
                    <= AsDepositNotes(a, info, "Up") * rate + AsU64(rate)
  <1> DEFINE rate == info.deposit_note_exchange_rate
  <1>1. rate \in Nat /\ AsU64(rate) \in Nat BY ConversionNat DEF CachedReserveInfo
  <1>2. a.value \in Nat BY InputsAssumption
  <1>3. CASE a.units = "DepositNotes"
    <2>1. /\ a.value * rate <= FromU64(TokensFromNotes(a.value, rate, "Up"))
          /\ FromU64(TokensFromNotes(a.value, rate, "Down")) <= a.value * rate
          /\ a.value * rate \in Nat
      BY <1>1, <1>2, TokensForNotes, Zenon
    <2>2. FromU64(TokensFromNotes(a.value, rate, "Down")) \in Nat
      BY <1>1, <1>2, NotesNat, ConversionNat, Zenon
    <2> QED BY <1>1, <1>3, <2>1, <2>2 DEF AsTokens, AsDepositNotes
  <1>4. CASE a.units = "Tokens"
    <2>1. rate > 0 BY <1>4 DEF HasDepositNotes
    <2> QED BY <1>1, <1>2, <1>4, <2>1, NotesForTokens DEF AsTokens, AsDepositNotes
  <1> QED BY <1>3, <1>4 DEF HasDepositNotes

(* A step that touches a reserve is a refresh or one of those. *)
LEMMA StepReserves ==
  ASSUME TypeOK, [Next]_vars
  PROVE  \/ UNCHANGED <<reserve, reserve_info, vault, deposit_note_mint>>
         \/ RefreshStep
         \/ /\ UNCHANGED <<reserve_info, clock>>
            /\ \E s \in Reserves, t, n, fees \in Nat : Recorded(s, t, n, fees)
  <1> DEFINE Records == /\ UNCHANGED clock
                        /\ \E s \in Reserves, t, n, fees \in Nat : Recorded(s, t, n, fees)
             Goal == \/ UNCHANGED <<reserve, reserve_info, vault, deposit_note_mint>>
                     \/ RefreshStep
                     \/ UNCHANGED reserve_info /\ Records
  <1>0. ASSUME NEW s \in Reserves
        PROVE  /\ reserve_info[s] \in CachedReserveInfo
               /\ reserve_info[s].deposit_note_exchange_rate \in Nat
               /\ reserve_info[s].loan_note_exchange_rate \in Nat
    BY DEF TypeOK, CachedReserveInfo
  <1>1. ASSUME NEW u \in Users, NEW s \in Reserves, CloseDepositAccount(u, s)
        PROVE  /\ UNCHANGED reserve_info
               /\ UNCHANGED <<reserve, vault, deposit_note_mint>> \/ Records
    <2> DEFINE n == deposit_account[s][u]
               rate == reserve_info[s].deposit_note_exchange_rate
               t == TokensFromNotes(n, rate, "Down")
    <2>1. /\ UNCHANGED <<reserve_info, clock>>
          /\ \/ UNCHANGED <<reserve, vault, deposit_note_mint>>
             \/ /\ reserve' = [reserve EXCEPT ![s] = RecordWithdraw(@, t, n)]
                /\ vault' = [vault EXCEPT ![s] = @ - t] \/ UNCHANGED vault
                /\ deposit_note_mint' = [deposit_note_mint EXCEPT ![s] = @ - n]
                /\ CanWithdraw(reserve[s], t, n)
      BY <1>1 DEF CloseDepositAccount, PayFromVault, BurnDepositNotes, tokens, deposit_notes
    <2>2. n \in Nat BY DEF TypeOK
    <2>3. /\ t \in Nat /\ FromU64(t) \in Nat /\ n * rate \in Nat
          /\ FromU64(t) <= n * rate /\ AsU64(rate) \in Nat
      BY <1>0, <2>2, NotesNat, TokensForNotes, ConversionNat, Zenon
    <2> HIDE DEF n, t
    <2>4. FromU64(t) <= n * rate + AsU64(rate) BY <2>3
    <2> QED BY <2>1, <2>2, <2>3, <2>4 DEF Recorded
  <1>2. ASSUME NEW u \in Users, NEW s \in Reserves, NEW a \in Amounts,
               Withdraw(u, s, a) \/ \E to \in Users : DepositTokens(u, s, a, to)
        PROVE  UNCHANGED reserve_info /\ Records
    <2>1. CASE Withdraw(u, s, a)
      <3> DEFINE t == AsTokens(a, reserve_info[s], "Down")
                 n == AsDepositNotes(a, reserve_info[s], "Up")
                 rate == reserve_info[s].deposit_note_exchange_rate
      <3>1. /\ UNCHANGED <<reserve_info, clock>> /\ HasDepositNotes(a, reserve_info[s])
            /\ reserve' = [reserve EXCEPT ![s] = RecordWithdraw(@, t, n)]
            /\ vault' = [vault EXCEPT ![s] = @ - t] \/ UNCHANGED vault
            /\ deposit_note_mint' = [deposit_note_mint EXCEPT ![s] = @ - n]
            /\ CanWithdraw(reserve[s], t, n)
        BY <2>1 DEF Withdraw, WithdrawTokens, PayFromVault, BurnDepositNotes, tokens
      <3>2. t \in Nat /\ n \in Nat BY <1>0, <3>1, AmountsNat
      <3>3. FromU64(t) <= n * rate + AsU64(rate) BY <1>0, <3>1, DepositPrices
      <3> HIDE DEF n, t
      <3> QED BY <3>1, <3>2, <3>3, Zenon DEF Recorded
    <2>2. CASE \E to \in Users : DepositTokens(u, s, a, to)
      <3> DEFINE t == AsTokens(a, reserve_info[s], "Up")
                 n == AsDepositNotes(a, reserve_info[s], "Down")
                 rate == reserve_info[s].deposit_note_exchange_rate
      <3>1. /\ UNCHANGED <<reserve_info, clock>> /\ HasDepositNotes(a, reserve_info[s])
            /\ reserve' = [reserve EXCEPT ![s] = RecordDeposit(@, t, n)]
            /\ vault' = [vault EXCEPT ![s] = @ + t]
            /\ deposit_note_mint' = [deposit_note_mint EXCEPT ![s] = @ + n]
        BY <2>2 DEF DepositTokens
      <3>2. t \in Nat /\ n \in Nat BY <1>0, <3>1, AmountsNat
      <3>3. n * rate <= FromU64(t) BY <1>0, <3>1, DepositPrices
      <3> HIDE DEF n, t
      <3> QED BY <3>1, <3>2, <3>3, Zenon DEF Recorded
    <2> QED BY <1>2, <2>1, <2>2
  <1>3. ASSUME NEW u \in Users, NEW s \in Reserves, NEW a \in Amounts, Borrow(u, s, a)
        PROVE  UNCHANGED reserve_info /\ Records
    <2> DEFINE t == AsTokens(a, reserve_info[s], "Down")
               fees == BorrowFee(config[s].loan_origination_fee, t)
               rate == reserve_info[s].loan_note_exchange_rate
               n == NotesFromTokens(t + fees, rate, "Up")
    <2>1. /\ UNCHANGED <<reserve_info, clock>> /\ rate > 0
          /\ reserve' = [reserve EXCEPT ![s] = RecordBorrow(@, t, n, fees)]
          /\ CanBorrow(reserve[s], slot, t)
          /\ vault' = [vault EXCEPT ![s] = @ - t]
          /\ UNCHANGED deposit_note_mint
      BY <1>3 DEF Borrow, deposit_notes
    <2>2. config[s].loan_origination_fee \in Nat BY DEF TypeOK, Config
    <2>3. t \in Nat BY <1>0, AmountsNat
    <2>4. n \in Nat BY <2>1, <2>2, NewNotesNat
    <2>5. fees \in Nat
      <3> HIDE DEF t
      <3>1. config[s].loan_origination_fee * t \in Nat BY <2>2, <2>3, ProductNat
      <3> QED BY <3>1, ConversionNat DEF BorrowFee
    <2>6. FromU64(t + fees) <= n * rate + AsU64(rate)
      <3> HIDE DEF t, fees
      <3>1. t + fees \in Nat /\ rate \in Nat \ {0} BY <1>0, <2>1, <2>3, <2>5
      <3> QED BY <3>1, NotesForTokens
    <2> HIDE DEF t, n, fees
    <2> QED BY <2>1, <2>3, <2>4, <2>5, <2>6, Zenon DEF Recorded
  <1>4. ASSUME NEW payer \in Users, NEW u \in Users, NEW s \in Reserves, NEW a \in Amounts,
               NEW before, PayOff(payer, u, s, a, before),
               UNCHANGED <<clock, deposit_note_mint>>
        PROVE  Records
    <2> DEFINE n == PayoffNotes(u, s, a)
               t == PayoffTokens(s, n)
               rate == reserve_info[s].loan_note_exchange_rate
    <2>1. t \in Nat /\ n \in Nat BY <1>4, PayoffNat DEF PayOff
    <2>2. /\ reserve' = [reserve EXCEPT ![s] = RecordRepay(@, t, n)]
          /\ vault' = [vault EXCEPT ![s] = @ + t]
          /\ CanRepay(reserve[s], slot, t, n)
      BY <1>4 DEF PayOff
    <2> HIDE DEF n
    <2>3. n * rate <= FromU64(t) \/ t = AsU64(reserve[s].outstanding_debt)
      <3>1. n * rate <= FromU64(TokensFromNotes(n, rate, "Up"))
        BY <1>0, <2>1, TokensForNotes, Zenon
      <3> QED BY <3>1 DEF PayoffTokens, Least
    <2> HIDE DEF t
    <2> QED BY <1>4, <2>1, <2>2, <2>3, Zenon DEF Recorded
  <1>5. AccountStep => Goal
    BY <1>1, Zenon DEF AccountStep, InitDepositAccount, InitObligation, CloseObligation,
           InitCollateralAccount, CloseCollateralAccount, InitLoanAccount, CloseLoanAccount,
           tokens, deposit_notes
  <1>6. ASSUME UserStep PROVE Goal
    <2>1. PICK u \in Users, s \in Reserves, a \in Amounts :
            \/ Withdraw(u, s, a) \/ \E to \in Users : DepositTokens(u, s, a, to)
            \/ DepositCollateral(u, s, a) \/ WithdrawCollateral(u, s, a)
            \/ Borrow(u, s, a)
            \/ \E v \in Users : Repay(u, v, s, a)
            \/ \E v \in Users, c \in Reserves, m \in MinCollaterals :
                   Liquidate(u, v, s, c, a, m)
      BY <1>6 DEF UserStep
    <2>2. CASE DepositCollateral(u, s, a) \/ WithdrawCollateral(u, s, a)
      BY <2>2 DEF DepositCollateral, WithdrawCollateral, tokens
    <2>3. ASSUME NEW v \in Users, Repay(u, v, s, a) PROVE UNCHANGED reserve_info /\ Records
      <3>1. /\ PayOff(u, v, s, a, obligation[v])
            /\ UNCHANGED <<clock, reserve_info, deposit_note_mint>>
        BY <2>3 DEF Repay, deposit_notes
      <3> HIDE DEF Records
      <3> QED BY <1>4, <3>1
    <2>4. ASSUME NEW v \in Users, NEW c \in Reserves, NEW m \in MinCollaterals,
                 Liquidate(u, v, s, c, a, m)
          PROVE  UNCHANGED reserve_info /\ Records
      <3> DEFINE before == SubtractCollateral(obligation[v], c,
                               NoteAmount(CollateralTaken(v, s, c, a)))
      <3>1. /\ PayOff(u, v, s, a, before)
            /\ UNCHANGED <<clock, reserve_info, deposit_note_mint>>
        BY <2>4 DEF Liquidate
      <3> HIDE DEF Records, before
      <3> QED BY <1>4, <3>1
    <2> HIDE DEF Records
    <2> QED BY <1>2, <1>3, <2>1, <2>2, <2>3, <2>4
  <1>7. Tick \/ OwnerStep \/ UNCHANGED vars => Goal
    BY DEF Tick, OwnerStep, SetMarketFlags, UpdateReserveConfig, vars, tokens, deposit_notes
  <1>8. Goal BY <1>5, <1>6, <1>7 DEF Next
  <1> QED BY <1>8

-----------------------------------------------------------------------------
(* DepositsKeepBacking and LoanNotesKeepUp.                                *)

(* A reserve whose cached rates are of the present slot has accrued all    *)
(* its interest: refreshing it again in the slot changes no rate.          *)
RatesOfTheSlot ==
    \A r \in Reserves :
        /\ reserve_info[r].last_updated <= slot
        /\ reserve_info[r].last_updated = slot /\ ~reserve_info[r].invalidated =>
               TimeBehind(reserve[r], unix_timestamp) = 0

(* The clock moves alone. *)
LEMMA StepClock ==
  ASSUME [Next]_vars
  PROVE  Tick \/ UNCHANGED clock
  <1>1. OwnerStep => UNCHANGED clock
    BY DEF OwnerStep, SetMarketFlags, UpdateReserveConfig
  <1>2. AccountStep => UNCHANGED clock
    <2>1. ASSUME NEW u \in Users, NEW r \in Reserves
          PROVE  /\ InitDepositAccount(u, r) \/ CloseDepositAccount(u, r) => UNCHANGED clock
                 /\ InitCollateralAccount(u, r) \/ CloseCollateralAccount(u, r)
                        => UNCHANGED clock
                 /\ InitLoanAccount(u, r) \/ CloseLoanAccount(u, r) => UNCHANGED clock
      BY DEF InitDepositAccount, CloseDepositAccount, InitCollateralAccount,
             CloseCollateralAccount, InitLoanAccount, CloseLoanAccount
    <2>2. ASSUME NEW u \in Users, InitObligation(u) \/ CloseObligation(u)
          PROVE  UNCHANGED clock
      BY <2>2 DEF InitObligation, CloseObligation
    <2> QED BY <2>1, <2>2 DEF AccountStep
  <1>3. RefreshStep => UNCHANGED clock BY DEF RefreshStep, RefreshReserve
  <1>4. ASSUME NEW u \in Users, NEW r \in Reserves, NEW a \in Amounts
        PROVE  /\ Withdraw(u, r, a) => UNCHANGED clock
               /\ \A to \in Users : DepositTokens(u, r, a, to) => UNCHANGED clock
               /\ DepositCollateral(u, r, a) => UNCHANGED clock
               /\ WithdrawCollateral(u, r, a) => UNCHANGED clock
               /\ Borrow(u, r, a) => UNCHANGED clock
               /\ \A v \in Users : Repay(u, v, r, a) => UNCHANGED clock
               /\ \A v \in Users, c \in Reserves, m \in MinCollaterals :
                      Liquidate(u, v, r, c, a, m) => UNCHANGED clock
    BY DEF Withdraw, WithdrawTokens, DepositTokens, DepositCollateral,
           WithdrawCollateral, Borrow, Repay, Liquidate
  <1>5. UNCHANGED vars => UNCHANGED clock BY DEF vars, clock
  <1>6. UserStep => UNCHANGED clock BY <1>4 DEF UserStep
  <1> QED BY <1>1, <1>2, <1>3, <1>5, <1>6 DEF Next

(* What a full refresh leaves.                                             *)
FullRefresh(r, accrued, threshold, rate, price) ==
    /\ accrued.accrued_until = unix_timestamp
    /\ accrued.last_updated = slot /\ accrued.invalidated = FALSE
    /\ accrued.total_deposits = reserve[r].total_deposits
    /\ accrued.total_deposit_notes = reserve[r].total_deposit_notes
    /\ accrued.total_loan_notes = reserve[r].total_loan_notes
    /\ TimeBehind(reserve[r], unix_timestamp) = 0 =>
           /\ accrued.outstanding_debt = reserve[r].outstanding_debt
           /\ accrued.uncollected_fees = reserve[r].uncollected_fees
    /\ DepositNoteValue(accrued) >= 0
    /\ rate = DepositNoteExchangeRate(accrued)
    /\ CollectsFees(accrued, threshold) => rate > 0
    /\ reserve' = [reserve EXCEPT ![r] = CollectAccruedFees(accrued, threshold, rate)]
    /\ reserve_info' = [reserve_info EXCEPT ![r] = UpToDateInfo(r, accrued, price)]

(* A refresh is full, or leaves a reserve nobody can use. *)
LEMMA RefreshIs ==
  ASSUME TypeOK, NEW r \in Reserves, NEW price \in Prices, NEW x \in AccrualRates,
         RefreshReserve(r, price, x)
  PROVE  /\ UNCHANGED clock
         /\ \/ /\ \E s : reserve' = [reserve EXCEPT ![r] = s]
               /\ reserve_info' = [reserve_info EXCEPT ![r] = Invalidate(@)]
            \/ \E accrued \in ReserveState, threshold, rate \in Nat :
                  FullRefresh(r, accrued, threshold, rate, price)
  <1> DEFINE accrued == AccrueInterest(reserve[r], x, config[r].manage_fee_rate,
                                       unix_timestamp, slot)
             rate == DepositNoteExchangeRate(accrued)
             threshold == FromU64(config[r].manage_fee_collection_threshold)
  <1>1. UNCHANGED clock BY DEF RefreshReserve
  <1>2. CASE ~IsFull(reserve[r], unix_timestamp)
    BY <1>1, <1>2 DEF RefreshReserve
  <1>3. CASE IsFull(reserve[r], unix_timestamp)
    <2>1. /\ TimeBehind(reserve[r], unix_timestamp) >= 0
          /\ DepositNoteValue(accrued) >= 0
          /\ CollectsFees(accrued, threshold) => rate > 0
          /\ reserve' = [reserve EXCEPT ![r] = CollectAccruedFees(accrued, threshold, rate)]
          /\ reserve_info' = [reserve_info EXCEPT ![r] = UpToDateInfo(r, accrued, price)]
      BY <1>3 DEF RefreshReserve
    <2>2. /\ accrued \in ReserveState
          /\ accrued.last_updated = slot /\ ~accrued.invalidated
          /\ accrued.total_deposits = reserve[r].total_deposits
          /\ accrued.total_deposit_notes = reserve[r].total_deposit_notes
          /\ accrued.total_loan_notes = reserve[r].total_loan_notes
      BY <1>3, RefreshStarts
    <2>3. /\ reserve[r] \in ReserveState /\ unix_timestamp \in Nat /\ slot \in Nat
          /\ config[r] \in Config /\ config[r].manage_fee_rate \in Nat
          /\ config[r].manage_fee_collection_threshold \in Nat
      BY DEF TypeOK, Config
    <2>4. /\ reserve[r].accrued_until \in Nat /\ reserve[r].outstanding_debt \in Nat
          /\ reserve[r].uncollected_fees \in Nat
      BY <2>3 DEF ReserveState
    <2> DEFINE interest == Interest(reserve[r], x, unix_timestamp)
               behind == TimeToAccrue(reserve[r], unix_timestamp)
    <2>5. /\ accrued.accrued_until = reserve[r].accrued_until + behind
          /\ accrued.outstanding_debt = reserve[r].outstanding_debt + interest
          /\ accrued.uncollected_fees
                = reserve[r].uncollected_fees + Mul(interest, config[r].manage_fee_rate)
      BY <2>3 DEF AccrueInterest, Accrued, RefreshTo, Invalidate, ReserveState
    <2>6. behind = unix_timestamp - reserve[r].accrued_until
      BY <1>3, <2>1, <2>3, <2>4, MaxAccrualAssumption
         DEF TimeToAccrue, TimeBehind, Least, IsFull
    <2>7. ASSUME TimeBehind(reserve[r], unix_timestamp) = 0
          PROVE  interest = 0 /\ Mul(interest, config[r].manage_fee_rate) = 0
      <3>1. behind = 0 BY <2>6, <2>7 DEF TimeBehind
      <3>2. interest = 0 BY <3>1 DEF Interest
      <3> HIDE DEF interest
      <3>3. interest * config[r].manage_fee_rate = 0 BY <2>3, <3>2
      <3> QED BY <3>2, <3>3, ONEAssumption DEF Mul
    <2>8. threshold \in Nat BY <2>3, ConversionNat
    <2>9. accrued.invalidated \in BOOLEAN BY <2>2 DEF ReserveState
    <2>10. rate \in Nat
      <3>1. accrued.total_deposit_notes \in Nat BY <2>2 DEF ReserveState
      <3>2. DepositNoteValue(accrued) \in Nat
        <4>1. accrued.total_deposits \in Nat /\ accrued.outstanding_debt \in Nat
              /\ accrued.uncollected_fees \in Nat
          BY <2>2 DEF ReserveState
        <4>2. FromU64(accrued.total_deposits) \in Nat BY <4>1, ConversionNat
        <4> HIDE DEF accrued
        <4> QED BY <2>1, <4>1, <4>2 DEF DepositNoteValue
      <3> HIDE DEF accrued
      <3> QED BY <3>1, <3>2, ExchangeRateNat, Zenon DEF DepositNoteExchangeRate
    <2> HIDE DEF interest, behind
    <2>11. accrued.accrued_until = unix_timestamp BY <2>3, <2>4, <2>5, <2>6
    <2>12. TimeBehind(reserve[r], unix_timestamp) = 0 =>
               /\ accrued.outstanding_debt = reserve[r].outstanding_debt
               /\ accrued.uncollected_fees = reserve[r].uncollected_fees
      BY <2>4, <2>5, <2>7
    <2> HIDE DEF accrued, threshold
    <2>13. FullRefresh(r, accrued, threshold, rate, price)
      BY <2>1, <2>2, <2>9, <2>11, <2>12 DEF FullRefresh
    <2> HIDE DEF rate
    <2> QED BY <1>1, <2>2, <2>8, <2>10, <2>13
  <1> QED BY <1>2, <1>3

(* RatesOfTheSlot stays: the clock makes every rate old, a refresh brings  *)
(* a reserve up to date or invalidates it, and nothing else sets a date.   *)
LEMMA StepRates ==
  ASSUME TypeOK, RatesOfTheSlot, [Next]_vars
  PROVE  RatesOfTheSlot'
  <1> SUFFICES ASSUME NEW r \in Reserves
               PROVE  /\ reserve_info'[r].last_updated <= slot'
                      /\ reserve_info'[r].last_updated = slot' /\ ~reserve_info'[r].invalidated =>
                             TimeBehind(reserve'[r], unix_timestamp') = 0
    BY DEF RatesOfTheSlot
  <1>1. /\ reserve \in [Reserves -> ReserveState]
        /\ reserve_info \in [Reserves -> CachedReserveInfo]
        /\ reserve_info[r].last_updated \in Nat /\ slot \in Nat
        /\ reserve_info[r].last_updated <= slot
    BY DEF TypeOK, CachedReserveInfo, RatesOfTheSlot
  <1>2. CASE Tick
    <2>1. slot' = slot + 1 /\ UNCHANGED reserve_info BY <1>2 DEF Tick
    <2> QED BY <1>1, <2>1
  <1>3. CASE UNCHANGED <<reserve, reserve_info, clock>>
    BY <1>3 DEF RatesOfTheSlot, clock
  <1>4. ASSUME UNCHANGED <<reserve_info, clock>>, NEW s \in Reserves, NEW t \in Nat,
               NEW n \in Nat, NEW fees \in Nat, Recorded(s, t, n, fees)
        PROVE  reserve'[r].accrued_until = reserve[r].accrued_until
    <2>1. reserve[s] \in ReserveState BY <1>1
    <2>2. /\ RecordDeposit(reserve[s], t, n).accrued_until = reserve[s].accrued_until
          /\ RecordWithdraw(reserve[s], t, n).accrued_until = reserve[s].accrued_until
          /\ RecordBorrow(reserve[s], t, n, fees).accrued_until = reserve[s].accrued_until
          /\ RecordRepay(reserve[s], t, n).accrued_until = reserve[s].accrued_until
      BY <2>1 DEF RecordDeposit, RecordWithdraw, RecordBorrow, RecordRepay, ReserveState
    <2>3. reserve'[s] \in {RecordDeposit(reserve[s], t, n), RecordWithdraw(reserve[s], t, n),
                           RecordBorrow(reserve[s], t, n, fees), RecordRepay(reserve[s], t, n)}
      BY <1>1, <1>4 DEF Recorded
    <2>4. r # s => reserve'[r] = reserve[r] BY <1>1, <1>4 DEF Recorded
    <2> QED BY <2>2, <2>3, <2>4
  <1>5. ASSUME NEW s \in Reserves, NEW price \in Prices, NEW x \in AccrualRates,
               RefreshReserve(s, price, x)
        PROVE  /\ reserve_info'[r].last_updated <= slot'
               /\ reserve_info'[r].last_updated = slot' /\ ~reserve_info'[r].invalidated =>
                      TimeBehind(reserve'[r], unix_timestamp') = 0
    <2>1. UNCHANGED <<slot, unix_timestamp>> BY <1>5, RefreshIs DEF clock
    <2>2. CASE r # s
      <3>1. reserve'[r] = reserve[r] /\ reserve_info'[r] = reserve_info[r]
        BY <1>1, <1>5, <2>2 DEF RefreshReserve
      <3> QED BY <2>1, <3>1 DEF RatesOfTheSlot
    <2>3. CASE r = s /\ reserve_info' = [reserve_info EXCEPT ![s] = Invalidate(@)]
      <3>1. /\ reserve_info'[r].last_updated = reserve_info[r].last_updated
            /\ reserve_info'[r].invalidated = TRUE
        BY <1>1, <2>3 DEF Invalidate, CachedReserveInfo
      <3> QED BY <1>1, <2>1, <3>1
    <2>4. ASSUME r = s, NEW accrued \in ReserveState, NEW threshold \in Nat, NEW rate \in Nat,
                 FullRefresh(s, accrued, threshold, rate, price)
          PROVE  /\ reserve_info'[r].last_updated = slot
                 /\ reserve'[r].accrued_until = unix_timestamp
      <3>1. reserve_info'[r].last_updated = slot
        BY <1>1, <2>4 DEF FullRefresh, UpToDateInfo, RefreshTo, CachedReserveInfo
      <3>2. CollectAccruedFees(accrued, threshold, rate).accrued_until = unix_timestamp
        BY <2>4 DEF FullRefresh, CollectAccruedFees, ReserveState
      <3> QED BY <1>1, <2>4, <3>1, <3>2 DEF FullRefresh
    <2>5. unix_timestamp \in Nat BY DEF TypeOK
    <2> QED BY <1>1, <1>5, <2>1, <2>2, <2>3, <2>4, <2>5, RefreshIs DEF TimeBehind
  <1>6. RefreshStep =>
            /\ reserve_info'[r].last_updated <= slot'
            /\ reserve_info'[r].last_updated = slot' /\ ~reserve_info'[r].invalidated =>
                   TimeBehind(reserve'[r], unix_timestamp') = 0
    BY <1>5 DEF RefreshStep
  <1>7. CASE UNCHANGED <<reserve_info, clock>>
             /\ \E s \in Reserves, t, n, fees \in Nat : Recorded(s, t, n, fees)
    <2>1. reserve'[r].accrued_until = reserve[r].accrued_until BY <1>4, <1>7
    <2>2. UNCHANGED <<reserve_info, slot, unix_timestamp>> BY <1>7 DEF clock
    <2> QED BY <2>1, <2>2 DEF RatesOfTheSlot, TimeBehind
  <1> QED BY <1>2, <1>3, <1>6, <1>7, StepReserves, StepClock

(* What notes take at the rate computed of a supply and its notes.         *)
LEMMA RateWorth ==
  ASSUME NEW v \in Nat, NEW n \in Nat, NEW rate, rate = ExchangeRate(v, n)
  PROVE  /\ rate \in Nat /\ rate * n \in Nat /\ OneIfZero(v) \in Nat
         /\ rate * n <= OneIfZero(v)
         /\ n > 0 => OneIfZero(v) < rate * n + n
  <1> DEFINE w == OneIfZero(v)
             m == rate * n
  <1>1. w \in Nat BY ONEAssumption DEF OneIfZero
  <1>2. rate \in Nat BY ExchangeRateNat
  <1>3. m \in Nat BY <1>2, Product
  <1>4. CASE n = 0
    <2>1. m = 0 BY <1>2, <1>4
    <2> HIDE DEF m, w
    <2>2. m <= w BY <1>1, <2>1
    <2> QED BY <1>1, <1>2, <1>4, <2>1, <2>2 DEF m, w
  <1>5. CASE n # 0
    <2> DEFINE d == FromU64(n)
    <2>1. d \in Nat \ {0}
      <3>1. d \in Nat /\ d = n * ONE BY ConversionNat DEF FromU64
      <3>2. 1 * ONE <= n * ONE BY <1>5, Product, ONEAssumption
      <3> QED BY <3>1, <3>2, ONEAssumption
    <2>2. rate = Div(w, d) BY <2>1 DEF ExchangeRate, OneIfZero
    <2> HIDE DEF d, w
    <2>3. rate * d \in Nat /\ w * ONE \in Nat /\ rate * d <= w * ONE
          /\ w * ONE + 1 <= rate * d + d
      BY <1>1, <2>1, <2>2, TruncatedQuotient
    <2>4. rate * d = m * ONE /\ rate * d + d = (m + n) * ONE
      BY <1>2, ONEAssumption DEF d, FromU64
    <2> HIDE DEF m
    <2>5. m <= w BY <1>1, <1>3, <2>3, <2>4, CancelFactor, ONEAssumption
    <2>6. w < m + n
      <3>1. SUFFICES ASSUME m + n <= w PROVE FALSE BY <1>1, <1>3
      <3>2. m + n \in Nat /\ (m + n) * ONE \in Nat BY <1>3, Product, ONEAssumption
      <3>3. (m + n) * ONE <= w * ONE BY <1>1, <3>1, <3>2, Product, ONEAssumption
      <3> QED BY <2>3, <2>4, <3>2, <3>3
    <2> QED BY <1>1, <1>2, <1>3, <2>5, <2>6 DEF m, w
  <1> QED BY <1>4, <1>5

(* What collecting fees makes of s: as many new notes as the fees that are *)
(* no longer taken off the value of all notes are worth at the rate.       *)
FeesForNotes(s, c, rate) ==
    /\ c.outstanding_debt = s.outstanding_debt
    /\ c.total_loan_notes = s.total_loan_notes
    /\ \E k, f \in Nat : /\ c.total_deposit_notes = s.total_deposit_notes + k
                         /\ DepositNoteValue(c) = DepositNoteValue(s) + f
                         /\ rate * k \in Nat /\ rate * k <= f

(* The notes of collected fees are worth no more than the fees.            *)
LEMMA CollectedFees ==
  ASSUME NEW s \in ReserveState, NEW threshold \in Nat, NEW rate \in Nat,
         CollectsFees(s, threshold) => rate > 0,
         NEW c, c = CollectAccruedFees(s, threshold, rate)
  PROVE  FeesForNotes(s, c, rate)
  <1> USE DEF FeesForNotes
  <1>1. /\ s.outstanding_debt \in Nat /\ s.uncollected_fees \in Nat
        /\ s.total_deposits \in Nat /\ s.total_deposit_notes \in Nat
        /\ FromU64(s.total_deposits) \in Nat
    <2>1. /\ s.outstanding_debt \in Nat /\ s.uncollected_fees \in Nat
          /\ s.total_deposits \in Nat /\ s.total_deposit_notes \in Nat
      BY DEF ReserveState
    <2> QED BY <2>1, ConversionNat, Zenon
  <1>2. /\ c.outstanding_debt = s.outstanding_debt
        /\ c.total_loan_notes = s.total_loan_notes
    BY DEF CollectAccruedFees, ReserveState
  <1>3. CASE ~CollectsFees(s, threshold)
    <2>1. c = s BY <1>3 DEF CollectAccruedFees
    <2>2. rate * 0 = 0 OBVIOUS
    <2>3. DepositNoteValue(c) = DepositNoteValue(s) + 0
      BY <1>1, <2>1 DEF DepositNoteValue
    <2>4. c.total_deposit_notes = s.total_deposit_notes + 0 BY <1>1, <2>1
    <2> QED BY <1>2, <2>2, <2>3, <2>4
  <1>4. CASE CollectsFees(s, threshold)
    <2> DEFINE f == s.uncollected_fees
               q == Div(f, rate)
               k == AsU64(q)
    <2>1. rate \in Nat \ {0} BY <1>4
    <2>2. c.total_deposit_notes = s.total_deposit_notes + k
      BY <1>4 DEF CollectAccruedFees, FeeNotes, ReserveState
    <2>3. DepositNoteValue(c) = DepositNoteValue(s) + f
      <3>1. c.uncollected_fees = 0 /\ c.total_deposits = s.total_deposits
        BY <1>4 DEF CollectAccruedFees, ReserveState
      <3> QED BY <1>1, <1>2, <3>1 DEF DepositNoteValue
    <2>4. /\ q \in Nat /\ f * ONE \in Nat /\ q * rate \in Nat /\ q * rate <= f * ONE
      BY <1>1, <2>1, TruncatedQuotient, Zenon
    <2> HIDE DEF f, q
    <2>5. k \in Nat /\ k * ONE \in Nat /\ k * ONE <= q BY <2>4, WholePart
    <2> HIDE DEF k
    <2>6. (k * ONE) * rate <= q * rate BY <2>1, <2>4, <2>5, Product
    <2>7. (k * ONE) * rate = (rate * k) * ONE BY <2>1, <2>5, ONEAssumption
    <2>8. rate * k \in Nat /\ (rate * k) * ONE \in Nat
      BY <2>1, <2>5, Product, ONEAssumption
    <2>9. f \in Nat BY <1>1 DEF f
    <2>10. rate * k <= f
      <3>1. (rate * k) * ONE <= f * ONE BY <2>4, <2>6, <2>7, <2>8
      <3> QED BY <2>8, <2>9, <3>1, CancelFactor, ONEAssumption
    <2> QED BY <1>2, <2>2, <2>3, <2>5, <2>8, <2>9, <2>10
  <1> QED BY <1>3, <1>4

(* What the two properties ask of r in a step. *)
DepositsKeep(r) ==
    Cached(r)' =>
        IF reserve_info'[r] = reserve_info[r]
        THEN DepositShortfall(r)' <=
                 DepositShortfall(r) + DebtDropped(r)
                     + AsU64(reserve_info[r].deposit_note_exchange_rate)
        ELSE DepositShortfall(r)' <= ONE

LoansKeep(r) ==
    Cached(r)' =>
        IF reserve_info'[r] = reserve_info[r]
        THEN \/ LoanShortfall(r)' <=
                   LoanShortfall(r) + AsU64(reserve_info[r].loan_note_exchange_rate)
             \/ /\ reserve'[r].outstanding_debt < ONE
                /\ reserve'[r].total_loan_notes = 0 => reserve'[r].outstanding_debt = 0
        ELSE reserve'[r].total_loan_notes > 0 =>
                 LoanShortfall(r)' < reserve'[r].total_loan_notes

(* Products and conversions distribute over sums and differences. *)
LEMMA Distributes ==
  ASSUME NEW a \in Nat, NEW b \in Nat, NEW c \in Nat
  PROVE  /\ c * a \in Nat /\ c * b \in Nat /\ b * c = c * b
         /\ c * (a + b) = c * a + c * b /\ c * (a - b) = c * a - c * b
  <1>1. c * a \in Nat /\ c * b \in Nat BY Product
  <1> QED BY <1>1

(* So do conversions from tokens. *)
LEMMA FromU64Distributes ==
  ASSUME NEW a \in Nat, NEW b \in Nat
  PROVE  /\ FromU64(a) \in Nat /\ FromU64(b) \in Nat
         /\ FromU64(a + b) = FromU64(a) + FromU64(b)
         /\ FromU64(a - b) = FromU64(a) - FromU64(b)
  <1>1. FromU64(a) \in Nat /\ FromU64(b) \in Nat BY ConversionNat
  <1> QED BY <1>1, ONEAssumption DEF FromU64

(* A debt t tokens short of which is less than a token has t whole tokens. *)
LEMMA WholePartIs ==
  ASSUME NEW a \in Nat, NEW t \in Nat, t * ONE <= a, a < t * ONE + ONE
  PROVE  AsU64(a) = t
  <1> DEFINE n == AsU64(a)
  <1>1. n \in Nat /\ n * ONE \in Nat /\ n * ONE <= a /\ a + 1 <= n * ONE + ONE
    BY WholePart
  <1> HIDE DEF n
  <1>2. t * ONE \in Nat BY Product, ONEAssumption
  <1>3. (n + 1) * ONE = n * ONE + ONE /\ (t + 1) * ONE = t * ONE + ONE
    BY <1>1, ONEAssumption
  <1>4. ~(n + 1 <= t)
    <2>1. n + 1 <= t => (n + 1) * ONE <= t * ONE BY <1>1, Product, ONEAssumption
    <2> QED BY <1>1, <1>2, <1>3, <2>1, ONEAssumption
  <1>5. ~(t + 1 <= n)
    <2>1. t + 1 <= n => (t + 1) * ONE <= n * ONE BY <1>1, Product, ONEAssumption
    <2> QED BY <1>1, <1>2, <1>3, <2>1, ONEAssumption
  <1> QED BY <1>1, <1>4, <1>5 DEF n

(* A reserve left alone keeps what it has. *)
LEMMA UntouchedKeeps ==
  ASSUME TypeOK, NEW r \in Reserves,
         reserve'[r] = reserve[r], reserve_info'[r] = reserve_info[r]
  PROVE  DepositsKeep(r) /\ LoansKeep(r)
  <1>1. /\ reserve[r] \in ReserveState /\ reserve_info[r] \in CachedReserveInfo
    BY DEF TypeOK
  <1> DEFINE debt == reserve[r].outstanding_debt
             notes == reserve[r].total_deposit_notes
             loans == reserve[r].total_loan_notes
             dr == reserve_info[r].deposit_note_exchange_rate
             lr == reserve_info[r].loan_note_exchange_rate
  <1>2. /\ debt \in Nat /\ notes \in Nat /\ loans \in Nat /\ dr \in Nat /\ lr \in Nat
        /\ reserve[r].uncollected_fees \in Nat /\ reserve[r].total_deposits \in Nat
    BY <1>1 DEF ReserveState, CachedReserveInfo
  <1>3. /\ dr * notes \in Nat /\ lr * loans \in Nat
        /\ FromU64(reserve[r].total_deposits) \in Nat
        /\ AsU64(dr) \in Nat /\ AsU64(lr) \in Nat
        /\ FromU64(AsU64(debt)) \in Nat /\ FromU64(AsU64(debt)) <= debt
    BY <1>2, Product, ConversionNat, WholePart, Zenon DEF FromU64
  <1>4. DebtDropped(r) \in Nat
    BY <1>2, <1>3 DEF DebtDropped
  <1>5. /\ DepositShortfall(r) \in Int /\ DepositShortfall(r)' = DepositShortfall(r)
    BY <1>2, <1>3 DEF DepositShortfall, DepositNoteValue
  <1>6. /\ LoanShortfall(r) \in Int /\ LoanShortfall(r)' = LoanShortfall(r)
    BY <1>2, <1>3 DEF LoanShortfall
  <1>7. DepositsKeep(r) BY <1>3, <1>4, <1>5 DEF DepositsKeep
  <1>8. LoansKeep(r) BY <1>3, <1>6 DEF LoansKeep
  <1> QED BY <1>7, <1>8

(* What a handler records takes no more from the depositors of the reserve *)
(* than a division loses and a repayment drops.                            *)
LEMMA RecordedKeepsBacking ==
  ASSUME TypeOK, UNCHANGED reserve_info, NEW r \in Reserves,
         NEW t \in Nat, NEW n \in Nat, NEW fees \in Nat, Recorded(r, t, n, fees)
  PROVE  DepositsKeep(r)
  <1> DEFINE x == reserve[r]
             y == reserve'[r]
             dr == reserve_info[r].deposit_note_exchange_rate
             whole == FromU64(AsU64(x.outstanding_debt))
  <1>1. /\ reserve \in [Reserves -> ReserveState] /\ x \in ReserveState
        /\ reserve_info[r] \in CachedReserveInfo
    BY DEF TypeOK
  <1>2. /\ x.outstanding_debt \in Nat /\ x.uncollected_fees \in Nat
        /\ x.total_deposits \in Nat /\ x.total_deposit_notes \in Nat
        /\ x.total_loan_notes \in Nat /\ dr \in Nat
    BY <1>1 DEF ReserveState, CachedReserveInfo
  <1>3. /\ dr * x.total_deposit_notes \in Nat /\ dr * n \in Nat /\ n * dr = dr * n
        /\ dr * (x.total_deposit_notes + n) = dr * x.total_deposit_notes + dr * n
        /\ dr * (x.total_deposit_notes - n) = dr * x.total_deposit_notes - dr * n
    BY <1>2, Distributes
  <1>4. /\ FromU64(x.total_deposits) \in Nat /\ FromU64(t) \in Nat /\ FromU64(fees) \in Nat
        /\ FromU64(x.total_deposits + t) = FromU64(x.total_deposits) + FromU64(t)
        /\ FromU64(x.total_deposits - t) = FromU64(x.total_deposits) - FromU64(t)
    BY <1>2, FromU64Distributes, Zenon
  <1>5. /\ AsU64(dr) \in Nat /\ whole \in Nat /\ whole <= x.outstanding_debt
    BY <1>2, WholePart, ConversionNat, Zenon DEF FromU64
  <1>6. DebtDropped(r) = IF y.outstanding_debt = 0 THEN x.outstanding_debt - whole ELSE 0
    BY DEF DebtDropped
  <1>7. SUFFICES dr * y.total_deposit_notes - DepositNoteValue(y) <=
                     dr * x.total_deposit_notes - DepositNoteValue(x)
                         + DebtDropped(r) + AsU64(dr)
    BY DEF DepositsKeep, DepositShortfall
  <1>8. /\ DepositNoteValue(x) = x.outstanding_debt + FromU64(x.total_deposits)
                                     - x.uncollected_fees
        /\ DepositNoteValue(y) = y.outstanding_debt + FromU64(y.total_deposits)
                                     - y.uncollected_fees
    BY DEF DepositNoteValue
  <1>9. CASE /\ reserve' = [reserve EXCEPT ![r] = RecordDeposit(@, t, n)]
             /\ n * dr <= FromU64(t)
    <2>1. y = RecordDeposit(x, t, n) BY <1>1, <1>9
    <2>2. /\ y.total_deposits = x.total_deposits + t
          /\ y.total_deposit_notes = x.total_deposit_notes + n
          /\ y.outstanding_debt = x.outstanding_debt
          /\ y.uncollected_fees = x.uncollected_fees
      BY <1>1, <2>1 DEF RecordDeposit, ReserveState
    <2> HIDE DEF x, y, dr, whole
    <2> QED BY <1>2, <1>3, <1>4, <1>5, <1>6, <1>8, <1>9, <2>2
  <1>10. CASE /\ reserve' = [reserve EXCEPT ![r] = RecordWithdraw(@, t, n)]
              /\ FromU64(t) <= n * dr + AsU64(dr)
    <2>1. y = RecordWithdraw(x, t, n) BY <1>1, <1>10
    <2>2. /\ y.total_deposits = x.total_deposits - t
          /\ y.total_deposit_notes = x.total_deposit_notes - n
          /\ y.outstanding_debt = x.outstanding_debt
          /\ y.uncollected_fees = x.uncollected_fees
      BY <1>1, <2>1 DEF RecordWithdraw, ReserveState
    <2> HIDE DEF x, y, dr, whole
    <2> QED BY <1>2, <1>3, <1>4, <1>5, <1>6, <1>8, <1>10, <2>2
  <1>11. CASE reserve' = [reserve EXCEPT ![r] = RecordBorrow(@, t, n, fees)]
    <2>1. y = RecordBorrow(x, t, n, fees) BY <1>1, <1>11
    <2>2. /\ y.total_deposits = x.total_deposits - t
          /\ y.total_deposit_notes = x.total_deposit_notes
          /\ y.outstanding_debt = x.outstanding_debt + FromU64(t) + FromU64(fees)
          /\ y.uncollected_fees = x.uncollected_fees + FromU64(fees)
      BY <1>1, <2>1 DEF RecordBorrow, ReserveState
    <2> HIDE DEF x, y, dr, whole
    <2> QED BY <1>2, <1>3, <1>4, <1>5, <1>6, <1>8, <2>2
  <1>12. CASE /\ reserve' = [reserve EXCEPT ![r] = RecordRepay(@, t, n)]
              /\ CanRepay(reserve[r], slot, t, n)
    <2>1. y = RecordRepay(x, t, n) BY <1>1, <1>12
    <2> DEFINE debt == x.outstanding_debt - FromU64(t)
    <2>2. /\ y.total_deposits = x.total_deposits + t
          /\ y.total_deposit_notes = x.total_deposit_notes
          /\ y.outstanding_debt = IF x.total_loan_notes - n = 0 /\ debt < ONE THEN 0 ELSE debt
          /\ y.uncollected_fees = x.uncollected_fees
      BY <1>1, <2>1 DEF RecordRepay, ReserveState
    <2>3. FromU64(t) <= x.outstanding_debt BY <1>12 DEF CanRepay
    <2>4. debt \in Nat BY <1>2, <1>4, <2>3
    <2>5. CASE x.total_loan_notes - n = 0 /\ debt < ONE
      <3>1. y.outstanding_debt = 0 BY <2>2, <2>5
      <3>2. AsU64(x.outstanding_debt) = t
        BY <1>2, <1>4, <2>3, <2>5, WholePartIs, ONEAssumption DEF FromU64
      <3>3. DebtDropped(r) = debt BY <1>6, <3>1, <3>2
      <3> HIDE DEF x, y, dr, whole
      <3> QED BY <1>2, <1>3, <1>4, <1>5, <1>8, <2>2, <3>1, <3>3
    <2>6. CASE ~(x.total_loan_notes - n = 0 /\ debt < ONE)
      <3>1. y.outstanding_debt = debt BY <2>2, <2>6
      <3> HIDE DEF x, y, dr, whole
      <3>2. DebtDropped(r) >= 0 BY <1>2, <1>5, <1>6
      <3>3. DebtDropped(r) \in Int BY <1>2, <1>5, <1>6
      <3> QED BY <1>2, <1>3, <1>4, <1>5, <1>8, <2>2, <3>1, <3>2, <3>3
    <2> QED BY <2>5, <2>6
  <1> QED BY <1>9, <1>10, <1>11, <1>12 DEF Recorded

(* Nor does it let the debt get ahead of the loan notes. *)
LEMMA RecordedKeepsUp ==
  ASSUME TypeOK, UNCHANGED reserve_info, NEW r \in Reserves,
         NEW t \in Nat, NEW n \in Nat, NEW fees \in Nat, Recorded(r, t, n, fees)
  PROVE  LoansKeep(r)
  <1> DEFINE x == reserve[r]
             y == reserve'[r]
             lr == reserve_info[r].loan_note_exchange_rate
             Keeps == y.outstanding_debt - lr * y.total_loan_notes <=
                          x.outstanding_debt - lr * x.total_loan_notes + AsU64(lr)
             PaidOff == /\ y.outstanding_debt < ONE
                        /\ y.total_loan_notes = 0 => y.outstanding_debt = 0
  <1>1. /\ reserve \in [Reserves -> ReserveState] /\ x \in ReserveState
        /\ reserve_info[r] \in CachedReserveInfo
    BY DEF TypeOK
  <1>2. /\ x.outstanding_debt \in Nat /\ x.total_loan_notes \in Nat /\ lr \in Nat
        /\ AsU64(lr) \in Nat
    BY <1>1, ConversionNat, Zenon DEF ReserveState, CachedReserveInfo
  <1>3. /\ lr * x.total_loan_notes \in Nat /\ lr * n \in Nat /\ n * lr = lr * n
        /\ lr * (x.total_loan_notes + n) = lr * x.total_loan_notes + lr * n
        /\ lr * (x.total_loan_notes - n) = lr * x.total_loan_notes - lr * n
    <2> HIDE DEF x, y, lr, Keeps, PaidOff
    <2> QED BY <1>2, Distributes
  <1>4. /\ FromU64(t) \in Nat /\ FromU64(fees) \in Nat
        /\ FromU64(t + fees) = FromU64(t) + FromU64(fees)
    BY FromU64Distributes
  <1>5. SUFFICES Keeps \/ PaidOff BY DEF LoansKeep, LoanShortfall
  <1>6. CASE \/ reserve' = [reserve EXCEPT ![r] = RecordDeposit(@, t, n)]
             \/ reserve' = [reserve EXCEPT ![r] = RecordWithdraw(@, t, n)]
    <2>1. y = RecordDeposit(x, t, n) \/ y = RecordWithdraw(x, t, n) BY <1>1, <1>6
    <2>2. y.outstanding_debt = x.outstanding_debt /\ y.total_loan_notes = x.total_loan_notes
      BY <1>1, <2>1, Zenon DEF RecordDeposit, RecordWithdraw, ReserveState
    <2> HIDE DEF x, y, lr
    <2> QED BY <1>2, <1>3, <2>2
  <1>7. CASE /\ reserve' = [reserve EXCEPT ![r] = RecordBorrow(@, t, n, fees)]
             /\ FromU64(t + fees) <= n * lr + AsU64(lr)
    <2>1. y = RecordBorrow(x, t, n, fees) BY <1>1, <1>7
    <2>2. /\ y.outstanding_debt = x.outstanding_debt + FromU64(t) + FromU64(fees)
          /\ y.total_loan_notes = x.total_loan_notes + n
      BY <1>1, <2>1 DEF RecordBorrow, ReserveState
    <2> HIDE DEF x, y, lr
    <2> QED BY <1>2, <1>3, <1>4, <1>7, <2>2
  <1>8. CASE /\ reserve' = [reserve EXCEPT ![r] = RecordRepay(@, t, n)]
             /\ CanRepay(reserve[r], slot, t, n)
             /\ n * lr <= FromU64(t) \/ t = AsU64(x.outstanding_debt)
    <2>1. y = RecordRepay(x, t, n) BY <1>1, <1>8
    <2> DEFINE debt == x.outstanding_debt - FromU64(t)
    <2>2. /\ y.total_loan_notes = x.total_loan_notes - n
          /\ y.outstanding_debt = IF x.total_loan_notes - n = 0 /\ debt < ONE THEN 0 ELSE debt
      BY <1>1, <2>1 DEF RecordRepay, ReserveState
    <2>3. debt \in Nat
      <3>1. FromU64(t) <= x.outstanding_debt BY <1>8 DEF CanRepay
      <3> QED BY <1>2, <1>4, <3>1
    <2>4. y.outstanding_debt <= debt /\ y.outstanding_debt \in Nat
      <3> HIDE DEF x, y, debt
      <3> QED BY <2>2, <2>3
    <2>5. CASE n * lr <= FromU64(t)
      <3>1. lr * y.total_loan_notes = lr * x.total_loan_notes - lr * n BY <1>3, <2>2
      <3>2. y.outstanding_debt <= x.outstanding_debt - FromU64(t) BY <2>4
      <3>3. y.outstanding_debt \in Nat BY <2>4
      <3> HIDE DEF x, y, lr
      <3> QED BY <1>2, <1>3, <1>4, <2>5, <3>1, <3>2, <3>3
    <2>6. CASE t = AsU64(x.outstanding_debt)
      <3>1. x.outstanding_debt + 1 <= FromU64(t) + ONE
        BY <1>2, <2>6, WholePart, Zenon DEF FromU64
      <3>2. debt < ONE BY <1>2, <1>4, <3>1, ONEAssumption
      <3> HIDE DEF x, y, debt
      <3> QED BY <2>2, <2>3, <2>4, <3>2, ONEAssumption
    <2> QED BY <1>8, <2>5, <2>6
  <1> QED BY <1>6, <1>7, <1>8 DEF Recorded

(* A refresh that changes no rate charges nothing, and the notes of the    *)
(* fees it collects are worth the fees; new rates are worth what there is. *)
LEMMA RefreshKeeps ==
  ASSUME TypeOK, RatesOfTheSlot, NEW r \in Reserves, NEW price \in Prices,
         NEW accrued \in ReserveState, NEW threshold \in Nat, NEW rate \in Nat,
         FullRefresh(r, accrued, threshold, rate, price), UNCHANGED clock
  PROVE  DepositsKeep(r) /\ LoansKeep(r)
  <1> DEFINE c == CollectAccruedFees(accrued, threshold, rate)
             lr == LoanNoteExchangeRate(accrued)
             value == DepositNoteValue(accrued)
             notes == accrued.total_deposit_notes
  <1>1. /\ reserve \in [Reserves -> ReserveState] /\ reserve[r] \in ReserveState
        /\ reserve_info \in [Reserves -> CachedReserveInfo]
        /\ reserve_info[r] \in CachedReserveInfo /\ slot \in Nat
    BY DEF TypeOK
  <1>2. /\ accrued.outstanding_debt \in Nat /\ accrued.uncollected_fees \in Nat
        /\ accrued.total_deposits \in Nat /\ notes \in Nat
        /\ accrued.total_loan_notes \in Nat /\ FromU64(accrued.total_deposits) \in Nat
    <2>1. /\ accrued.outstanding_debt \in Nat /\ accrued.uncollected_fees \in Nat
          /\ accrued.total_deposits \in Nat /\ notes \in Nat
          /\ accrued.total_loan_notes \in Nat
      BY DEF ReserveState
    <2> QED BY <2>1, ConversionNat, Zenon
  <1>3. value \in Nat
    <2>1. value >= 0 BY DEF FullRefresh
    <2> QED BY <1>2, <2>1 DEF DepositNoteValue
  <1>4. rate = ExchangeRate(value, notes)
    BY DEF FullRefresh, DepositNoteExchangeRate
  <1>5. /\ reserve'[r] = c
        /\ reserve_info'[r] = UpToDateInfo(r, accrued, price)
    BY <1>1 DEF FullRefresh
  <1>6. /\ reserve_info'[r].deposit_note_exchange_rate = rate
        /\ reserve_info'[r].loan_note_exchange_rate = lr
        /\ reserve_info'[r].last_updated = slot /\ ~reserve_info'[r].invalidated
    BY <1>1, <1>5 DEF UpToDateInfo, RefreshTo, CachedReserveInfo, FullRefresh
  <1>7. /\ FeesForNotes(accrued, c, rate)
        /\ c.outstanding_debt = accrued.outstanding_debt
        /\ c.total_loan_notes = accrued.total_loan_notes
    <2>1. CollectsFees(accrued, threshold) => rate > 0 BY DEF FullRefresh
    <2>2. FeesForNotes(accrued, c, rate) BY <2>1, CollectedFees
    <2> QED BY <2>2 DEF FeesForNotes
  <1>8. PICK k \in Nat, f \in Nat : /\ c.total_deposit_notes = notes + k
                                    /\ DepositNoteValue(c) = value + f
                                    /\ rate * k \in Nat /\ rate * k <= f
    BY <1>7 DEF FeesForNotes
  <1>9. /\ rate * notes \in Nat /\ rate * c.total_deposit_notes = rate * notes + rate * k
    BY <1>2, <1>8, Distributes
  <1>10. CASE reserve_info'[r] # reserve_info[r]
    <2>1. rate * notes <= OneIfZero(value) /\ OneIfZero(value) \in Nat
      BY <1>2, <1>3, <1>4, RateWorth, Zenon
    <2>2. OneIfZero(value) <= value + ONE BY <1>3, ONEAssumption DEF OneIfZero
    <2>3. DepositShortfall(r)' <= ONE
      <3>1. DepositShortfall(r)' = rate * c.total_deposit_notes - DepositNoteValue(c)
        BY <1>5, <1>6 DEF DepositShortfall
      <3> HIDE DEF c, value, notes
      <3> QED BY <1>3, <1>8, <1>9, <2>1, <2>2, <3>1, ONEAssumption
    <2>4. accrued.total_loan_notes > 0 =>
              LoanShortfall(r)' < accrued.total_loan_notes
      <3>1. LoanShortfall(r)' = accrued.outstanding_debt - lr * accrued.total_loan_notes
        BY <1>5, <1>6, <1>7 DEF LoanShortfall
      <3>2. /\ lr * accrued.total_loan_notes \in Nat
            /\ OneIfZero(accrued.outstanding_debt) \in Nat
            /\ accrued.total_loan_notes > 0 =>
                   OneIfZero(accrued.outstanding_debt)
                       < lr * accrued.total_loan_notes + accrued.total_loan_notes
        BY <1>2, RateWorth, Zenon DEF LoanNoteExchangeRate
      <3>3. accrued.outstanding_debt <= OneIfZero(accrued.outstanding_debt)
        BY <1>2, ONEAssumption DEF OneIfZero
      <3> HIDE DEF lr
      <3> QED BY <1>2, <3>1, <3>2, <3>3
    <2> HIDE DEF c
    <2> QED BY <1>5, <1>7, <1>10, <2>3, <2>4 DEF DepositsKeep, LoansKeep
  <1>11. CASE reserve_info'[r] = reserve_info[r]
    <2>1. TimeBehind(reserve[r], unix_timestamp) = 0
      BY <1>6, <1>11 DEF RatesOfTheSlot
    <2>2. /\ accrued.outstanding_debt = reserve[r].outstanding_debt
          /\ accrued.uncollected_fees = reserve[r].uncollected_fees
          /\ accrued.total_deposits = reserve[r].total_deposits
          /\ notes = reserve[r].total_deposit_notes
          /\ accrued.total_loan_notes = reserve[r].total_loan_notes
      BY <2>1 DEF FullRefresh
    <2>3. value = DepositNoteValue(reserve[r]) BY <2>2 DEF DepositNoteValue
    <2>4. /\ AsU64(rate) \in Nat
          /\ AsU64(reserve_info[r].loan_note_exchange_rate) \in Nat
      BY <1>1, ConversionNat DEF CachedReserveInfo
    <2>5. DebtDropped(r) >= 0 /\ DebtDropped(r) \in Int
      <3> DEFINE whole == FromU64(AsU64(reserve[r].outstanding_debt))
      <3>1. /\ reserve[r].outstanding_debt \in Nat /\ whole \in Nat
            /\ whole <= reserve[r].outstanding_debt
        BY <1>2, <2>2, WholePart, Zenon DEF FromU64
      <3> HIDE DEF whole
      <3>2. DebtDropped(r) = IF reserve'[r].outstanding_debt = 0
                             THEN reserve[r].outstanding_debt - whole ELSE 0
        BY DEF DebtDropped, whole
      <3> QED BY <3>1, <3>2
    <2>6. DepositShortfall(r)' <= DepositShortfall(r)
          /\ DepositShortfall(r)' \in Int /\ DepositShortfall(r) \in Int
      <3>1. DepositShortfall(r)' = rate * c.total_deposit_notes - DepositNoteValue(c)
        BY <1>5, <1>6 DEF DepositShortfall
      <3>2. DepositShortfall(r) = rate * notes - value
        BY <1>6, <1>11, <2>2, <2>3 DEF DepositShortfall
      <3> HIDE DEF c, value, notes
      <3> QED BY <1>3, <1>8, <1>9, <3>1, <3>2
    <2>7. LoanShortfall(r)' = LoanShortfall(r) /\ LoanShortfall(r) \in Int
      <3>1. reserve_info[r].loan_note_exchange_rate \in Nat
        BY <1>1 DEF CachedReserveInfo
      <3>2. reserve_info[r].loan_note_exchange_rate * accrued.total_loan_notes \in Nat
        BY <1>2, <3>1, Product
      <3> QED BY <1>2, <1>5, <1>7, <1>11, <2>2, <3>2 DEF LoanShortfall
    <2>8. DepositsKeep(r)
      BY <1>6, <1>11, <2>4, <2>5, <2>6 DEF DepositsKeep
    <2>9. LoansKeep(r) BY <1>11, <2>4, <2>7 DEF LoansKeep
    <2> QED BY <2>8, <2>9
  <1> QED BY <1>10, <1>11

(* So every step keeps them. *)
LEMMA NextKeepsPrices ==
  ASSUME TypeOK, RatesOfTheSlot, [Next]_vars, NEW r \in Reserves
  PROVE  DepositsKeep(r) /\ LoansKeep(r)
  <1>1. /\ reserve \in [Reserves -> ReserveState]
        /\ reserve_info \in [Reserves -> CachedReserveInfo]
    BY DEF TypeOK
  <1>2. CASE UNCHANGED <<reserve, reserve_info>> BY <1>2, UntouchedKeeps
  <1>3. ASSUME NEW s \in Reserves, NEW price \in Prices, NEW x \in AccrualRates,
               RefreshReserve(s, price, x)
        PROVE  DepositsKeep(r) /\ LoansKeep(r)
    <2>1. CASE r # s
      <3>1. reserve'[r] = reserve[r] /\ reserve_info'[r] = reserve_info[r]
        BY <1>1, <1>3, <2>1 DEF RefreshReserve
      <3> QED BY <3>1, UntouchedKeeps
    <2>2. CASE r = s /\ reserve_info' = [reserve_info EXCEPT ![s] = Invalidate(@)]
      <3>1. reserve_info'[r].invalidated = TRUE
        BY <1>1, <2>2 DEF Invalidate, CachedReserveInfo
      <3> QED BY <3>1 DEF DepositsKeep, LoansKeep, Cached, Fresh
    <2>3. ASSUME r = s, NEW accrued \in ReserveState, NEW threshold \in Nat, NEW rate \in Nat,
                 FullRefresh(s, accrued, threshold, rate, price), UNCHANGED clock
          PROVE  DepositsKeep(r) /\ LoansKeep(r)
      BY <2>3, RefreshKeeps
    <2> QED BY <1>3, <2>1, <2>2, <2>3, RefreshIs
  <1>4. ASSUME UNCHANGED reserve_info, NEW s \in Reserves, NEW t \in Nat, NEW n \in Nat,
               NEW fees \in Nat, Recorded(s, t, n, fees)
        PROVE  DepositsKeep(r) /\ LoansKeep(r)
    <2>1. CASE r # s
      <3>1. reserve'[r] = reserve[r] BY <1>1, <1>4, <2>1 DEF Recorded
      <3> QED BY <1>4, <3>1, UntouchedKeeps
    <2>2. CASE r = s BY <1>4, <2>2, RecordedKeepsBacking, RecordedKeepsUp
    <2> QED BY <2>1, <2>2
  <1>5. RefreshStep => DepositsKeep(r) /\ LoansKeep(r) BY <1>3 DEF RefreshStep
  <1> QED BY <1>2, <1>4, <1>5, StepReserves

(* The market begins so late that no reserve passes for refreshed. *)
LEMMA InitRates == Init => RatesOfTheSlot
  <1> SUFFICES ASSUME Init PROVE RatesOfTheSlot OBVIOUS
  <1>1. slot \in Nat /\ slot > ReserveTTL BY InputsAssumption DEF Init
  <1>2. \A r \in Reserves : reserve_info[r].last_updated = 0
    BY DEF Init, NewReserveInfo
  <1> QED BY <1>1, <1>2 DEF RatesOfTheSlot, ReserveTTL

(* Rates of the present slot are rates of a reserve charged up to now. *)
LEMMA RatesAreOfTheSlot == Spec => [](TypeOK /\ RatesOfTheSlot)
  <1>1. TypeOK /\ RatesOfTheSlot /\ [Next]_vars => RatesOfTheSlot' BY StepRates
  <1> QED BY <1>1, InitRates, TypeCorrect, PTL DEF Spec

(* At a cached rate, however old, no deposit, withdrawal, loan, repayment, *)
(* liquidation or repeated refresh takes more from the other depositors    *)
(* than what one division loses and the fraction of a debt that is dropped;*)
(* and new rates promise no more than the reserve has.                     *)
THEOREM DepositsStayBacked == Spec => DepositsKeepBacking
  <1>1. TypeOK /\ RatesOfTheSlot /\ [Next]_vars =>
            [\A r \in Reserves :
                Cached(r)' =>
                    IF reserve_info'[r] = reserve_info[r]
                    THEN DepositShortfall(r)' <=
                             DepositShortfall(r) + DebtDropped(r)
                                 + AsU64(reserve_info[r].deposit_note_exchange_rate)
                    ELSE DepositShortfall(r)' <= ONE]_vars
    BY NextKeepsPrices DEF DepositsKeep
  <1> QED BY <1>1, RatesAreOfTheSlot, PTL DEF Spec, DepositsKeepBacking

(* Nor does debt get ahead of the notes that are to pay it: whatever is    *)
(* borrowed and repaid at a cached rate, and at every new rate.            *)
THEOREM LoanNotesStayAhead == Spec => LoanNotesKeepUp
  <1>1. TypeOK /\ RatesOfTheSlot /\ [Next]_vars =>
            [\A r \in Reserves :
                Cached(r)' =>
                    IF reserve_info'[r] = reserve_info[r]
                    THEN \/ LoanShortfall(r)' <=
                               LoanShortfall(r)
                                   + AsU64(reserve_info[r].loan_note_exchange_rate)
                         \/ /\ reserve'[r].outstanding_debt < ONE
                            /\ reserve'[r].total_loan_notes = 0 =>
                                   reserve'[r].outstanding_debt = 0
                    ELSE reserve'[r].total_loan_notes > 0 =>
                             LoanShortfall(r)' < reserve'[r].total_loan_notes]_vars
    BY NextKeepsPrices DEF LoansKeep
  <1> QED BY <1>1, RatesAreOfTheSlot, PTL DEF Spec, LoanNotesKeepUp

-----------------------------------------------------------------------------
(* Debt without notes.  NoOrphanDebt says there is none; it rests on a     *)
(* bound of what the roundings of one slot add up to, which no invariant   *)
(* of every market gives.  What holds of every market is how a reserve can *)
(* come to it.                                                             *)

(* Debt is left on the books that nobody can repay. *)
DebtOrphaned(r) == reserve[r].total_loan_notes = 0 /\ reserve[r].outstanding_debt # 0

(* The ways to it: the debt was ahead of its notes' worth by all that is   *)
(* left, a token at least; or a note is worth ONE tokens (10^15), and a    *)
(* loan is made for less than one.                                         *)
NotesFellBehind(r) ==
    /\ Cached(r)
    /\ \/ /\ ONE <= reserve'[r].outstanding_debt
          /\ reserve'[r].outstanding_debt <= LoanShortfall(r)
       \/ ONE <= AsU64(reserve_info[r].loan_note_exchange_rate)

(* A loan adds notes to its debt and a repayment burns the debt of its     *)
(* notes: what the last note leaves is what the notes fell short of, and   *)
(* is dropped if it is less than a token.                                  *)
LEMMA RecordedOrphansNone ==
  ASSUME AccountingInv, UNCHANGED <<reserve_info, clock>>,
         NEW r \in Reserves, NEW t \in Nat, NEW n \in Nat, NEW fees \in Nat,
         Recorded(r, t, n, fees), DebtOrphaned(r)'
  PROVE  DebtOrphaned(r) \/ NotesFellBehind(r)
  <1> SUFFICES ASSUME ~DebtOrphaned(r) PROVE NotesFellBehind(r)
    OBVIOUS
  <1> DEFINE x == reserve[r]
             y == reserve'[r]
             lr == reserve_info[r].loan_note_exchange_rate
  <1>1. /\ reserve \in [Reserves -> ReserveState] /\ x \in ReserveState
        /\ reserve_info[r] \in CachedReserveInfo
        /\ x.total_loan_notes = 0 => x.outstanding_debt = 0
        /\ y.total_loan_notes = 0 /\ y.outstanding_debt # 0
        /\ x.last_updated = reserve_info[r].last_updated
        /\ x.invalidated = reserve_info[r].invalidated
    BY DEF AccountingInv, TypeOK, CachesAgree, DebtOrphaned
  <1>2. /\ x.outstanding_debt \in Nat /\ x.total_loan_notes \in Nat /\ lr \in Nat
    BY <1>1 DEF ReserveState, CachedReserveInfo
  <1>3. Fresh(x, slot, ReserveTTL) => Cached(r)
    BY <1>1 DEF Fresh, Cached
  <1>4. FromU64(t) \in Nat /\ FromU64(fees) \in Nat BY ConversionNat
  <1>5. CASE \/ reserve' = [reserve EXCEPT ![r] = RecordDeposit(@, t, n)]
             \/ reserve' = [reserve EXCEPT ![r] = RecordWithdraw(@, t, n)]
    <2>1. y = RecordDeposit(x, t, n) \/ y = RecordWithdraw(x, t, n) BY <1>1, <1>5
    <2>2. y.outstanding_debt = x.outstanding_debt /\ y.total_loan_notes = x.total_loan_notes
      BY <1>1, <2>1, Zenon DEF RecordDeposit, RecordWithdraw, ReserveState
    <2> QED BY <1>1, <2>2
  <1>6. CASE /\ reserve' = [reserve EXCEPT ![r] = RecordBorrow(@, t, n, fees)]
             /\ CanBorrow(reserve[r], slot, t)
             /\ FromU64(t + fees) <= n * lr + AsU64(lr)
    <2>1. y = RecordBorrow(x, t, n, fees) BY <1>1, <1>6
    <2>2. /\ y.outstanding_debt = x.outstanding_debt + FromU64(t) + FromU64(fees)
          /\ y.total_loan_notes = x.total_loan_notes + n
      BY <1>1, <2>1 DEF RecordBorrow, ReserveState
    <2>3. n = 0 /\ x.total_loan_notes = 0 BY <1>1, <1>2, <2>2
    <2>4. x.outstanding_debt = 0 BY <1>1, <2>3
    <2>5. t + fees # 0
      <3>1. t + fees = 0 => FromU64(t) = 0 /\ FromU64(fees) = 0
        BY ONEAssumption DEF FromU64
      <3> QED BY <1>1, <2>2, <2>4, <3>1
    <2>6. n * lr = 0 BY <1>2, <2>3
    <2>7. 1 * ONE <= (t + fees) * ONE BY <2>5, Product, ONEAssumption
    <2>8. ONE <= AsU64(lr)
      <3>1. AsU64(lr) \in Nat BY <1>2, ConversionNat, Zenon
      <3>2. (t + fees) * ONE \in Nat BY ONEAssumption
      <3> QED BY <1>6, <2>6, <2>7, <3>1, <3>2, ONEAssumption DEF FromU64
    <2> QED BY <1>3, <1>6, <2>8 DEF CanBorrow, NotesFellBehind
  <1>7. CASE /\ reserve' = [reserve EXCEPT ![r] = RecordRepay(@, t, n)]
             /\ CanRepay(reserve[r], slot, t, n)
             /\ n * lr <= FromU64(t) \/ t = AsU64(x.outstanding_debt)
    <2>1. y = RecordRepay(x, t, n) BY <1>1, <1>7
    <2> DEFINE debt == x.outstanding_debt - FromU64(t)
    <2>2. /\ y.total_loan_notes = x.total_loan_notes - n
          /\ y.outstanding_debt = IF x.total_loan_notes - n = 0 /\ debt < ONE THEN 0 ELSE debt
      BY <1>1, <2>1 DEF RecordRepay, ReserveState
    <2>3. n = x.total_loan_notes BY <1>1, <1>2, <2>2
    <2>4. y.outstanding_debt = debt /\ ONE <= debt
      BY <1>1, <1>2, <1>4, <2>2, ONEAssumption
    <2>5. n * lr <= FromU64(t)
      <3>1. CASE t = AsU64(x.outstanding_debt)
        <4>1. x.outstanding_debt + 1 <= FromU64(t) + ONE
          BY <1>2, <3>1, WholePart DEF FromU64
        <4> QED BY <1>2, <1>4, <2>4, <4>1, ONEAssumption
      <3> QED BY <1>7, <3>1
    <2>6. debt <= LoanShortfall(r)
      <3>1. LoanShortfall(r) = x.outstanding_debt - lr * n BY <2>3 DEF LoanShortfall
      <3>2. n * lr = lr * n /\ lr * n \in Nat BY <1>2, Distributes
      <3> HIDE DEF x, lr
      <3> QED BY <1>2, <1>4, <2>5, <3>1, <3>2
    <2> QED BY <1>3, <1>7, <2>4, <2>6 DEF CanRepay, NotesFellBehind
  <1> QED BY <1>5, <1>6, <1>7 DEF Recorded

(* No interest accrues on no debt. *)
LEMMA RefreshOrphansNone ==
  ASSUME TypeOK, NEW r \in Reserves, NEW s \in Reserves, NEW price \in Prices,
         NEW x \in AccrualRates, RefreshReserve(s, price, x), DebtOrphaned(r)'
  PROVE  DebtOrphaned(r)
  <1> DEFINE fee_rate == config[s].manage_fee_rate
             accrued == AccrueInterest(reserve[s], x, fee_rate, unix_timestamp, slot)
             rate == DepositNoteExchangeRate(accrued)
             threshold == FromU64(config[s].manage_fee_collection_threshold)
             interest == Interest(reserve[s], x, unix_timestamp)
  <1>1. /\ reserve \in [Reserves -> ReserveState] /\ reserve[s] \in ReserveState
        /\ x \in Nat
    BY InputsAssumption DEF TypeOK
  <1>2. /\ accrued.total_loan_notes = reserve[s].total_loan_notes
        /\ accrued.outstanding_debt = reserve[s].outstanding_debt + interest
    BY <1>1 DEF AccrueInterest, Accrued, RefreshTo, Invalidate, ReserveState
  <1>3. reserve[s].outstanding_debt = 0 => interest = 0
    <2>1. reserve[s].outstanding_debt = 0 => reserve[s].outstanding_debt * x = 0 BY <1>1
    <2> QED BY <2>1, ONEAssumption DEF Interest, Mul
  <1>4. /\ CollectAccruedFees(accrued, threshold, rate).total_loan_notes
               = accrued.total_loan_notes
        /\ CollectAccruedFees(accrued, threshold, rate).outstanding_debt
               = accrued.outstanding_debt
    <2>1. accrued = [reserve[s] EXCEPT !.outstanding_debt = accrued.outstanding_debt,
                                       !.uncollected_fees = accrued.uncollected_fees,
                                       !.accrued_until = accrued.accrued_until,
                                       !.last_updated = accrued.last_updated,
                                       !.invalidated = accrued.invalidated]
      BY <1>1, Zenon DEF AccrueInterest, Accrued, RefreshTo, Invalidate, ReserveState
    <2> HIDE DEF accrued
    <2> QED BY <1>1, <2>1 DEF CollectAccruedFees, ReserveState
  <1>5. /\ reserve'[s] \in {accrued, CollectAccruedFees(accrued, threshold, rate)}
        /\ r # s => reserve'[r] = reserve[r]
    BY <1>1 DEF RefreshReserve
  <1> HIDE DEF accrued, interest, threshold, rate
  <1>6. /\ reserve'[s].total_loan_notes = reserve[s].total_loan_notes
        /\ reserve'[s].outstanding_debt = reserve[s].outstanding_debt + interest
    BY <1>2, <1>4, <1>5
  <1>7. CASE r = s
    <2>1. reserve[s].total_loan_notes = 0 /\ reserve[s].outstanding_debt + interest # 0
      BY <1>6, <1>7 DEF DebtOrphaned
    <2>2. reserve[s].outstanding_debt = 0 => reserve[s].outstanding_debt + interest = 0
      BY <1>3
    <2> QED BY <1>7, <2>1, <2>2 DEF DebtOrphaned
  <1> QED BY <1>5, <1>7 DEF DebtOrphaned

(* No step leaves debt without notes in any other way. *)
LEMMA NextOrphansNone ==
  ASSUME AccountingInv, [Next]_vars, NEW r \in Reserves, DebtOrphaned(r)'
  PROVE  DebtOrphaned(r) \/ NotesFellBehind(r)
  <1>1. TypeOK /\ reserve \in [Reserves -> ReserveState]
    BY DEF AccountingInv, TypeOK
  <1>2. CASE UNCHANGED <<reserve, reserve_info>> BY <1>2 DEF DebtOrphaned
  <1>3. CASE RefreshStep BY <1>1, <1>3, RefreshOrphansNone DEF RefreshStep
  <1>4. ASSUME UNCHANGED <<reserve_info, clock>>, NEW s \in Reserves, NEW t \in Nat,
               NEW n \in Nat, NEW fees \in Nat, Recorded(s, t, n, fees)
        PROVE  DebtOrphaned(r) \/ NotesFellBehind(r)
    <2>1. CASE r # s
      <3>1. reserve'[r] = reserve[r] BY <1>1, <1>4, <2>1 DEF Recorded
      <3> QED BY <3>1 DEF DebtOrphaned
    <2>2. CASE r = s BY <1>4, <2>2, RecordedOrphansNone
    <2> QED BY <2>1, <2>2
  <1> QED BY <1>1, <1>2, <1>3, <1>4, StepReserves

(* In every market debt outlives its last note in one way only: the debt   *)
(* had outgrown the worth of its notes, at the cached rate, by a token or  *)
(* more, and that is what is left.  No other repayment, no loan (unless a  *)
(* note is worth ONE tokens), no interest and no closing of an account     *)
(* leaves any.                                                             *)
THEOREM OrphansAreRoundings ==
  Spec => [][\A r \in Reserves :
                ~DebtOrphaned(r) /\ DebtOrphaned(r)' => NotesFellBehind(r)]_vars
  <1>1. AccountingInv /\ [Next]_vars =>
            [\A r \in Reserves :
                ~DebtOrphaned(r) /\ DebtOrphaned(r)' => NotesFellBehind(r)]_vars
    BY NextOrphansNone
  <1> QED BY <1>1, AccountingInvariant, PTL DEF Spec

-----------------------------------------------------------------------------
(* What holders of a kind of notes have in all, and what one change of a   *)
(* balance makes of it.                                                    *)

(* What the holders of a kind of notes have in all is a sum over the       *)
(* users.                                                                  *)
LEMMA HoldersIsTotal == ASSUME NEW b PROVE Holders(b) = Total(b, Users)
  BY SumIsTotal, Zenon DEF Holders

(* It is a natural number.                                                 *)
LEMMA HoldersNat == ASSUME NEW b \in [Users -> Nat] PROVE Holders(b) \in Nat
  <1>1. \A u \in Users : b[u] \in Nat OBVIOUS
  <1>2. Total(b, Users) \in Nat BY <1>1, TotalNat, UsersAssumption
  <1> QED BY <1>2, HoldersIsTotal

(* From f to g one balance, of u in r, changes by d. *)
Changes(f, g, r, u, d) ==
    /\ f \in [Reserves -> [Users -> Nat]] /\ g \in [Reserves -> [Users -> Nat]]
    /\ \A s \in Reserves, v \in Users :
          g[s][v] = IF s = r /\ v = u THEN f[s][v] + d ELSE f[s][v]

(* When one balance changes by d, so does the sum over its reserve, and    *)
(* no other reserve's.                                                     *)
LEMMA HoldersChange ==
  ASSUME NEW f, NEW g, NEW r \in Reserves, NEW u \in Users, NEW d \in Int,
         Changes(f, g, r, u, d), NEW s \in Reserves
  PROVE  /\ Holders(f[s]) \in Nat
         /\ Holders(g[s]) = Holders(f[s]) + (IF s = r THEN d ELSE 0)
  <1>1. g[s] \in [Users -> Nat] /\ f[s] \in [Users -> Nat] BY DEF Changes
  <1>2. Holders(g[s]) \in Nat /\ Holders(f[s]) \in Nat BY <1>1, HoldersNat
  <1>3. CASE s # r
    <2>1. g[s] = f[s] BY <1>1, <1>3 DEF Changes
    <2> QED BY <1>2, <1>3, <2>1
  <1>4. CASE s = r
    <2> DEFINE a == f[s]
               b == g[s]
               hold == Holders(b)
               held == Holders(a)
    <2>1. \A v \in Users : a[v] \in Nat /\ b[v] \in Nat BY <1>1
    <2>2. b[u] = a[u] + d /\ \A v \in Users \ {u} : b[v] = a[v] BY <1>4 DEF Changes
    <2>3. hold \in Nat /\ held \in Nat BY <1>2
    <2>4. hold = Total(b, Users) /\ held = Total(a, Users) BY HoldersIsTotal
    <2> HIDE DEF a, b, hold, held
    <2>5. Total(b, Users) - b[u] = Total(a, Users) - a[u]
      BY <2>1, <2>2, TotalChanges, UsersAssumption
    <2>6. a[u] \in Nat /\ b[u] \in Nat /\ b[u] = a[u] + d BY <2>1, <2>2
    <2>7. hold = held + d BY <2>3, <2>4, <2>5, <2>6
    <2> QED BY <1>2, <1>4, <2>7 DEF a, b, hold, held
  <1> QED BY <1>3, <1>4, <1>2

-----------------------------------------------------------------------------
(* Every note is in some account: the part of TotalsMatchNotes about r.    *)
DepositNotesHeld(r) ==
    deposit_note_mint[r] = Holders(deposit_account[r])
        + Holders(collateral_account[r]) + fee_note_vault[r]
LoanNotesHeld(r) == loan_note_mint[r] = Holders(loan_account[r])
NotesHeld == \A r \in Reserves : DepositNotesHeld(r) /\ LoanNotesHeld(r)

(* Balances, supplies and sums of balances are what TypeOK says.           *)
LEMMA NotesTyped ==
  ASSUME TypeOK
  PROVE  /\ deposit_account \in [Reserves -> [Users -> Nat]]
         /\ collateral_account \in [Reserves -> [Users -> Nat]]
         /\ loan_account \in [Reserves -> [Users -> Nat]]
         /\ fee_note_vault \in [Reserves -> Nat] /\ deposit_note_mint \in [Reserves -> Nat]
         /\ loan_note_mint \in [Reserves -> Nat]
         /\ \A r \in Reserves :
               /\ Holders(deposit_account[r]) \in Nat /\ Holders(collateral_account[r]) \in Nat
               /\ Holders(loan_account[r]) \in Nat
  BY HoldersNat DEF TypeOK

(* A balance that is set changes by the difference. *)
LEMMA BalanceChanges ==
  ASSUME NEW f \in [Reserves -> [Users -> Nat]], NEW g \in [Reserves -> [Users -> Nat]],
         NEW r \in Reserves, NEW u \in Users, NEW n \in Nat
  PROVE  /\ g = [f EXCEPT ![r][u] = @ + n] => Changes(f, g, r, u, n)
         /\ g = [f EXCEPT ![r][u] = @ - n] => Changes(f, g, r, u, -n)
  <1>1. f[r][u] \in Nat OBVIOUS
  <1>2. f[r][u] - n = f[r][u] + (-n) BY <1>1
  <1> QED BY <1>2 DEF Changes

(* A step that moves no notes.                                             *)
LEMMA UntouchedNotes ==
  ASSUME NotesHeld, UNCHANGED <<deposit_notes, loan_notes>>
  PROVE  NotesHeld'
  BY DEF NotesHeld, DepositNotesHeld, LoanNotesHeld, deposit_notes, loan_notes

(* A refresh mints as many notes as it puts into the fee vault.            *)
LEMMA RefreshNotes ==
  ASSUME TypeOK, NotesHeld, NEW r \in Reserves, NEW price \in Prices,
         NEW x \in AccrualRates, RefreshReserve(r, price, x)
  PROVE  NotesHeld'
  <1>1. CASE UNCHANGED deposit_notes
    BY <1>1, UntouchedNotes DEF RefreshReserve
  <1>2. CASE ~UNCHANGED deposit_notes
    <2>1. PICK n \in Nat : /\ fee_note_vault' = [fee_note_vault EXCEPT ![r] = @ + n]
                           /\ deposit_note_mint' = [deposit_note_mint EXCEPT ![r] = @ + n]
                           /\ UNCHANGED <<deposit_account, collateral_account>>
      BY <1>2, FeeNotesNat DEF RefreshReserve
    <2>2. UNCHANGED loan_notes BY DEF RefreshReserve
    <2>3. ASSUME NEW s \in Reserves PROVE DepositNotesHeld(s)' /\ LoanNotesHeld(s)'
      <3>1. DepositNotesHeld(s) /\ LoanNotesHeld(s) BY DEF NotesHeld
      <3>2. CASE s = r
        BY <2>1, <2>2, <3>1, <3>2, NotesTyped DEF DepositNotesHeld, LoanNotesHeld, loan_notes
      <3>3. CASE s # r
        BY <2>1, <2>2, <3>1, <3>3, NotesTyped DEF DepositNotesHeld, LoanNotesHeld, loan_notes
      <3> QED BY <3>2, <3>3
    <2> QED BY <2>3 DEF NotesHeld
  <1> QED BY <1>1, <1>2

(* One account of reserve r, of either kind, changes by d. *)
ChangesOneAccount(r, u, d) ==
    \/ /\ Changes(deposit_account, deposit_account', r, u, d)
       /\ UNCHANGED collateral_account
    \/ /\ Changes(collateral_account, collateral_account', r, u, d)
       /\ UNCHANGED deposit_account

(* Notes minted into, or burned from, one account. *)
LEMMA MintedNotes ==
  ASSUME TypeOK, TypeOK', NEW r \in Reserves, NEW u \in Users, NEW d \in Int,
         \A s \in Reserves : DepositNotesHeld(s),
         deposit_note_mint' = [deposit_note_mint EXCEPT ![r] = @ + d],
         ChangesOneAccount(r, u, d), UNCHANGED fee_note_vault
  PROVE  \A s \in Reserves : DepositNotesHeld(s)'
  <1> SUFFICES ASSUME NEW s \in Reserves PROVE DepositNotesHeld(s)'
    OBVIOUS
  <1>1. Holders(deposit_account'[s]) + Holders(collateral_account'[s])
          = Holders(deposit_account[s]) + Holders(collateral_account[s])
              + (IF s = r THEN d ELSE 0)
    <2>1. CASE Changes(deposit_account, deposit_account', r, u, d)
               /\ UNCHANGED collateral_account
      <3>1. Holders(deposit_account'[s])
              = Holders(deposit_account[s]) + (IF s = r THEN d ELSE 0)
        BY <2>1, HoldersChange
      <3> QED BY <2>1, <3>1, NotesTyped
    <2>2. CASE Changes(collateral_account, collateral_account', r, u, d)
               /\ UNCHANGED deposit_account
      <3>1. Holders(collateral_account'[s])
              = Holders(collateral_account[s]) + (IF s = r THEN d ELSE 0)
        BY <2>2, HoldersChange
      <3> QED BY <2>2, <3>1, NotesTyped
    <2> QED BY <2>1, <2>2 DEF ChangesOneAccount
  <1>2. /\ deposit_note_mint'[s] = deposit_note_mint[s] + (IF s = r THEN d ELSE 0)
        /\ UNCHANGED fee_note_vault
    BY NotesTyped
  <1> QED BY <1>1, <1>2, NotesTyped DEF DepositNotesHeld

(* Notes moved from a collateral account to a deposit account or, when d   *)
(* is negative, back.                                                      *)
LEMMA MovedNotes ==
  ASSUME TypeOK, TypeOK', NEW r \in Reserves, NEW u \in Users, NEW v \in Users,
         NEW d \in Int, \A s \in Reserves : DepositNotesHeld(s),
         Changes(deposit_account, deposit_account', r, u, d),
         Changes(collateral_account, collateral_account', r, v, -d),
         UNCHANGED <<fee_note_vault, deposit_note_mint>>
  PROVE  \A s \in Reserves : DepositNotesHeld(s)'
  <1> SUFFICES ASSUME NEW s \in Reserves PROVE DepositNotesHeld(s)'
    OBVIOUS
  <1>1. Holders(deposit_account'[s])
          = Holders(deposit_account[s]) + (IF s = r THEN d ELSE 0)
    BY HoldersChange
  <1>2. Holders(collateral_account'[s])
          = Holders(collateral_account[s]) + (IF s = r THEN -d ELSE 0)
    <2>1. -d \in Int OBVIOUS
    <2> QED BY <2>1, HoldersChange
  <1>3. Holders(deposit_account'[s]) + Holders(collateral_account'[s])
          = Holders(deposit_account[s]) + Holders(collateral_account[s])
    BY <1>1, <1>2, NotesTyped
  <1> QED BY <1>3, NotesTyped DEF DepositNotesHeld

(* Loan notes minted or burned. *)
LEMMA LoanedNotes ==
  ASSUME TypeOK, TypeOK', NEW r \in Reserves, NEW u \in Users,
         NEW d \in Int, \A s \in Reserves : LoanNotesHeld(s),
         Changes(loan_account, loan_account', r, u, d),
         loan_note_mint' = [loan_note_mint EXCEPT ![r] = @ + d]
  PROVE  \A s \in Reserves : LoanNotesHeld(s)'
  <1> SUFFICES ASSUME NEW s \in Reserves PROVE LoanNotesHeld(s)'
    OBVIOUS
  <1>1. Holders(loan_account'[s]) = Holders(loan_account[s]) + (IF s = r THEN d ELSE 0)
    BY HoldersChange
  <1>2. loan_note_mint'[s] = loan_note_mint[s] + (IF s = r THEN d ELSE 0)
    BY NotesTyped
  <1> QED BY <1>1, <1>2, NotesTyped DEF LoanNotesHeld

(* A deposit mints into a deposit account or a collateral account.         *)
LEMMA DepositNotes ==
  ASSUME TypeOK, TypeOK', NotesHeld, NEW u \in Users, NEW to \in Users, NEW r \in Reserves,
         NEW amount \in Amounts, DepositTokens(u, r, amount, to)
  PROVE  NotesHeld'
  <1> DEFINE n == AsDepositNotes(amount, reserve_info[r], "Down")
  <1>1. reserve_info[r] \in CachedReserveInfo BY DEF TypeOK
  <1>2. n \in Nat BY <1>1, AmountsNat DEF DepositTokens
  <1>3. /\ deposit_note_mint' = [deposit_note_mint EXCEPT ![r] = @ + n]
        /\ IntoDepositAccount(to, r, n) \/ IntoCollateralAccount(to, r, n)
        /\ UNCHANGED loan_notes
    BY DEF DepositTokens
  <1> HIDE DEF n
  <1>4. ChangesOneAccount(r, to, n) /\ UNCHANGED fee_note_vault
    <2>1. CASE IntoDepositAccount(to, r, n)
      <3>1. /\ deposit_account \in [Reserves -> [Users -> Nat]]
            /\ deposit_account' \in [Reserves -> [Users -> Nat]]
        BY DEF TypeOK
      <3> QED BY <1>2, <2>1, <3>1, BalanceChanges, Zenon DEF IntoDepositAccount, ChangesOneAccount
    <2>2. CASE IntoCollateralAccount(to, r, n)
      <3>1. /\ collateral_account \in [Reserves -> [Users -> Nat]]
            /\ collateral_account' \in [Reserves -> [Users -> Nat]]
        BY DEF TypeOK
      <3> QED BY <1>2, <2>2, <3>1, BalanceChanges DEF IntoCollateralAccount, ChangesOneAccount
    <2> QED BY <1>3, <2>1, <2>2
  <1>5. \A s \in Reserves : DepositNotesHeld(s)'
    <2>1. n \in Int /\ \A s \in Reserves : DepositNotesHeld(s) BY <1>2 DEF NotesHeld
    <2> QED BY <1>3, <1>4, <2>1, MintedNotes, Zenon
  <1> QED BY <1>3, <1>5 DEF NotesHeld, LoanNotesHeld, loan_notes

(* Notes are burned from a deposit account.                                *)
LEMMA BurnNotes ==
  ASSUME TypeOK, TypeOK', NotesHeld, NEW u \in Users, NEW r \in Reserves, NEW n \in Nat,
         BurnDepositNotes(r, u, n), UNCHANGED loan_notes
  PROVE  NotesHeld'
  <1> DEFINE d == -n
  <1>1. d \in Int OBVIOUS
  <1>2. ChangesOneAccount(r, u, d) /\ UNCHANGED fee_note_vault
    <2>1. /\ deposit_account \in [Reserves -> [Users -> Nat]]
          /\ deposit_account' \in [Reserves -> [Users -> Nat]]
      BY DEF TypeOK
    <2> QED BY <2>1, BalanceChanges, Zenon DEF BurnDepositNotes, ChangesOneAccount
  <1>3. deposit_note_mint' = [deposit_note_mint EXCEPT ![r] = @ + d]
    BY NotesTyped, Zenon DEF BurnDepositNotes
  <1> HIDE DEF d
  <1>4. \A s \in Reserves : DepositNotesHeld(s) BY DEF NotesHeld
  <1>5. \A s \in Reserves : DepositNotesHeld(s)' BY <1>1, <1>2, <1>3, <1>4, MintedNotes, Zenon
  <1> QED BY <1>5 DEF NotesHeld, LoanNotesHeld, loan_notes

(* By withdrawals, and when a deposit account that still holds notes is    *)
(* closed.                                                                 *)
LEMMA WithdrawNotes ==
  ASSUME TypeOK, TypeOK', NotesHeld, NEW u \in Users, NEW r \in Reserves,
         \/ \E amount \in Amounts : WithdrawTokens(u, r, amount)
         \/ CloseDepositAccount(u, r)
  PROVE  NotesHeld'
  <1>1. reserve_info[r] \in CachedReserveInfo /\ deposit_account[r][u] \in Nat
    BY DEF TypeOK
  <1>2. UNCHANGED loan_notes BY DEF WithdrawTokens, CloseDepositAccount
  <1>3. ASSUME NEW amount \in Amounts, WithdrawTokens(u, r, amount) PROVE NotesHeld'
    <2> DEFINE n == AsDepositNotes(amount, reserve_info[r], "Up")
    <2>1. n \in Nat BY <1>1, <1>3, AmountsNat DEF WithdrawTokens
    <2>2. BurnDepositNotes(r, u, n) BY <1>3 DEF WithdrawTokens
    <2> HIDE DEF n
    <2> QED BY <1>2, <2>1, <2>2, BurnNotes
  <1>4. CASE CloseDepositAccount(u, r)
    <2>1. UNCHANGED deposit_notes \/ BurnDepositNotes(r, u, deposit_account[r][u])
      BY <1>4 DEF CloseDepositAccount
    <2> QED BY <1>1, <1>2, <2>1, BurnNotes, UntouchedNotes
  <1> QED BY <1>3, <1>4

(* Pledging and unpledging moves notes from one kind of account to the     *)
(* other.                                                                  *)
LEMMA CollateralNotes ==
  ASSUME TypeOK, TypeOK', NotesHeld, NEW u \in Users, NEW r \in Reserves,
         NEW amount \in Amounts,
         DepositCollateral(u, r, amount) \/ WithdrawCollateral(u, r, amount)
  PROVE  NotesHeld'
  <1>0. /\ deposit_account \in [Reserves -> [Users -> Nat]]
        /\ deposit_account' \in [Reserves -> [Users -> Nat]]
        /\ collateral_account \in [Reserves -> [Users -> Nat]]
        /\ collateral_account' \in [Reserves -> [Users -> Nat]]
    BY DEF TypeOK
  <1>1. reserve_info[r] \in CachedReserveInfo BY DEF TypeOK
  <1>2. UNCHANGED <<fee_note_vault, deposit_note_mint, loan_notes>>
    BY DEF DepositCollateral, WithdrawCollateral
  <1>3. PICK d \in Int : /\ Changes(deposit_account, deposit_account', r, u, d)
                         /\ Changes(collateral_account, collateral_account', r, u, -d)
    <2>1. CASE DepositCollateral(u, r, amount)
      <3> DEFINE n == AsDepositNotes(amount, reserve_info[r], "Down")
      <3>1. n \in Nat BY <1>1, <2>1, AmountsNat DEF DepositCollateral
      <3>2. /\ deposit_account' = [deposit_account EXCEPT ![r][u] = @ - n]
            /\ collateral_account' = [collateral_account EXCEPT ![r][u] = @ + n]
        BY <2>1 DEF DepositCollateral
      <3> HIDE DEF n
      <3>3. /\ Changes(deposit_account, deposit_account', r, u, -n)
            /\ Changes(collateral_account, collateral_account', r, u, n)
        BY <1>0, <3>1, <3>2, BalanceChanges, Zenon
      <3>4. -n \in Int /\ -(-n) = n BY <3>1
      <3> QED BY <3>3, <3>4
    <2>2. CASE WithdrawCollateral(u, r, amount)
      <3> DEFINE n == AsDepositNotes(amount, reserve_info[r], "Up")
      <3>1. n \in Nat BY <1>1, <2>2, AmountsNat DEF WithdrawCollateral
      <3>2. /\ deposit_account' = [deposit_account EXCEPT ![r][u] = @ + n]
            /\ collateral_account' = [collateral_account EXCEPT ![r][u] = @ - n]
        BY <2>2 DEF WithdrawCollateral
      <3> HIDE DEF n
      <3>3. /\ Changes(deposit_account, deposit_account', r, u, n)
            /\ Changes(collateral_account, collateral_account', r, u, -n)
        BY <1>0, <3>1, <3>2, BalanceChanges, Zenon
      <3> QED BY <3>1, <3>3
    <2> QED BY <2>1, <2>2
  <1>4. \A s \in Reserves : DepositNotesHeld(s)'
    BY <1>2, <1>3, MovedNotes DEF NotesHeld
  <1> QED BY <1>2, <1>4 DEF NotesHeld, LoanNotesHeld, loan_notes

(* A loan mints into the loan account.                                     *)
LEMMA BorrowNotes ==
  ASSUME TypeOK, TypeOK', NotesHeld, NEW u \in Users, NEW r \in Reserves,
         NEW a \in Amounts, Borrow(u, r, a)
  PROVE  NotesHeld'
  <1> DEFINE t    == AsTokens(a, reserve_info[r], "Down")
             fees == BorrowFee(config[r].loan_origination_fee, t)
             n    == NotesFromTokens(t + fees, reserve_info[r].loan_note_exchange_rate, "Up")
  <1>1. /\ reserve_info[r].loan_note_exchange_rate > 0
        /\ loan_account' = [loan_account EXCEPT ![r][u] = @ + n]
        /\ loan_note_mint' = [loan_note_mint EXCEPT ![r] = @ + n]
        /\ UNCHANGED deposit_notes
    BY DEF Borrow
  <1>2. n \in Nat
    <2>1. config[r].loan_origination_fee \in Nat BY DEF TypeOK, Config
    <2> QED BY <1>1, <2>1, NewNotesNat
  <1> HIDE DEF n
  <1>3. Changes(loan_account, loan_account', r, u, n)
    <2>1. /\ loan_account \in [Reserves -> [Users -> Nat]]
          /\ loan_account' \in [Reserves -> [Users -> Nat]]
      BY DEF TypeOK
    <2> QED BY <1>1, <1>2, <2>1, BalanceChanges, Zenon
  <1>4. \A s \in Reserves : LoanNotesHeld(s)'
    <2>1. \A s \in Reserves : LoanNotesHeld(s) BY DEF NotesHeld
    <2>2. n \in Int BY <1>2
    <2> QED BY <1>1, <1>3, <2>1, <2>2, LoanedNotes, Zenon
  <1> QED BY <1>1, <1>4 DEF NotesHeld, DepositNotesHeld, deposit_notes

(* Notes burned from a loan account. *)
LEMMA BurnLoanNotes ==
  ASSUME TypeOK, TypeOK', NEW u \in Users, NEW r \in Reserves, NEW n \in Nat,
         \A s \in Reserves : LoanNotesHeld(s),
         loan_account' = [loan_account EXCEPT ![r][u] = @ - n],
         loan_note_mint' = [loan_note_mint EXCEPT ![r] = @ - n]
  PROVE  \A s \in Reserves : LoanNotesHeld(s)'
  <1> DEFINE d == -n
  <1>1. d \in Int OBVIOUS
  <1>2. loan_note_mint' = [loan_note_mint EXCEPT ![r] = @ + d]
    <2>1. loan_note_mint[r] \in Nat BY NotesTyped
    <2>2. loan_note_mint[r] - n = loan_note_mint[r] + d BY <2>1
    <2> HIDE DEF d
    <2> QED BY <2>2, Zenon
  <1>3. Changes(loan_account, loan_account', r, u, d)
    <2>1. /\ loan_account \in [Reserves -> [Users -> Nat]]
          /\ loan_account' \in [Reserves -> [Users -> Nat]]
      BY DEF TypeOK
    <2> QED BY <2>1, BalanceChanges, Zenon
  <1> HIDE DEF d
  <1> QED BY <1>1, <1>2, <1>3, LoanedNotes, Zenon

(* A repayment, or the repayment in a liquidation, burns from the loan     *)
(* account.                                                                *)
LEMMA PayOffNotes ==
  ASSUME TypeOK, TypeOK', NotesHeld, NEW payer \in Users, NEW u \in Users,
         NEW r \in Reserves, NEW a \in Amounts, NEW before, PayOff(payer, u, r, a, before)
  PROVE  \A s \in Reserves : LoanNotesHeld(s)'
  <1> DEFINE n == PayoffNotes(u, r, a)
  <1>1. /\ loan_account' = [loan_account EXCEPT ![r][u] = @ - n]
        /\ loan_note_mint' = [loan_note_mint EXCEPT ![r] = @ - n]
    BY DEF PayOff
  <1>2. n \in Nat BY PayoffNat DEF PayOff
  <1> HIDE DEF n
  <1> QED BY <1>1, <1>2, BurnLoanNotes, Zenon DEF NotesHeld

(* A liquidation moves collateral from one user to another's deposit       *)
(* account, in one reserve, and burns loan notes in perhaps another.       *)
LEMMA LiquidateNotes ==
  ASSUME TypeOK, TypeOK', NotesHeld, NEW payer \in Users, NEW u \in Users,
         NEW r \in Reserves, NEW c \in Reserves, NEW a \in Amounts,
         NEW m \in MinCollaterals, Liquidate(payer, u, r, c, a, m)
  PROVE  NotesHeld'
  <1> DEFINE n == CollateralTaken(u, r, c, a)
             before == SubtractCollateral(obligation[u], c, NoteAmount(n))
  <1>1. /\ n \in m .. collateral_account[c][u]
        /\ collateral_account' = [collateral_account EXCEPT ![c][u] = @ - n]
        /\ deposit_account' = [deposit_account EXCEPT ![c][payer] = @ + n]
        /\ PayOff(payer, u, r, a, before)
        /\ UNCHANGED <<fee_note_vault, deposit_note_mint>>
    BY DEF Liquidate
  <1> HIDE DEF n, before
  <1>2. n \in Nat
    <2>1. m \in Nat /\ collateral_account[c][u] \in Nat BY InputsAssumption DEF TypeOK
    <2> QED BY <1>1, <2>1
  <1>3. /\ Changes(deposit_account, deposit_account', c, payer, n)
        /\ Changes(collateral_account, collateral_account', c, u, -n)
    <2>1. /\ deposit_account \in [Reserves -> [Users -> Nat]]
          /\ deposit_account' \in [Reserves -> [Users -> Nat]]
          /\ collateral_account \in [Reserves -> [Users -> Nat]]
          /\ collateral_account' \in [Reserves -> [Users -> Nat]]
      BY DEF TypeOK
    <2> QED BY <1>1, <1>2, <2>1, BalanceChanges, Zenon
  <1>4. \A s \in Reserves : DepositNotesHeld(s)'
    <2>1. \A s \in Reserves : DepositNotesHeld(s) BY DEF NotesHeld
    <2>2. n \in Int BY <1>2
    <2> QED BY <1>1, <1>3, <2>1, <2>2, MovedNotes, Zenon
  <1>5. \A s \in Reserves : LoanNotesHeld(s)' BY <1>1, PayOffNotes
  <1> QED BY <1>4, <1>5 DEF NotesHeld

(* No notes at first.                                                      *)
LEMMA InitNotes == Init => NotesHeld
  <1> SUFFICES ASSUME Init, NEW r \in Reserves
               PROVE  DepositNotesHeld(r) /\ LoanNotesHeld(r)
    BY DEF NotesHeld
  <1>1. /\ deposit_note_mint[r] = 0 /\ loan_note_mint[r] = 0 /\ fee_note_vault[r] = 0
        /\ \A u \in Users : /\ deposit_account[r][u] = 0 /\ collateral_account[r][u] = 0
                            /\ loan_account[r][u] = 0
    BY DEF Init, NoNotes
  <1>2. /\ Total(deposit_account[r], Users) = 0 /\ Total(collateral_account[r], Users) = 0
        /\ Total(loan_account[r], Users) = 0
    BY <1>1, TotalZero, UsersAssumption
  <1> QED BY <1>1, <1>2, HoldersIsTotal DEF DepositNotesHeld, LoanNotesHeld

(* The clock, the settings and the opening and closing of accounts move    *)
(* no notes.                                                               *)
LEMMA QuietNotes ==
  ASSUME NotesHeld,
         \/ Tick \/ OwnerStep
         \/ \E u \in Users : InitObligation(u) \/ CloseObligation(u)
         \/ \E u \in Users, r \in Reserves :
               \/ InitDepositAccount(u, r)
               \/ InitCollateralAccount(u, r) \/ CloseCollateralAccount(u, r)
               \/ InitLoanAccount(u, r) \/ CloseLoanAccount(u, r)
         \/ UNCHANGED vars
  PROVE  NotesHeld'
  <1>1. UNCHANGED <<deposit_notes, loan_notes>>
    BY Zenon DEF Tick, OwnerStep, SetMarketFlags, UpdateReserveConfig, InitObligation,
           CloseObligation, InitDepositAccount, InitCollateralAccount,
           CloseCollateralAccount, InitLoanAccount, CloseLoanAccount,
           vars, deposit_notes, loan_notes
  <1> QED BY <1>1, UntouchedNotes

(* The inductive invariant.                                                *)
NotesInv == AccountingInv /\ NotesHeld

(* Every step keeps the notes where they are counted.                      *)
LEMMA StepNotes ==
  ASSUME TypeOK, TypeOK', NotesHeld, [Next]_vars
  PROVE  NotesHeld'
  <1>1. CASE Tick \/ OwnerStep \/ UNCHANGED vars BY <1>1, QuietNotes
  <1>2. CASE AccountStep BY <1>2, QuietNotes, WithdrawNotes DEF AccountStep
  <1>3. CASE RefreshStep BY <1>3, RefreshNotes DEF RefreshStep
  <1>4. CASE UserStep
    <2>1. PICK u \in Users, r \in Reserves, a \in Amounts :
            \/ \E to \in Users : DepositTokens(u, r, a, to)
            \/ Withdraw(u, r, a)
            \/ DepositCollateral(u, r, a) \/ WithdrawCollateral(u, r, a)
            \/ Borrow(u, r, a)
            \/ \E v \in Users : Repay(u, v, r, a)
            \/ \E v \in Users, c \in Reserves, m \in MinCollaterals :
                   Liquidate(u, v, r, c, a, m)
      BY <1>4 DEF UserStep
    <2>2. CASE \E to \in Users : DepositTokens(u, r, a, to)
      BY <2>2, DepositNotes
    <2>3. CASE Withdraw(u, r, a) BY <2>3, WithdrawNotes DEF Withdraw
    <2>4. CASE DepositCollateral(u, r, a) \/ WithdrawCollateral(u, r, a)
      BY <2>4, CollateralNotes
    <2>5. CASE Borrow(u, r, a) BY <2>5, BorrowNotes
    <2>6. ASSUME NEW v \in Users, Repay(u, v, r, a) PROVE NotesHeld'
      <3>1. PayOff(u, v, r, a, obligation[v]) /\ UNCHANGED deposit_notes
        BY <2>6 DEF Repay
      <3>2. \A s \in Reserves : LoanNotesHeld(s)' BY <3>1, PayOffNotes
      <3> QED BY <3>1, <3>2 DEF NotesHeld, DepositNotesHeld, deposit_notes
    <2>7. CASE \E v \in Users, c \in Reserves, m \in MinCollaterals :
                   Liquidate(u, v, r, c, a, m)
      BY <2>7, LiquidateNotes
    <2> QED BY <2>1, <2>2, <2>3, <2>4, <2>5, <2>6, <2>7
  <1> QED BY <1>1, <1>2, <1>3, <1>4 DEF Next

(* So the invariant is inductive.                                          *)
LEMMA NextNotes == NotesInv /\ [Next]_vars => NotesInv'
  <1> SUFFICES ASSUME NotesInv, [Next]_vars PROVE NotesInv'
    OBVIOUS
  <1>1. AccountingInv /\ AccountingInv' /\ NotesHeld BY NextAccounting DEF NotesInv
  <1>2. TypeOK /\ TypeOK' BY <1>1 DEF AccountingInv
  <1>3. NotesHeld' BY <1>1, <1>2, StepNotes
  <1> QED BY <1>1, <1>3 DEF NotesInv

(* Every note a reserve's totals count is in some account, in every market *)
(* and whatever order its users act in.                                    *)
THEOREM NotesAreHeld == Spec => []TotalsMatchNotes
  <1>1. Init => NotesInv BY InitAccounting, InitNotes DEF NotesInv
  <1>2. NotesInv => TotalsMatchNotes
    BY DEF NotesInv, AccountingInv, TotalsMatchNotes, NotesHeld, DepositNotesHeld,
           LoanNotesHeld
  <1> QED BY <1>1, <1>2, NextNotes, PTL DEF Spec

-----------------------------------------------------------------------------
(* HaltsRespected: no path through the instructions makes or reduces a     *)
(* loan, takes collateral back, or moves notes in or out of a reserve,     *)
(* past a flag.                                                            *)

(* What a step does with respect to the flags, in one reserve. *)
HaltsRespectedAt(r) ==
    /\ "HALT_BORROWS" \in flags =>
          /\ loan_note_mint'[r] <= loan_note_mint[r]
          /\ \A u \in Users : collateral_account'[r][u] < collateral_account[r][u] =>
                 ~IsHealthy(obligation[u], reserve_info)
    /\ "HALT_REPAYS" \in flags => loan_note_mint'[r] >= loan_note_mint[r]
    /\ "HALT_DEPOSITS" \in flags =>
          deposit_note_mint'[r] - fee_note_vault'[r]
              = deposit_note_mint[r] - fee_note_vault[r]

(* No collateral account loses notes. *)
KeepsCollateral(r) ==
    \A u \in Users : ~(collateral_account'[r][u] < collateral_account[r][u])

(* Untouched collateral accounts lose none, nor do accounts notes are      *)
(* added to.                                                               *)
LEMMA KeepingCollateral ==
  ASSUME TypeOK, NEW s \in Reserves,
         \/ UNCHANGED collateral_account
         \/ \E u \in Users, r \in Reserves, n \in Nat :
               collateral_account' = [collateral_account EXCEPT ![r][u] = @ + n]
  PROVE  KeepsCollateral(s)
  <1> SUFFICES ASSUME NEW v \in Users
               PROVE  ~(collateral_account'[s][v] < collateral_account[s][v])
    BY DEF KeepsCollateral
  <1>1. /\ collateral_account \in [Reserves -> [Users -> Nat]]
        /\ collateral_account[s] \in [Users -> Nat]
        /\ collateral_account[s][v] \in Nat
    BY DEF TypeOK
  <1>2. CASE UNCHANGED collateral_account BY <1>1, <1>2
  <1>3. ASSUME NEW u \in Users, NEW r \in Reserves, NEW n \in Nat,
               collateral_account' = [collateral_account EXCEPT ![r][u] = @ + n]
        PROVE  ~(collateral_account'[s][v] < collateral_account[s][v])
    <2>1. collateral_account'[s][v] =
              IF s = r /\ v = u THEN collateral_account[s][v] + n ELSE collateral_account[s][v]
      BY <1>1, <1>3
    <2> QED BY <1>1, <2>1
  <1> QED BY <1>2, <1>3

(* A step that touches no note that a flag speaks of. *)
LEMMA UntouchedHalts ==
  ASSUME TypeOK, NEW r \in Reserves, KeepsCollateral(r),
         UNCHANGED <<loan_note_mint, deposit_note_mint, fee_note_vault>>
  PROVE  HaltsRespectedAt(r)
  BY DEF TypeOK, HaltsRespectedAt, KeepsCollateral

(* The clock, the settings and the accounts. *)
LEMMA QuietHalts ==
  ASSUME TypeOK, NEW s \in Reserves,
         \/ Tick \/ OwnerStep
         \/ \E u \in Users : InitObligation(u) \/ CloseObligation(u)
         \/ \E u \in Users, r \in Reserves :
               \/ InitDepositAccount(u, r)
               \/ InitCollateralAccount(u, r) \/ CloseCollateralAccount(u, r)
               \/ InitLoanAccount(u, r) \/ CloseLoanAccount(u, r)
         \/ UNCHANGED vars
  PROVE  HaltsRespectedAt(s)
  <1> DEFINE Untouched == UNCHANGED <<loan_note_mint, deposit_note_mint, fee_note_vault,
                                      collateral_account>>
  <1>1. CASE Tick \/ OwnerStep \/ UNCHANGED vars
    <2>1. Untouched
      BY <1>1 DEF Tick, OwnerStep, SetMarketFlags, UpdateReserveConfig, vars,
                  deposit_notes, loan_notes
    <2> QED BY <2>1, KeepingCollateral, UntouchedHalts
  <1>2. ASSUME NEW u \in Users, InitObligation(u) \/ CloseObligation(u)
        PROVE  HaltsRespectedAt(s)
    <2>1. Untouched
      BY <1>2 DEF InitObligation, CloseObligation, deposit_notes, loan_notes
    <2> QED BY <2>1, KeepingCollateral, UntouchedHalts
  <1>3. ASSUME NEW u \in Users, NEW r \in Reserves,
               \/ InitDepositAccount(u, r)
               \/ InitCollateralAccount(u, r) \/ CloseCollateralAccount(u, r)
               \/ InitLoanAccount(u, r) \/ CloseLoanAccount(u, r)
        PROVE  HaltsRespectedAt(s)
    <2>1. Untouched
      BY <1>3 DEF InitDepositAccount, InitCollateralAccount, CloseCollateralAccount,
                  InitLoanAccount, CloseLoanAccount, deposit_notes, loan_notes
    <2> QED BY <2>1, KeepingCollateral, UntouchedHalts
  <1> QED BY <1>1, <1>2, <1>3

(* Collateral is pledged whatever the flags, and given back only if        *)
(* borrowing is not halted.                                                *)
LEMMA CollateralHalts ==
  ASSUME TypeOK, NEW s \in Reserves, NEW u \in Users, NEW r \in Reserves,
         NEW a \in Amounts, DepositCollateral(u, r, a) \/ WithdrawCollateral(u, r, a)
  PROVE  HaltsRespectedAt(s)
  <1>1. UNCHANGED <<loan_note_mint, deposit_note_mint, fee_note_vault>>
    BY DEF DepositCollateral, WithdrawCollateral, loan_notes
  <1>2. CASE DepositCollateral(u, r, a)
    <2> DEFINE n == AsDepositNotes(a, reserve_info[r], "Down")
    <2>1. /\ HasDepositNotes(a, reserve_info[r])
          /\ collateral_account' = [collateral_account EXCEPT ![r][u] = @ + n]
      BY <1>2 DEF DepositCollateral
    <2>2. n \in Nat
      <3>1. reserve_info[r] \in CachedReserveInfo BY DEF TypeOK
      <3> QED BY <2>1, <3>1, AmountsNat
    <2> HIDE DEF n
    <2>3. KeepsCollateral(s) BY <2>1, <2>2, KeepingCollateral, Zenon
    <2> QED BY <1>1, <2>3, UntouchedHalts
  <1>3. CASE WithdrawCollateral(u, r, a)
    <2>1. "HALT_BORROWS" \notin flags BY <1>3 DEF WithdrawCollateral, VerifyAbilityBorrow
    <2> QED BY <1>1, <2>1 DEF HaltsRespectedAt, TypeOK
  <1> QED BY <1>2, <1>3

(* A refresh mints what it pays itself in fees, and no loan notes. *)
LEMMA RefreshHalts ==
  ASSUME TypeOK, NEW s \in Reserves, NEW r \in Reserves, NEW price \in Prices,
         NEW x \in AccrualRates, RefreshReserve(r, price, x)
  PROVE  HaltsRespectedAt(s)
  <1> DEFINE accrued == AccrueInterest(reserve[r], x, config[r].manage_fee_rate,
                                       unix_timestamp, slot)
             rate == DepositNoteExchangeRate(accrued)
             threshold == FromU64(config[r].manage_fee_collection_threshold)
             fee_notes == FeeNotes(accrued, threshold, rate)
  <1>1. UNCHANGED loan_note_mint /\ KeepsCollateral(s)
    <2>1. UNCHANGED <<loan_note_mint, collateral_account>>
      BY DEF RefreshReserve, loan_notes, deposit_notes
    <2> QED BY <2>1, KeepingCollateral
  <1>2. CASE UNCHANGED deposit_notes
    BY <1>1, <1>2, UntouchedHalts DEF deposit_notes
  <1>3. CASE ~UNCHANGED deposit_notes
    <2>1. /\ IsFull(reserve[r], unix_timestamp)
          /\ fee_note_vault' = [fee_note_vault EXCEPT ![r] = @ + fee_notes]
          /\ deposit_note_mint' = [deposit_note_mint EXCEPT ![r] = @ + fee_notes]
      BY <1>3 DEF RefreshReserve
    <2>2. fee_notes \in Nat BY <2>1, FeeNotesNat
    <2> HIDE DEF fee_notes
    <2>3. /\ deposit_note_mint[s] \in Nat /\ fee_note_vault[s] \in Nat
          /\ loan_note_mint[s] \in Nat
      BY DEF TypeOK
    <2>4. CASE s = r
      <3>1. /\ deposit_note_mint'[s] = deposit_note_mint[s] + fee_notes
            /\ fee_note_vault'[s] = fee_note_vault[s] + fee_notes
        BY <2>1, <2>4 DEF TypeOK
      <3> QED BY <1>1, <2>2, <2>3, <3>1 DEF HaltsRespectedAt, KeepsCollateral
    <2>5. CASE s # r
      <3>1. /\ deposit_note_mint'[s] = deposit_note_mint[s]
            /\ fee_note_vault'[s] = fee_note_vault[s]
        BY <2>1, <2>5 DEF TypeOK
      <3> QED BY <1>1, <2>3, <3>1 DEF HaltsRespectedAt, KeepsCollateral
    <2> QED BY <2>4, <2>5
  <1> QED BY <1>2, <1>3

(* Deposits and withdrawals: under HALT_DEPOSITS an emptied deposit        *)
(* account may be closed, and nothing else of these happens.               *)
LEMMA DepositsHalts ==
  ASSUME TypeOK, NEW s \in Reserves, NEW u \in Users, NEW r \in Reserves,
         \/ \E a \in Amounts, to \in Users : DepositTokens(u, r, a, to)
         \/ \E a \in Amounts : Withdraw(u, r, a)
         \/ CloseDepositAccount(u, r)
  PROVE  HaltsRespectedAt(s)
  <1>1. UNCHANGED loan_note_mint
    BY DEF DepositTokens, Withdraw, WithdrawTokens, CloseDepositAccount, loan_notes
  <1>2. \/ "HALT_DEPOSITS" \notin flags
        \/ UNCHANGED <<deposit_note_mint, fee_note_vault>>
    BY DEF DepositTokens, Withdraw, WithdrawTokens, CloseDepositAccount,
           VerifyAbilityDepositWithdraw, deposit_notes
  <1>3. KeepsCollateral(s)
    <2>1. ASSUME NEW a \in Amounts, NEW to \in Users, DepositTokens(u, r, a, to)
          PROVE  KeepsCollateral(s)
      <3> DEFINE n == AsDepositNotes(a, reserve_info[r], "Down")
      <3>1. reserve_info[r] \in CachedReserveInfo BY DEF TypeOK
      <3>2. /\ HasDepositNotes(a, reserve_info[r])
            /\ \/ UNCHANGED collateral_account
               \/ collateral_account' = [collateral_account EXCEPT ![r][to] = @ + n]
        BY <2>1 DEF DepositTokens, IntoDepositAccount, IntoCollateralAccount
      <3>3. n \in Nat BY <3>1, <3>2, AmountsNat
      <3> HIDE DEF n
      <3> QED BY <3>2, <3>3, KeepingCollateral
    <2>2. ASSUME (\E a \in Amounts : Withdraw(u, r, a)) \/ CloseDepositAccount(u, r)
          PROVE  KeepsCollateral(s)
      <3>1. UNCHANGED collateral_account
        BY <2>2 DEF Withdraw, WithdrawTokens, CloseDepositAccount, BurnDepositNotes,
                    deposit_notes
      <3> QED BY <3>1, KeepingCollateral
    <2> QED BY <2>1, <2>2
  <1> QED BY <1>1, <1>2, <1>3 DEF HaltsRespectedAt, TypeOK, KeepsCollateral

(* A loan adds loan notes, and asks whether borrowing is halted. *)
LEMMA BorrowHalts ==
  ASSUME TypeOK, NEW s \in Reserves, NEW u \in Users, NEW r \in Reserves,
         NEW a \in Amounts, Borrow(u, r, a)
  PROVE  HaltsRespectedAt(s)
  <1> DEFINE t    == AsTokens(a, reserve_info[r], "Down")
             fees == BorrowFee(config[r].loan_origination_fee, t)
             n    == NotesFromTokens(t + fees, reserve_info[r].loan_note_exchange_rate, "Up")
  <1>1. /\ "HALT_BORROWS" \notin flags
        /\ reserve_info[r].loan_note_exchange_rate > 0
        /\ loan_note_mint' = [loan_note_mint EXCEPT ![r] = @ + n]
        /\ UNCHANGED <<deposit_note_mint, fee_note_vault>>
    BY DEF Borrow, VerifyAbilityBorrow, deposit_notes
  <1>2. n \in Nat 
    <2>1. config[r].loan_origination_fee \in Nat BY DEF TypeOK, Config
    <2> QED BY <1>1, <2>1, NewNotesNat
  <1> HIDE DEF n
  <1>3. loan_note_mint[s] \in Nat /\ loan_note_mint'[s] >= loan_note_mint[s]
    BY <1>1, <1>2 DEF TypeOK
  <1> QED BY <1>1, <1>3 DEF HaltsRespectedAt, TypeOK

(* Repayments and liquidations burn loan notes, and ask whether repaying   *)
(* is halted; of the collateral they may take an unhealthy obligation's.   *)
LEMMA PayOffHalts ==
  ASSUME TypeOK, NEW s \in Reserves, NEW payer \in Users, NEW u \in Users,
         NEW r \in Reserves, NEW a \in Amounts, NEW before,
         PayOff(payer, u, r, a, before), UNCHANGED <<deposit_note_mint, fee_note_vault>>,
         \A w \in Users : collateral_account'[s][w] < collateral_account[s][w] =>
                              ~IsHealthy(obligation[w], reserve_info)
  PROVE  HaltsRespectedAt(s)
  <1> DEFINE n == PayoffNotes(u, r, a)
  <1>1. /\ "HALT_REPAYS" \notin flags
        /\ loan_note_mint' = [loan_note_mint EXCEPT ![r] = @ - n]
    BY DEF PayOff, VerifyAbilityRepay
  <1>2. n \in Nat BY PayoffNat DEF PayOff
  <1> HIDE DEF n
  <1>3. loan_note_mint[s] \in Nat /\ loan_note_mint'[s] <= loan_note_mint[s]
    BY <1>1, <1>2 DEF TypeOK
  <1> QED BY <1>1, <1>3 DEF HaltsRespectedAt, TypeOK

(* Every step respects the flags.                                          *)
LEMMA NextHalts ==
  ASSUME TypeOK, [Next]_vars, NEW s \in Reserves
  PROVE  HaltsRespectedAt(s)
  <1>1. CASE Tick \/ OwnerStep \/ UNCHANGED vars BY <1>1, QuietHalts
  <1>2. CASE AccountStep BY <1>2, QuietHalts, DepositsHalts DEF AccountStep
  <1>3. CASE RefreshStep BY <1>3, RefreshHalts DEF RefreshStep
  <1>4. CASE UserStep
    <2>1. PICK u \in Users, r \in Reserves, a \in Amounts :
            \/ \E to \in Users : DepositTokens(u, r, a, to)
            \/ Withdraw(u, r, a)
            \/ DepositCollateral(u, r, a) \/ WithdrawCollateral(u, r, a)
            \/ Borrow(u, r, a)
            \/ \E v \in Users : Repay(u, v, r, a)
            \/ \E v \in Users, c \in Reserves, m \in MinCollaterals :
                   Liquidate(u, v, r, c, a, m)
      BY <1>4 DEF UserStep
    <2>2. CASE (\E to \in Users : DepositTokens(u, r, a, to)) \/ Withdraw(u, r, a)
      BY <2>2, DepositsHalts
    <2>3. CASE DepositCollateral(u, r, a) \/ WithdrawCollateral(u, r, a)
      BY <2>3, CollateralHalts
    <2>4. CASE Borrow(u, r, a) BY <2>4, BorrowHalts
    <2>5. ASSUME NEW v \in Users, Repay(u, v, r, a) PROVE HaltsRespectedAt(s)
      <3>1. /\ PayOff(u, v, r, a, obligation[v])
            /\ UNCHANGED <<deposit_note_mint, fee_note_vault, collateral_account>>
        BY <2>5 DEF Repay, deposit_notes
      <3>2. KeepsCollateral(s) BY <3>1, KeepingCollateral
      <3> QED BY <3>1, <3>2, PayOffHalts DEF KeepsCollateral
    <2>6. ASSUME NEW v \in Users, NEW c \in Reserves, NEW m \in MinCollaterals,
                 Liquidate(u, v, r, c, a, m)
          PROVE  HaltsRespectedAt(s)
      <3> DEFINE before == SubtractCollateral(obligation[v], c,
                               NoteAmount(CollateralTaken(v, r, c, a)))
      <3>1. /\ PayOff(u, v, r, a, before)
            /\ UNCHANGED <<deposit_note_mint, fee_note_vault>>
            /\ ~IsHealthy(obligation[v], reserve_info)
        BY <2>6 DEF Liquidate
      <3> HIDE DEF before
      <3>2. ASSUME NEW w \in Users, w # v
            PROVE  ~(collateral_account'[s][w] < collateral_account[s][w])
        <4>1. /\ collateral_account' = [collateral_account EXCEPT
                                          ![c][v] = @ - CollateralTaken(v, r, c, a)]
              /\ collateral_account \in [Reserves -> [Users -> Nat]]
          BY <2>6 DEF Liquidate, TypeOK
        <4>2. collateral_account'[s][w] = collateral_account[s][w] BY <3>2, <4>1
        <4>3. collateral_account[s][w] \in Nat BY <4>1
        <4> QED BY <4>2, <4>3
      <3> QED BY <3>1, <3>2, PayOffHalts
    <2> QED BY <2>1, <2>2, <2>3, <2>4, <2>5, <2>6
  <1> QED BY <1>1, <1>2, <1>3, <1>4 DEF Next

(* Halted borrows mean no loan is made and no collateral withdrawn, halted *)
(* repayments that no loan is reduced, halted deposits that no notes but   *)
(* fees are minted or burned: by whichever instruction and in whichever    *)
(* market.                                                                 *)
THEOREM HaltsAreRespected == Spec => HaltsRespected
  <1>1. TypeOK /\ [Next]_vars =>
            [\A r \in Reserves :
                /\ "HALT_BORROWS" \in flags =>
                      /\ loan_note_mint'[r] <= loan_note_mint[r]
                      /\ \A u \in Users :
                             collateral_account'[r][u] < collateral_account[r][u] =>
                                 ~IsHealthy(obligation[u], reserve_info)
                /\ "HALT_REPAYS" \in flags => loan_note_mint'[r] >= loan_note_mint[r]
                /\ "HALT_DEPOSITS" \in flags =>
                      deposit_note_mint'[r] - fee_note_vault'[r]
                          = deposit_note_mint[r] - fee_note_vault[r]]_vars
    BY NextHalts DEF HaltsRespectedAt
  <1> QED BY <1>1, TypeCorrect, PTL DEF Spec, HaltsRespected
=============================================================================
