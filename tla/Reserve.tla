------------------------------ MODULE Reserve ------------------------------
(***************************************************************************)
(* The arithmetic of one reserve: the ReserveState kept in its account     *)
(* (a Cache with TTL 1), the CachedReserveInfo the market keeps of it, and *)
(* the conversions between tokens, deposit notes and loan notes.           *)
(*                                                                         *)
(* Only functions of a state are here; Lending.tla holds the handlers that *)
(* apply them.  A checked operation that panics is a predicate Can...,     *)
(* which the handler takes as a guard: a panic aborts the transaction.     *)
(* A definition marked as a mutant is no part of the model: it is a likely *)
(* mistake in the definition after it, which a property must notice.       *)
(***************************************************************************)
EXTENDS JetNumber, Cache

CONSTANT MaxAccrual        \* MAX_ACCRUAL_SECONDS: the longest single accrual

ASSUME MaxAccrualAssumption == MaxAccrual \in Nat \ {0}

Units == {"Tokens", "DepositNotes", "LoanNotes"}

ReserveState ==
    [accrued_until : Nat, outstanding_debt : Nat, uncollected_fees : Nat,
     total_deposits : Nat, total_deposit_notes : Nat, total_loan_notes : Nat,
     last_updated : Nat, invalidated : BOOLEAN]

(* A zeroed account after Reserve::init. *)
NewReserve(unix_timestamp) ==
    [accrued_until |-> unix_timestamp, outstanding_debt |-> 0,
     uncollected_fees |-> 0, total_deposits |-> 0, total_deposit_notes |-> 0,
     total_loan_notes |-> 0, last_updated |-> 0, invalidated |-> FALSE]

CachedReserveInfo ==
    [price : Nat, deposit_note_exchange_rate : Nat,
     loan_note_exchange_rate : Nat, min_collateral_ratio : Nat,
     liquidation_bonus : Nat, last_updated : Nat, invalidated : BOOLEAN]

NewReserveInfo ==
    [price |-> 0, deposit_note_exchange_rate |-> 0,
     loan_note_exchange_rate |-> 0, min_collateral_ratio |-> 0,
     liquidation_bonus |-> 0, last_updated |-> 0, invalidated |-> FALSE]

-----------------------------------------------------------------------------
(* Recording deposits, withdrawals, loans and repayments.                  *)

RecordDeposit(s, token_amount, note_amount) ==
    [s EXCEPT !.total_deposits = @ + token_amount,
              !.total_deposit_notes = @ + note_amount]

CanWithdraw(s, token_amount, note_amount) ==
    /\ token_amount <= s.total_deposits
    /\ note_amount <= s.total_deposit_notes

RecordWithdraw(s, token_amount, note_amount) ==
    [s EXCEPT !.total_deposits = @ - token_amount,
              !.total_deposit_notes = @ - note_amount]

BorrowFee(loan_origination_fee, token_amount) ==
    AsU64Ceil(loan_origination_fee * token_amount)

(* unwrap_state_mut panics on a stale state, checked_sub on an empty one. *)
CanBorrow(s, current_slot, token_amount) ==
    /\ Fresh(s, current_slot, ReserveTTL)
    /\ token_amount <= s.total_deposits

FeesInVault(s, token_amount, note_amount, fees) ==   \* mutant
    [s EXCEPT !.uncollected_fees = @ + FromU64(fees),
              !.outstanding_debt = @ + FromU64(token_amount) + FromU64(fees),
              !.total_deposits = @ - token_amount + fees,
              !.total_loan_notes = @ + note_amount]
FeesNotOwed(s, token_amount, note_amount, fees) ==   \* mutant
    [s EXCEPT !.uncollected_fees = @ + FromU64(fees),
              !.outstanding_debt = @ + FromU64(token_amount),
              !.total_deposits = @ - token_amount,
              !.total_loan_notes = @ + note_amount]
RecordBorrow(s, token_amount, note_amount, fees) ==
    [s EXCEPT !.uncollected_fees = @ + FromU64(fees),
              !.outstanding_debt = @ + FromU64(token_amount) + FromU64(fees),
              !.total_deposits = @ - token_amount,
              !.total_loan_notes = @ + note_amount]

CanRepay(s, current_slot, token_amount, note_amount) ==
    /\ Fresh(s, current_slot, ReserveTTL)
    /\ FromU64(token_amount) <= s.outstanding_debt
    /\ note_amount <= s.total_loan_notes

RepayExactly(s, token_amount, note_amount) ==   \* mutant
    [s EXCEPT !.outstanding_debt = @ - FromU64(token_amount),
              !.total_loan_notes = @ - note_amount,
              !.total_deposits = @ + token_amount]
(* The leftover fraction of a debt nobody holds a note of is dropped. *)
RecordRepay(s, token_amount, note_amount) ==
    LET debt  == s.outstanding_debt - FromU64(token_amount)
        notes == s.total_loan_notes - note_amount
    IN  [s EXCEPT !.outstanding_debt = IF notes = 0 /\ debt < ONE THEN 0 ELSE debt,
                  !.total_loan_notes = notes,
                  !.total_deposits = @ + token_amount]

(* add_uncollected_fees: tokens that are in the vault and nobody's deposit. *)
AddUncollectedFees(s, amount) ==
    [s EXCEPT !.uncollected_fees = @ + FromU64(amount),
              !.total_deposits = @ + amount]

-----------------------------------------------------------------------------
(* Interest, exchange rates and fees.                                      *)

TimeBehind(s, target_time) == target_time - s.accrued_until

TimeToAccrue(s, target_time) == Least(TimeBehind(s, target_time), MaxAccrual)

IsFull(s, target_time) == TimeBehind(s, target_time) <= MaxAccrual

(* The interest of one accrual; compound_rate stands for                   *)
(* compound_interest(interest_rate, time_to_accrue).                       *)
Interest(s, compound_rate, target_time) ==
    IF TimeToAccrue(s, target_time) > 0 THEN Mul(s.outstanding_debt, compound_rate) ELSE 0

SkipsTime(s, compound_rate, manage_fee_rate, target_time) ==   \* mutant
    LET interest == Interest(s, compound_rate, target_time)
    IN  [s EXCEPT !.outstanding_debt = @ + interest,
                  !.uncollected_fees = @ + Mul(interest, manage_fee_rate),
                  !.accrued_until = target_time]
Accrued(s, compound_rate, manage_fee_rate, target_time) ==
    LET interest == Interest(s, compound_rate, target_time)
    IN  [s EXCEPT !.outstanding_debt = @ + interest,
                  !.uncollected_fees = @ + Mul(interest, manage_fee_rate),
                  !.accrued_until = @ + TimeToAccrue(s, target_time)]

RefreshedIfDue(s, compound_rate, manage_fee_rate, target_time, target_slot) ==   \* mutant
    LET accrued == Accrued(s, compound_rate, manage_fee_rate, target_time)
    IN  IF TimeBehind(s, target_time) = 0 THEN s
        ELSE IF IsFull(s, target_time) THEN RefreshTo(accrued, target_slot)
        ELSE Invalidate(accrued)
GivesUp(s, compound_rate, manage_fee_rate, target_time, target_slot) ==   \* mutant
    IF IsFull(s, target_time)
    THEN RefreshTo(Accrued(s, compound_rate, manage_fee_rate, target_time), target_slot)
    ELSE Invalidate(s)
(* try_accrue_interest: a partial accrual leaves the state invalid.        *)
AccrueInterest(s, compound_rate, manage_fee_rate, target_time, target_slot) ==
    LET accrued == Accrued(s, compound_rate, manage_fee_rate, target_time)
    IN  IF IsFull(s, target_time) THEN RefreshTo(accrued, target_slot)
                                  ELSE Invalidate(accrued)

(* What the deposit notes are worth together, in units of Number: the      *)
(* token_supply of DepositNoteCalculator.  Below zero it panics.           *)
DepositNoteValue(s) ==
    s.outstanding_debt + FromU64(s.total_deposits) - s.uncollected_fees

ExchangeRate(token_supply, note_supply) ==
    Div(OneIfZero(token_supply), OneIfZero(FromU64(note_supply)))

DepositNoteExchangeRate(s) ==
    ExchangeRate(DepositNoteValue(s), s.total_deposit_notes)

LoanNoteExchangeRate(s) ==
    ExchangeRate(s.outstanding_debt, s.total_loan_notes)

(* collect_accrued_fees: the notes it mints, and the state it leaves. *)
CollectsFees(s, threshold) == threshold <= s.uncollected_fees

FeeNotes(s, threshold, exchange_rate) ==
    IF CollectsFees(s, threshold)
    THEN AsU64(Div(s.uncollected_fees, exchange_rate)) ELSE 0

FeesWithoutNotes(s, threshold, exchange_rate) ==   \* mutant
    IF CollectsFees(s, threshold) THEN [s EXCEPT !.uncollected_fees = 0] ELSE s
CollectAccruedFees(s, threshold, exchange_rate) ==
    IF CollectsFees(s, threshold)
    THEN [s EXCEPT !.uncollected_fees = 0,
                   !.total_deposit_notes =
                       @ + FeeNotes(s, threshold, exchange_rate)]
    ELSE s

-----------------------------------------------------------------------------
(* Amount: a value with its units, converted at the cached rates.  The     *)
(* divisions panic on a zero rate, so the rate is checked first.           *)

AlwaysDown(tokens, rate, rounding) == AsU64(Div(FromU64(tokens), rate))   \* mutant
NotesFromTokens(tokens, rate, rounding) == Rounded(Div(FromU64(tokens), rate), rounding)

TokensFromNotes(notes, rate, rounding) == Rounded(Mul(rate, FromU64(notes)), rounding)

AsTokens(amount, info, rounding) ==
    CASE amount.units = "Tokens" -> amount.value
      [] amount.units = "DepositNotes" ->
            TokensFromNotes(amount.value, info.deposit_note_exchange_rate, rounding)
      [] amount.units = "LoanNotes" ->
            TokensFromNotes(amount.value, info.loan_note_exchange_rate, rounding)

(* as_deposit_notes refuses LoanNotes, as_loan_notes DepositNotes. *)
HasDepositNotes(amount, info) ==
    \/ amount.units = "DepositNotes"
    \/ amount.units = "Tokens" /\ info.deposit_note_exchange_rate > 0

AsDepositNotes(amount, info, rounding) ==
    IF amount.units = "DepositNotes" THEN amount.value
    ELSE NotesFromTokens(amount.value, info.deposit_note_exchange_rate, rounding)

HasLoanNotes(amount, info) ==
    \/ amount.units = "LoanNotes"
    \/ amount.units = "Tokens" /\ info.loan_note_exchange_rate > 0

AsLoanNotes(amount, info, rounding) ==
    IF amount.units = "LoanNotes" THEN amount.value
    ELSE NotesFromTokens(amount.value, info.loan_note_exchange_rate, rounding)
=============================================================================
