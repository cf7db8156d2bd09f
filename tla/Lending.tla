------------------------------ MODULE Lending ------------------------------
(***************************************************************************)
(* One Jet market on chain: its reserves, the obligations borrowed against *)
(* them, the token accounts and mints the handlers move, and the clock.    *)
(* One action per instruction of src/programs/jet; init_market,            *)
(* init_reserve and set_market_owner are left out, and the DEX liquidation *)
(* is in LiquidateDex.tla.                                                 *)
(*                                                                         *)
(* An instruction is atomic: the runtime locks the accounts it writes, and *)
(* an error or a panic undoes all of it.  So every check, wherever it is   *)
(* in the handler, is a guard of the action.  What interleaves is the      *)
(* instructions of different users, the refreshes and the clock.           *)
(***************************************************************************)
EXTENDS Obligation

CONSTANTS
    Users,           \* signers: depositors, borrowers and liquidators
    Amounts,         \* the amounts a client passes to an instruction
    MinCollaterals,  \* the least collateral a liquidator asks for
    Prices,          \* what the oracle may say, as Numbers
    AccrualRates,    \* compound_interest over one accrual, as Numbers
    TimeSteps,       \* how far unix_timestamp advances with a slot
    FlagSettings,    \* the sets of flags the market owner sets
    Configs,         \* the reserve configurations the market owner sets
    InitialTokens,   \* tokens each user holds of each reserve at the start
    Openable,        \* bound: the accounts <<kind, user, reserve>> users may open
    FirstSlot,       \* the slot the market is created in
    MaxSlot          \* bound: the last slot of the model

Flags == {"HALT_BORROWS", "HALT_REPAYS", "HALT_DEPOSITS"}

Config == [loan_origination_fee : Nat, manage_fee_rate : Nat,
           manage_fee_collection_threshold : Nat,
           min_collateral_ratio : Nat, liquidation_premium : Nat,
           liquidation_dex_trade_max : Nat]

ASSUME InputsAssumption ==
    /\ Amounts \subseteq [units : Units, value : Nat]
    /\ MinCollaterals \subseteq Nat
    /\ Prices \subseteq Nat
    /\ AccrualRates \subseteq Nat
    /\ TimeSteps \subseteq Nat
    /\ FlagSettings \subseteq SUBSET Flags
    /\ Configs \subseteq Config
    /\ InitialTokens \in [Reserves -> [Users -> Nat]]
    /\ Openable \subseteq {"deposit", "collateral", "loan"} \X Users \X Reserves
    /\ FirstSlot \in Nat /\ FirstSlot > ReserveTTL
    /\ MaxSlot \in Nat

ASSUME UsersAssumption == IsFiniteSet(Users)

VARIABLES
    slot, unix_timestamp,       \* the Clock sysvar
    flags,                      \* Market.flags
    config,                     \* Reserve.config
    reserve,                    \* Reserve.state
    reserve_info,               \* MarketReserves.reserve_info
    obligations, obligation,    \* which users have an obligation, and what it records
    deposit_accounts,           \* which deposit accounts are open
    wallet, vault,              \* tokens: users' own accounts, reserve vaults
    deposit_account,            \* deposit notes in users' deposit accounts,
    collateral_account,         \*   pledged in collateral accounts,
    fee_note_vault,             \*   and minted as fees
    loan_account,               \* loan notes in obligations' loan accounts
    deposit_note_mint, loan_note_mint  \* supplies of the note mints

clock == <<slot, unix_timestamp>>
settings == <<flags, config>>
accounts == <<obligations, deposit_accounts>>
deposit_notes == <<deposit_account, collateral_account, fee_note_vault, deposit_note_mint>>
loan_notes == <<loan_account, loan_note_mint>>
tokens == <<wallet, vault>>

vars == <<slot, unix_timestamp, flags, config, reserve, reserve_info,
          obligations, obligation, deposit_accounts, wallet, vault,
          deposit_account, collateral_account, fee_note_vault, loan_account,
          deposit_note_mint, loan_note_mint>>

NoNotes == [r \in Reserves |-> [u \in Users |-> 0]]

Init ==
    /\ slot = FirstSlot /\ unix_timestamp = 0
    /\ flags = {}
    /\ config \in [Reserves -> Configs]
    /\ reserve = [r \in Reserves |-> NewReserve(0)]
    /\ reserve_info = [r \in Reserves |-> NewReserveInfo]
    /\ obligations = {} /\ obligation = [u \in Users |-> NewObligation]
    /\ deposit_accounts = {}
    /\ wallet = InitialTokens /\ vault = [r \in Reserves |-> 0]
    /\ deposit_account = NoNotes /\ collateral_account = NoNotes
    /\ fee_note_vault = [r \in Reserves |-> 0]
    /\ loan_account = NoNotes
    /\ deposit_note_mint = [r \in Reserves |-> 0]
    /\ loan_note_mint = [r \in Reserves |-> 0]

(* MarketReserves::get_cached. *)
Cached(r) == Fresh(reserve_info[r], slot, ReserveTTL)

(* Market::verify_ability_borrow, _repay and _deposit_withdraw.            *)
VerifyAbilityBorrow == "HALT_BORROWS" \notin flags
VerifyAbilityRepay == "HALT_REPAYS" \notin flags
VerifyAbilityDepositWithdraw == "HALT_DEPOSITS" \notin flags

(* What borrow and withdraw_collateral demand of an obligation they leave. *)
OnlyFresh(o) == PositionsFresh(o, reserve_info, slot)   \* mutant
VerifyHealthy(o) == PositionsFresh(o, reserve_info, slot) /\ IsHealthy(o, reserve_info)

(* Position amounts: reserve.amount(notes). *)
NoteAmount(notes) == FromU64(notes)

-----------------------------------------------------------------------------
(* The clock, the market owner, and the accounts users open and close.     *)

Tick ==
    /\ slot < MaxSlot
    /\ slot' = slot + 1
    /\ \E d \in TimeSteps : unix_timestamp' = unix_timestamp + d
    /\ UNCHANGED <<settings, reserve, reserve_info, accounts, obligation, tokens,
                   deposit_notes, loan_notes>>

SetMarketFlags(f) ==
    /\ flags' = f
    /\ UNCHANGED <<clock, config, reserve, reserve_info, accounts, obligation, tokens,
                   deposit_notes, loan_notes>>

UpdateReserveConfig(r, c) ==
    /\ config' = [config EXCEPT ![r] = c]
    /\ UNCHANGED <<clock, flags, reserve, reserve_info, accounts, obligation, tokens,
                   deposit_notes, loan_notes>>

InitDepositAccount(u, r) ==
    /\ <<"deposit", u, r>> \in Openable
    /\ <<u, r>> \notin deposit_accounts
    /\ deposit_accounts' = deposit_accounts \union {<<u, r>>}
    /\ UNCHANGED <<clock, settings, reserve, reserve_info, obligations, obligation,
                   tokens, deposit_notes, loan_notes>>

InitObligation(u) ==
    /\ \E r \in Reserves : <<"loan", u, r>> \in Openable
    /\ u \notin obligations
    /\ obligations' = obligations \union {u}
    /\ obligation' = [obligation EXCEPT ![u] = NewObligation]
    /\ UNCHANGED <<clock, settings, reserve, reserve_info, deposit_accounts, tokens,
                   deposit_notes, loan_notes>>

CloseObligation(u) ==
    /\ u \in obligations
    /\ PositionCount(obligation[u]) = 0
    /\ obligations' = obligations \ {u}
    /\ UNCHANGED <<clock, settings, reserve, reserve_info, obligation, deposit_accounts,
                   tokens, deposit_notes, loan_notes>>

InitCollateralAccount(u, r) ==
    /\ <<"collateral", u, r>> \in Openable
    /\ u \in obligations
    /\ r \notin obligation[u].collateral_accounts
    /\ PositionCount(obligation[u]) < MaxPositions
    /\ obligation' = [obligation EXCEPT ![u] = RegisterCollateral(@, r)]
    /\ UNCHANGED <<clock, settings, reserve, reserve_info, accounts, tokens,
                   deposit_notes, loan_notes>>

InitLoanAccount(u, r) ==
    /\ <<"loan", u, r>> \in Openable
    /\ u \in obligations
    /\ r \notin obligation[u].loan_accounts
    /\ PositionCount(obligation[u]) < MaxPositions
    /\ obligation' = [obligation EXCEPT ![u] = RegisterLoan(@, r)]
    /\ UNCHANGED <<clock, settings, reserve, reserve_info, accounts, tokens,
                   deposit_notes, loan_notes>>

CloseCollateralAccount(u, r) ==
    /\ u \in obligations
    /\ r \in obligation[u].collateral_accounts
    /\ collateral_account[r][u] = 0
    /\ obligation' = [obligation EXCEPT ![u] = UnregisterCollateral(@, r)]
    /\ UNCHANGED <<clock, settings, reserve, reserve_info, accounts, tokens,
                   deposit_notes, loan_notes>>

CloseUnpaid(u, r) ==   \* mutant
    /\ u \in obligations
    /\ r \in obligation[u].loan_accounts
    /\ obligation' = [obligation EXCEPT ![u] = UnregisterLoan(@, r)]
    /\ UNCHANGED <<clock, settings, reserve, reserve_info, accounts, tokens,
                   deposit_notes, loan_notes>>
CloseLoanAccount(u, r) ==
    /\ u \in obligations
    /\ r \in obligation[u].loan_accounts
    /\ loan_account[r][u] = 0
    /\ obligation' = [obligation EXCEPT ![u] = UnregisterLoan(@, r)]
    /\ UNCHANGED <<clock, settings, reserve, reserve_info, accounts, tokens,
                   deposit_notes, loan_notes>>

-----------------------------------------------------------------------------
(* Refreshing a reserve: accrue interest, and once it is up to date cache  *)
(* the price and the exchange rates and collect the fees as new notes.     *)

(* The totals are read before interest accrues; accrual leaves them alone. *)
UpToDateInfo(r, accrued, price) ==
    RefreshTo([reserve_info[r] EXCEPT
                  !.price = price,
                  !.deposit_note_exchange_rate = DepositNoteExchangeRate(accrued),
                  !.loan_note_exchange_rate = LoanNoteExchangeRate(accrued),
                  !.min_collateral_ratio = config[r].min_collateral_ratio,
                  !.liquidation_bonus = config[r].liquidation_premium], slot)

RefreshReserve(r, price, compound_rate) ==
    LET accrued   == AccrueInterest(reserve[r], compound_rate,
                         config[r].manage_fee_rate, unix_timestamp, slot)
        rate      == DepositNoteExchangeRate(accrued)
        threshold == FromU64(config[r].manage_fee_collection_threshold)
        fee_notes == FeeNotes(accrued, threshold, rate)
    IN  /\ TimeBehind(reserve[r], unix_timestamp) >= 0
        /\ \/ /\ ~IsFull(reserve[r], unix_timestamp)
              /\ reserve' = [reserve EXCEPT ![r] = accrued]
              /\ reserve_info' = [reserve_info EXCEPT ![r] = Invalidate(@)]
              /\ UNCHANGED deposit_notes
           \/ /\ IsFull(reserve[r], unix_timestamp)
              /\ DepositNoteValue(accrued) >= 0
              /\ CollectsFees(accrued, threshold) => rate > 0
              /\ reserve' = [reserve EXCEPT ![r] =
                                 CollectAccruedFees(accrued, threshold, rate)]
              /\ reserve_info' = [reserve_info EXCEPT ![r] = UpToDateInfo(r, accrued, price)]
              /\ fee_note_vault' = [fee_note_vault EXCEPT ![r] = @ + fee_notes]
              /\ deposit_note_mint' = [deposit_note_mint EXCEPT ![r] = @ + fee_notes]
              /\ UNCHANGED <<deposit_account, collateral_account>>
        /\ UNCHANGED <<clock, settings, accounts, obligation, tokens, loan_notes>>

-----------------------------------------------------------------------------
(* Deposits and withdrawals.                                               *)

(* Where the notes of a deposit go.  deposit calls deposit_tokens with the *)
(* depositor's own deposit account; deposit_tokens takes any note account, *)
(* somebody else's too, or a collateral account, whose obligation does not *)
(* record them.                                                            *)
IntoDepositAccount(to, r, note_amount) ==
    /\ <<to, r>> \in deposit_accounts
    /\ deposit_account' = [deposit_account EXCEPT ![r][to] = @ + note_amount]
    /\ UNCHANGED <<collateral_account, fee_note_vault>>

IntoCollateralAccount(to, r, note_amount) ==
    /\ to \in obligations /\ r \in obligation[to].collateral_accounts
    /\ collateral_account' = [collateral_account EXCEPT ![r][to] = @ + note_amount]
    /\ UNCHANGED <<deposit_account, fee_note_vault>>

DepositTokens(u, r, amount, to) ==
    LET token_amount == AsTokens(amount, reserve_info[r], "Up")
        note_amount  == AsDepositNotes(amount, reserve_info[r], "Down")
    IN  /\ Cached(r)
        /\ VerifyAbilityDepositWithdraw
        /\ HasDepositNotes(amount, reserve_info[r])
        /\ token_amount <= wallet[r][u]
        /\ reserve' = [reserve EXCEPT ![r] = RecordDeposit(@, token_amount, note_amount)]
        /\ wallet' = [wallet EXCEPT ![r][u] = @ - token_amount]
        /\ vault' = [vault EXCEPT ![r] = @ + token_amount]
        /\ deposit_note_mint' = [deposit_note_mint EXCEPT ![r] = @ + note_amount]
        /\ \/ IntoDepositAccount(to, r, note_amount)
           \/ IntoCollateralAccount(to, r, note_amount)
        /\ UNCHANGED <<clock, settings, reserve_info, accounts, obligation, loan_notes>>

(* Tokens leave the vault for any token account: the user's, or the vault. *)
PayFromVault(r, u, token_amount) ==
    \/ /\ wallet' = [wallet EXCEPT ![r][u] = @ + token_amount]
       /\ vault' = [vault EXCEPT ![r] = @ - token_amount]
    \/ UNCHANGED tokens

BurnDepositNotes(r, u, note_amount) ==
    /\ deposit_account' = [deposit_account EXCEPT ![r][u] = @ - note_amount]
    /\ deposit_note_mint' = [deposit_note_mint EXCEPT ![r] = @ - note_amount]
    /\ UNCHANGED <<collateral_account, fee_note_vault>>

WithdrawTokens(u, r, amount) ==
    LET token_amount == AsTokens(amount, reserve_info[r], "Down")
        note_amount  == AsDepositNotes(amount, reserve_info[r], "Up")
    IN  /\ Cached(r)
        /\ VerifyAbilityDepositWithdraw
        /\ HasDepositNotes(amount, reserve_info[r])
        /\ CanWithdraw(reserve[r], token_amount, note_amount)
        /\ token_amount <= vault[r]
        /\ note_amount <= deposit_account[r][u]
        /\ reserve' = [reserve EXCEPT ![r] = RecordWithdraw(@, token_amount, note_amount)]
        /\ PayFromVault(r, u, token_amount)
        /\ BurnDepositNotes(r, u, note_amount)
        /\ UNCHANGED <<clock, settings, reserve_info, accounts, obligation, loan_notes>>

(* withdraw invokes withdraw_tokens on the user's deposit account. *)
Withdraw(u, r, amount) ==
    /\ <<u, r>> \in deposit_accounts
    /\ WithdrawTokens(u, r, amount)

(* close_deposit_account: whatever is left is withdrawn first. *)
CloseDepositAccount(u, r) ==
    LET notes_remaining == deposit_account[r][u]
        tokens_to_withdraw == TokensFromNotes(notes_remaining,
            reserve_info[r].deposit_note_exchange_rate, "Down")
    IN  /\ <<u, r>> \in deposit_accounts
        /\ deposit_accounts' = deposit_accounts \ {<<u, r>>}
        /\ \/ /\ notes_remaining = 0
              /\ UNCHANGED <<reserve, tokens, deposit_notes>>
           \/ /\ notes_remaining > 0
              /\ VerifyAbilityDepositWithdraw
              /\ Cached(r)
              /\ CanWithdraw(reserve[r], tokens_to_withdraw, notes_remaining)
              /\ tokens_to_withdraw <= vault[r]
              /\ reserve' = [reserve EXCEPT ![r] =
                                 RecordWithdraw(@, tokens_to_withdraw, notes_remaining)]
              /\ PayFromVault(r, u, tokens_to_withdraw)
              /\ BurnDepositNotes(r, u, notes_remaining)
        /\ UNCHANGED <<clock, settings, reserve_info, obligations, obligation, loan_notes>>

-----------------------------------------------------------------------------
(* Collateral, loans and liquidation.                                      *)

DepositCollateral(u, r, amount) ==
    LET note_amount == AsDepositNotes(amount, reserve_info[r], "Down")
    IN  /\ Cached(r)
        /\ VerifyAbilityDepositWithdraw
        /\ HasDepositNotes(amount, reserve_info[r])
        /\ u \in obligations
        /\ r \in obligation[u].collateral_accounts
        /\ <<u, r>> \in deposit_accounts
        /\ note_amount <= deposit_account[r][u]
        /\ deposit_account' = [deposit_account EXCEPT ![r][u] = @ - note_amount]
        /\ collateral_account' = [collateral_account EXCEPT ![r][u] = @ + note_amount]
        /\ obligation' = [obligation EXCEPT ![u] =
                              AddCollateral(@, r, NoteAmount(note_amount))]
        /\ UNCHANGED <<clock, settings, reserve, reserve_info, accounts, tokens,
                       fee_note_vault, deposit_note_mint, loan_notes>>

WithdrawWhileHalted(u, r, amount) ==   \* mutant
    LET note_amount == AsDepositNotes(amount, reserve_info[r], "Up")
        after == SubtractCollateral(obligation[u], r, NoteAmount(note_amount))
    IN  /\ Cached(r)
        /\ HasDepositNotes(amount, reserve_info[r])
        /\ u \in obligations
        /\ r \in obligation[u].collateral_accounts
        /\ <<u, r>> \in deposit_accounts
        /\ note_amount <= collateral_account[r][u]
        /\ VerifyHealthy(after)
        /\ collateral_account' = [collateral_account EXCEPT ![r][u] = @ - note_amount]
        /\ deposit_account' = [deposit_account EXCEPT ![r][u] = @ + note_amount]
        /\ obligation' = [obligation EXCEPT ![u] = after]
        /\ UNCHANGED <<clock, settings, reserve, reserve_info, accounts, tokens,
                       fee_note_vault, deposit_note_mint, loan_notes>>

WithdrawCollateral(u, r, amount) ==
    LET note_amount == AsDepositNotes(amount, reserve_info[r], "Up")
        after == SubtractCollateral(obligation[u], r, NoteAmount(note_amount))
    IN  /\ Cached(r)
        /\ VerifyAbilityBorrow
        /\ HasDepositNotes(amount, reserve_info[r])
        /\ u \in obligations
        /\ r \in obligation[u].collateral_accounts
        /\ <<u, r>> \in deposit_accounts
        /\ note_amount <= collateral_account[r][u]
        /\ VerifyHealthy(after)
        /\ collateral_account' = [collateral_account EXCEPT ![r][u] = @ - note_amount]
        /\ deposit_account' = [deposit_account EXCEPT ![r][u] = @ + note_amount]
        /\ obligation' = [obligation EXCEPT ![u] = after]
        /\ UNCHANGED <<clock, settings, reserve, reserve_info, accounts, tokens,
                       fee_note_vault, deposit_note_mint, loan_notes>>

Borrow(u, r, amount) ==
    LET requested_tokens == AsTokens(amount, reserve_info[r], "Down")
        fees      == BorrowFee(config[r].loan_origination_fee, requested_tokens)
        new_notes == NotesFromTokens(requested_tokens + fees,
                         reserve_info[r].loan_note_exchange_rate, "Up")
        after     == AddLoan(obligation[u], r, NoteAmount(new_notes))
    IN  /\ Cached(r)
        /\ VerifyAbilityBorrow
        /\ reserve_info[r].loan_note_exchange_rate > 0
        /\ u \in obligations
        /\ r \in obligation[u].loan_accounts
        /\ CanBorrow(reserve[r], slot, requested_tokens)
        /\ VerifyHealthy(after)
        /\ requested_tokens <= vault[r]
        /\ reserve' = [reserve EXCEPT ![r] =
                           RecordBorrow(@, requested_tokens, new_notes, fees)]
        /\ loan_account' = [loan_account EXCEPT ![r][u] = @ + new_notes]
        /\ loan_note_mint' = [loan_note_mint EXCEPT ![r] = @ + new_notes]
        /\ obligation' = [obligation EXCEPT ![u] = after]
        /\ wallet' = [wallet EXCEPT ![r][u] = @ + requested_tokens]
        /\ vault' = [vault EXCEPT ![r] = @ - requested_tokens]
        /\ UNCHANGED <<clock, settings, reserve_info, accounts, deposit_notes>>

(* What a repayment of u's loan burns, and what it costs the payer. *)
PayoffNotes(u, r, amount) ==
    Least(AsLoanNotes(amount, reserve_info[r], "Down"), loan_account[r][u])

PayoffTokens(r, payoff_notes) ==
    Least(TokensFromNotes(payoff_notes, reserve_info[r].loan_note_exchange_rate, "Up"),
          AsU64(reserve[r].outstanding_debt))

(* repay(): shared by repay and liquidate; `before` is the obligation as   *)
(* the handler left it so far.                                             *)
PayOff(payer, u, r, amount, before) ==
    LET notes  == PayoffNotes(u, r, amount)
        tokens_due == PayoffTokens(r, notes)
    IN  /\ Cached(r)
        /\ VerifyAbilityRepay
        /\ HasLoanNotes(amount, reserve_info[r])
        /\ u \in obligations
        /\ r \in obligation[u].loan_accounts
        /\ CanRepay(reserve[r], slot, tokens_due, notes)
        /\ tokens_due <= wallet[r][payer]
        /\ loan_account' = [loan_account EXCEPT ![r][u] = @ - notes]
        /\ loan_note_mint' = [loan_note_mint EXCEPT ![r] = @ - notes]
        /\ wallet' = [wallet EXCEPT ![r][payer] = @ - tokens_due]
        /\ vault' = [vault EXCEPT ![r] = @ + tokens_due]
        /\ reserve' = [reserve EXCEPT ![r] = RecordRepay(@, tokens_due, notes)]
        /\ obligation' = [obligation EXCEPT ![u] =
                              SubtractLoan(before, r, NoteAmount(notes))]

(* Anyone may repay anyone's loan. *)
Repay(payer, u, r, amount) ==
    /\ PayOff(payer, u, r, amount, obligation[u])
    /\ UNCHANGED <<clock, settings, reserve_info, accounts, deposit_notes>>

(* The notes transfer_collateral moves to the liquidator. *)
CollateralTaken(u, r, c, amount) ==
    Least(AsU64(CalculateLiquidation(obligation[u], reserve_info, r, c,
                    NoteAmount(PayoffNotes(u, r, amount)))),
          collateral_account[c][u])

Liquidate(payer, u, r, c, amount, min_collateral) ==
    LET taken == CollateralTaken(u, r, c, amount)
    IN  /\ Cached(r)
        /\ u \in obligations
        /\ r \in obligation[u].loan_accounts
        /\ c \in obligation[u].collateral_accounts
        /\ <<payer, c>> \in deposit_accounts
        /\ PositionsFresh(obligation[u], reserve_info, slot)
        /\ ~IsHealthy(obligation[u], reserve_info)
        /\ HasLoanNotes(amount, reserve_info[r])
        /\ CanLiquidate(obligation[u], reserve_info, r, c)
        /\ taken \in min_collateral .. collateral_account[c][u]
        /\ collateral_account' = [collateral_account EXCEPT ![c][u] = @ - taken]
        /\ deposit_account' = [deposit_account EXCEPT ![c][payer] = @ + taken]
        /\ PayOff(payer, u, r, amount,
                  SubtractCollateral(obligation[u], c, NoteAmount(taken)))
        /\ UNCHANGED <<clock, settings, reserve_info, accounts, fee_note_vault,
                       deposit_note_mint>>

-----------------------------------------------------------------------------
OwnerStep ==
    \/ \E f \in FlagSettings : SetMarketFlags(f)
    \/ \E r \in Reserves, c \in Configs : UpdateReserveConfig(r, c)

AccountStep ==
    \E u \in Users :
        \/ InitObligation(u) \/ CloseObligation(u)
        \/ \E r \in Reserves :
            \/ InitDepositAccount(u, r) \/ CloseDepositAccount(u, r)
            \/ InitCollateralAccount(u, r) \/ CloseCollateralAccount(u, r)
            \/ InitLoanAccount(u, r) \/ CloseLoanAccount(u, r)

RefreshStep ==
    \E r \in Reserves, price \in Prices, x \in AccrualRates : RefreshReserve(r, price, x)

UserStep ==
    \E u \in Users, r \in Reserves, a \in Amounts :
        \/ \E to \in Users : DepositTokens(u, r, a, to)
        \/ Withdraw(u, r, a)
        \/ DepositCollateral(u, r, a) \/ WithdrawCollateral(u, r, a)
        \/ Borrow(u, r, a)
        \/ \E v \in Users : Repay(u, v, r, a)
        \/ \E v \in Users, c \in Reserves, m \in MinCollaterals :
               Liquidate(u, v, r, c, a, m)

Next == Tick \/ OwnerStep \/ AccountStep \/ RefreshStep \/ UserStep

Spec == Init /\ [][Next]_vars
=============================================================================
