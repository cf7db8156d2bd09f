# A TLA+ model of the Jet lending program and its web client

Jet is a lending market on Solana. Users deposit tokens into *reserves* and
hold deposit notes for them, pledge the notes as collateral of an *obligation*,
borrow tokens of other reserves against it and hold loan notes for the debt;
anyone may liquidate an obligation whose collateral no longer covers its loans,
by repaying its debt or by having its collateral sold on a DEX.
This directory models the on-chain program (`src/programs/jet`) and those parts
of the web client (`src/app/src`) that run concurrently, checks them with TLC
and proves most of their safety properties with TLAPS.

## 1. Inventory

| Component | State it keeps | Operations | Modelled in |
|---|---|---|---|
| Reserve accounting (`state/reserve.rs`, `deposit*.rs`, `withdraw*.rs`) | `ReserveState`: debt, uncollected fees, total deposits, totals of notes, `accrued_until` | deposit, withdraw, borrow, repay, accrue, collect fees | `Reserve`, `Lending` |
| Refresh (`refresh_reserve.rs`, `state/cache.rs`) | two caches: `ReserveState` in the reserve, `CachedReserveInfo` in the market | refresh, invalidate, validate | `Cache`, `Lending` |
| Interest rate curve (`interest_rate`, `interpolate`, `compound_interest`) | none: six numbers of `ReserveConfig` | rate of a utilization, interest of an accrual | `InterestRate`, `ReserveInterest` |
| Market settings (`state/market.rs`, `set_market_flags.rs`, `update_reserve_config.rs`) | flags, configurations | set, check | `Lending` |
| User accounts (`init_*_account.rs`, `close_*.rs`, `*_obligation.rs`) | which accounts exist | open, close | `Lending` |
| Obligation (`state/obligation.rs`, `deposit_collateral.rs`, `withdraw_collateral.rs`, `borrow.rs`, `repay.rs`, `liquidate.rs`) | positions: collateral and loans | pledge, unpledge, borrow, repay, liquidate | `Obligation`, `Lending` |
| Position slots (`ObligationSide`) | two arrays of 16 slots | register, unregister, add, subtract | `ObligationSlots`, `Positions`, `LendingPositions` |
| Amounts (`lib.rs`, `market.rs`) | none | conversions at cached rates | `Reserve` |
| DEX liquidation (`liquidate_dex.rs`) | reserves, obligation, a Serum market | plan, sell, settle, verify, account | `LiquidateDex` |
| Creation (`init_market.rs`, `init_reserve.rs`, `set_market_owner.rs`) | the accounts themselves | create | only as `Init` |
| Client subscriptions (`scripts/programUtil.ts`, `subscribe.ts`, `store.ts`) | the account as shown, `latestSlot`; user, assets, wallet | fetch, notify; connect, disconnect | `AccountSubscription`, `AccountView`, `WalletSession` |
| Client transactions (`scripts/jet.ts`, `programUtil.ts`, `TradePanel.svelte`) | a bundle in flight, the refreshes ahead of it | refresh, sign, send, confirm, report | `ClientTrade` |
| TypeScript library, CPI bindings, CLI, scripts, views, test writer | none of the protocol's | | no |

**How they interact.** Every instruction loads the accounts it names, runs its
checks, moves tokens and notes through the SPL token program, and updates the
program's own records: the reserve's totals, the obligation's positions, the
market's cached entry of the reserve. The records repeat what token accounts
and mints hold, so most of what can go wrong is that one of the copies is left
behind. The instructions communicate only through the accounts; the price and
the exchange rates are computed by `refresh_reserve` and used by every other
handler for as long as the caches are fresh (the slot of the refresh and the
next one). The client sees the accounts through subscriptions, decides by what
it was last shown, and changes them by transactions that take effect some time
after they were sent, or never.

**What is hard.**
- *Interleaving.* An instruction is atomic (the runtime locks its writable
  accounts and undoes a failed transaction), but anybody's instruction may come
  between two others, and between a refresh and the use of its rates. In the
  client every `await` lets callbacks, the wallet and the network in.
- *Staleness.* Two caches of one reserve, in two accounts; rates a slot old;
  a client that acts on what a subscription said.
- *Time.* One refresh accrues at most `MAX_ACCRUAL_SECONDS`; a late reserve
  needs several, and stays invalid in between.
- *Rounding.* Each conversion truncates or rounds up; the fraction of the last
  debt is dropped; the curve's interpolation truncates at its transitions.
- *Reuse.* A closed account leaves a hole in an array that is used again.
- *Copies.* Position amounts against token accounts, totals against mints,
  `total_deposits` against the vault.
- *Partial failure.* A DEX order is filled in part or not; one transaction of a
  bundle fails, is lost, or lands after the client gave up on it.

The hazards, each at its line with the properties that watch it, are listed in
`PROJECT.json`.

**What makes each component correct.** The totals are the supplies of the notes
and these are in accounts; the vault covers the deposits; a usable rate never
promises more than the reserve has; interest is charged once for each second;
a late reserve catches up; the caches are usable together or not at all; a flag
stops every path it speaks of; positions never exceed the accounts; only
price, interest, time or the owner's own new loan account endanger a healthy
obligation; a liquidation takes no larger share than it repays; a DEX sale is
paid for, by the borrower and within the premium; the slots behave as sets; the
interest rate stays on its curve and never stops a refresh. A page never goes
back in time and shows the present in the end; the assets shown of a wallet go
with it; a reported success is a success, and a cancelled trade has no effect.

## 2. Modules

```
JetNumber -------- InterestRate -- ReserveInterest -- MCReserveInterest
   |     Cache                            |
   |    /                  NumberProofs - InterestProofs
 Reserve                        arithmetic of a reserve
    |
 Obligation -------------.      arithmetic of an obligation
    |                     \
 Lending                Positions <== ObligationSlots -- MCObligationSlots
    |                      ^ (refinement)   |
    |                      " (refinement)  SlotProofs
 LendingProperties == LendingPositions -- MCLendingPositions
    |        |      \              \
 MCLending   |     LendingProofs -- PositionProofs    (with NumberProofs)
    |    LiquidateDex                    |
    |     /        \---------------- DexProofs
 MCLiquidateDex

 AccountView <== AccountSubscription    (refinement)
                         |
 WalletSession -- SubscriptionProofs
 ClientTrade ---- ClientProofs
      |
 MCClientTrade
```

- `JetNumber` — the crate `jet_math` is not in the repository; its `Number` is
  modelled from how the program uses it: a natural number of units, `ONE` of
  which make 1.0, products and quotients truncated. Subtraction below zero
  panics, so each unchecked subtraction shows as a guard of the action.
- `Cache` — `Cache<T, TTL>` as two fields of a record, fresh from
  `last_updated` to `last_updated + TTL`.
- `Reserve`, `Obligation` — functions from states to states, named as in the
  code. A checked operation that panics is a predicate `Can...`.
- `Lending` — the state and one action per instruction. `reserve[r]` is
  `Reserve.state`, `reserve_info[r]` the market's entry, `obligation[u]` the
  obligation of user `u` (one per user), the remaining variables are token
  accounts and mints, indexed by reserve and user. `deposit` is
  `DepositTokens` into the depositor's own account (`IntoDepositAccount`), and
  `Withdraw` invokes `WithdrawTokens`, as the handlers do.
- `LendingProperties` — what the runs and the theorems state of it.
- `LiquidateDex` — adds to `Lending` the one action of `liquidate_dex`: plan,
  order, settlement, check of the proceeds and accounting, and the properties
  of a sale.
- `InterestRate` — the three regimes of the curve, interpolation, and the
  series by which `compound_interest` approximates e^x - 1, as operators.
  `ReserveInterest` — a reserve whose rate follows its utilization while it is
  lent to, borrowed from, refreshed late and reconfigured.
- `Positions` — the abstract specification of an obligation's record, made of
  the same operators `Lending` uses: accounts opened and closed, an amount
  changed, one on each side by a liquidation, the whole record renewed.
  `ObligationSlots` — the arrays that implement it, with the refinement mapping
  `Recorded`. `LendingPositions` — that the record of every user in `Lending`
  implements it too, so that the two refinements meet: the arrays do what the
  sets promise, and the instructions ask for nothing else.
- `AccountView` — the abstract specification of what a page shows of an
  account; `AccountSubscription` — `getAccountInfoAndSubscribe`, a fetch and a
  subscription that race, which implements it.
- `WalletSession` — wallets chosen, connected and disconnected, with the first
  fetches and the subscriptions each connection leaves behind.
- `ClientTrade` — `submitTrade`, `refreshOldReserves`, `deposit`, `withdraw`,
  `borrow`, `repay` and the sending functions, between one `await` and the next,
  beside the chain, the network, the subscriptions and the wallet. A trade of
  native SOL wraps it in an account of its own (`wrapped`), whose rent is asked
  for first.
- `MC...` — small instances and start states. `...Proofs` — theorems.

Definitions marked `\* mutant` are no part of the model: each is a plausible
mistake in the definition below it, listed in `PROJECT.json` with the property
that must notice it.

**Abstractions of the program.** An obligation also caches its two values; every
handler that reads them recomputes them first (`cache_calculations`), so they
are not kept. Exponents are 0. In `Lending`, `compound_interest` is an input
(`AccrualRates`), as is the oracle's price; a price the program refuses is a
refresh that does not happen. Addresses derived from a reserve and an owner are
the pair itself. The receiver of a liquidation is the liquidator's deposit
account, that of a withdrawal the user's wallet or the vault. Users may hold
notes in accounts of their own (`deposit_tokens`); those count as their deposit
account, and burning them with the token program directly, behind the market's
back, is left out. Integers are unbounded: the inputs are far below 2^64, and
the program's additions are checked. The Serum market is external: it fills any
part of an order, in lots, at its limit price or better up to `BestBid` and
`BestAsk`, and settles it into the vaults.

**Abstractions of the client.** An account is its number of changes, one at most
in a slot, and a subscription once registered loses no notification; accounts
are not deleted. In `WalletSession` a subscription is only whose account it is
of. In `ClientTrade` time is counted in `MAX_ACCRUAL_SECONDS`; what the program
does beyond refreshing and opening accounts is whether a transaction fails, and
any may.

## 3. Runs

| Run | Instance | Question | Result |
|---|---|---|---|
| `pool` | 1 reserve, 1 user, all instructions, fees collected from 1 token on, accruals of up to 1 s, slots 2–5 with 0 or 2 s each | does the accounting hold together, and is an obligation's record used as the slots allow? | 278k states, holds |
| `halts` | 1 reserve, 1 user, an empty market, all instructions, up to 6 accruals behind, any one flag at a time, somebody refreshing | do the flags stop every path, and does the reserve catch up all the same? | 55k states, holds |
| `liquidation` | 2 reserves, 2 users; the price falls to 0.7, or a loan grows by 40 % | health and liquidation | 203k states, holds |
| `slots` | 3 reserves, 3 slots a side, 3 positions in all | do the slots implement the sets, and is there one for every position? | 97k states, holds |
| `interest_rates` | three curves (three regimes, two, and a flat regime with a steep one next to it), up to 3 tokens in the vault, 5 s with a week of 4 | is the rate on its curve, monotone, computable, and does it matter how often one refreshes? | 1.27M states, holds |
| `dex_liquidation` | 18 tokens pledged for 12 of another reserve, lots of 2, prices up to 3 lots, with and without a trade limit; both directions | who pays for a sale, and how much? | 89k states, holds |
| `subscription` | one account, slots 0–4 | does the page go back, or stay behind? | 6.7k states, holds |
| `wallet_session` | 2 wallets, 2 accounts, 3 connections | what is shown of which wallet, and is it in the end? | 11.7k states, holds |
| `client_trade` | all four trades, two in a row, of native SOL or not, a reserve two accruals behind, a clock that moves once | is what the user is told true, and does a trade end? | 386k states, holds |
| `fee_dust` | as `pool`, fees collected from 10 tokens on | can a refresh become impossible? | **violated** |
| `dex_collateral_totals` | as `dex_liquidation` | are the totals the supplies after a sale? | **violated** |
| `dex_orphan_debt` | 90 tokens pledged for 60, lots of 1, two accruals | is a debt left without a note? | **violated** |

**Bounds, and why they are enough.** `ONE` is 100 in `Lending`, so every
conversion has fractions to lose. `Amounts` holds a token, deposit note and loan
note amount each; together with rates that move they produce roundings in both
directions. `MaxSlot` bounds the clock: four slots are enough to refresh, let
the caches age, expire and be refreshed again, and for interest to accrue more
than once; in `pool` a step of 2 s with accruals of 1 s makes every second
refresh a partial one. `MaxPositions` is 2 in `Lending` so that the limit is
met, and 3 in `ObligationSlots` where two sides share it. `Openable` says which
accounts exist; in the runs with two reserves only those of the story are opened
(u1 pledges r1 and borrows r2, u2 lends r2 and liquidates), and `LentInit` or
`BorrowedInit` starts from the reachable states in which the two have deposited,
or in which u1 has borrowed too: opening and closing is what `pool` is for.
`PriceOrTime` lets one of the two causes of harm, a falling price or a late
accrual, happen in a behaviour of `liquidation`. The amounts of the DEX runs are
those in which all four limits of a sale are met and lots are left over.
`ONE` is 10000 in `interest_rates`, where `MaxDebt` (2 tokens and a unit) lets
utilization cross every knee in both directions and interest run above full
utilization, and a week of 4 s makes an accrual of 5 s a partial one. A year of
5 s makes what one accrual charges large enough, and `ONE` its units small
enough, for the terms of the series beyond the fifth to be told apart from
truncations: with a table of terms that is one tier late
(`OneTierLate`) `SplitAccrualsAgree` fails. `MaxAmount` bounds a
position's amount in `slots`, and `SmallAmounts` in `pool` are the amounts of up to
eight notes, more than its user can hold. In `client_trade` the user has every account or
none, the rest being opened by the first trade, and one reserve is enough for the
loop to refresh several times; the proofs (section 4) cover several reserves.
In the client's runs a page may stop (`CHECK_DEADLOCK FALSE`): the chain of the
model ends, the last connection is made, the last trade reported, or an uncaught
exception ends it. The market never stops, its owner may always act, so deadlock
is checked in all other runs.

**Properties.**
- `CachesInSync`, `TotalsMatchNotes`, `VaultCoversDeposits`,
  `PositionsMatchAccounts`: the copies agree, or differ only to the safe side.
- `DepositsKeepBacking`, `LoanNotesKeepUp`, `LossesBelowAToken`, `NoOrphanDebt`:
  rates and roundings. The first two compare what all notes are worth at the
  cached rate with what the reserve has or is owed, before and after a step. Rates are used for up to
  two slots while every handler changes what they were computed from, so the
  difference may only grow by what the step's own rounding can lose: the digits
  below one note of one division, and the fraction of a token of debt that
  `repay` drops. New rates start the comparison afresh: they promise at most what
  there is (one token, of a reserve that is empty), and leave less than a digit
  for each loan note uncovered. `LossesBelowAToken` says of every usable reserve
  that what its notes do not cover is less than the token below which `repay`
  forgets it, `NoOrphanDebt` that no debt outlives the last note.
- `InterestChargedOnce`, `CatchesUp`: accrual. The first says that debt nobody
  was paid for is interest, of time not charged before, up to the clock and of
  at most one accrual.
- `HaltsRespected`: the flags as `market.rs` describes them. `HALT_BORROWS`
  disables loans and the withdrawal of collateral: while it is set, collateral
  leaves an obligation only by a liquidation, which asks that the obligation is
  not healthy. It is of all instructions but `liquidate_dex`, which looks at none: of a market with DEX liquidations it
  does not hold.
- `StaysHealthy`, `LiquidationProportional`: obligations. Opening a loan account
  is excluded from the first: the ratio demanded of an obligation is the largest
  of its loan accounts' reserves, even of empty ones, so its owner can endanger
  it that way. The second compares the share of the collateral's value a
  liquidation takes with the share of the debt it repays; one unit of the value
  that is left may be lost to truncation.
- `NoDuplicates`, `RecordedWhileOpen`, `RegistrationSucceeds`,
  `ImplementsPositions`: slots. `ObligationsArePositions`: their use. The handlers
  that close an account look at the token account, while unregistering relies on
  the record: it would forget what the record still says.
- `RateWithinCurve`, `RefreshNeverPanics`, `RateFollowsUtilization`,
  `SplitAccrualsAgree`: the curve. They are of the configurations that mean
  something (`SaneCurve`, and no rate above 2): nothing in the program checks a
  configuration, and with others the subtractions and divisions panic.
- `BookedTokensArePaid`, `PremiumBounded`, `LendersKeepBacking`,
  `PositionsWithinAccounts`: a DEX sale. The accounting is of what was planned
  and not of what was filled, so all rests on the check of the proceeds. Booked
  tokens are paid but for what the price of one collateral unit buys, which is
  the precision of the share that is sold; the borrower's collateral pays for the
  debt written off and the premium of its reserve, lenders of neither reserve
  for any of it. Each slack is named in the comment of its property.
- `ImplementsView`, `EventuallyCurrent`: a subscription. The page may stay
  behind in one case, which the property exempts by name (`InTheGap`): a last
  change after the fetch was answered and before the node registered the
  subscription. Neither tells of it.
- `NothingWithoutWallet`, `FirstWalletIsRight`, `BalancesArrive`: a session.
  The first is of `user.assets` alone: `walletInit` is set again by a connect
  handler whose fetches are answered after the disconnect, and so may the
  transaction log be, which is not modelled. The second speaks of the first
  wallet of a page on purpose: subscriptions are never cancelled, so those of an
  earlier wallet write into the assets of a later one, and a connect handler
  that was still fetching declares the later one initialised. For the same
  reason the third is of the balances a wallet still waits for: each is shown in
  the end as its own, but an earlier wallet's subscription may overwrite it
  afterwards, and nothing fetches it again.
- `SuccessMeansDone`, `CancelledSentNothing`, `OneInFlight`, `Answered`: a trade.
  Nothing is said of a trade reported as failed, because nothing could be: its
  transaction may be on the network still, and land later, even beside a second
  attempt. A failed refresh ahead does not stop those after it; only the last
  result counts. `Answered` says that a trade ends, and names what may stop it:
  without a wallet, if it was disconnected during the refreshes, and for native
  SOL, if the query of the rent fails, the handlers throw where nobody catches
  it (stage `"thrown"`), `sendingTrade` stays true and no other action can be
  chosen. It does not say that the user is told: an input error that is set when
  the handler returns, by an earlier submit or during the trade, makes
  `submitTrade` return without a notification (`"Silent"`).

**Fairness.** `CatchesUp` assumes weak fairness of `RefreshReserve` for each
reserve: anyone may send that instruction, it needs no signature, and it is
enabled whenever the clock has not gone back; the clients send it before their
operations. Nothing is assumed of users, of the owner or of the clock:
`CatchesUp` speaks of the time after the clock has come to rest, since a clock
that runs faster than refreshes are sent keeps any reserve behind.
`EventuallyCurrent` assumes that the node answers, registers and delivers, each
step by itself; `BalancesArrive` that every fetch is answered. `Answered` assumes
that the client runs on: every call it awaits returns or throws
(`confirmTransaction` has a timeout of its own) and the user answers the wallet;
nothing is assumed of the network, the chain or the subscriptions.

**The violations.**
- `fee_dust`: a loan's fees are added to `uncollected_fees` when it is made. When
  the last loan note is burned, `Reserve::repay` drops what is left of the debt,
  a fraction of a token, but not the part of it that is in `uncollected_fees`.
  If the depositors then withdraw, the fees exceed what the reserve has;
  `token_supply` subtracts them unchecked and panics, and from then on no
  `refresh_reserve` succeeds, although `lib.rs` says repeated calls bring a
  reserve up to date. As long as the fees stay below the collection threshold
  nothing takes them off the books; a later deposit only helps if it can be
  made, and it needs fresh caches. The trace is a deposit, a loan with its fee,
  a partial repayment, interest in two refreshes, the last repayment, and the
  withdrawal of all deposits.
- `dex_collateral_totals`: `update_accounting` burns collateral notes and sells
  tokens out of the collateral reserve's vault, but loads that reserve without
  changing it: its totals keep both. One sale shows it.
- `dex_orphan_debt`: the loan notes repaid are computed with the rate of the
  deposit notes. Interest raises the loan rate above it, so more notes are
  burned than debt is paid, and when the last note goes whole tokens of debt
  remain that nobody can repay.

## 4. Theorems

Every theorem is of a specification, for every value of its constants that
satisfies the modules' assumptions.

| Module | Theorem | States |
|---|---|---|
| `LendingProofs` | `AccountingInvariant`, `TypeCorrect`, `TotalsAreSupplies`, `CachesStayInSync`, `VaultsCoverDeposits` | `[]AccountingInv` and its parts |
| | `NotesAreHeld`, `HaltsAreRespected` | `[]TotalsMatchNotes`, `HaltsRespected` |
| | `InterestIsChargedOnce`, `DepositsStayBacked`, `LoanNotesStayAhead` | `InterestChargedOnce`, `DepositsKeepBacking`, `LoanNotesKeepUp` |
| | `OrphansAreRoundings` | that no debt outlives its notes, but for a named rounding |
| `PositionProofs` | `PositionsAreAccounts`, `HealthIsKept`, `LiquidationIsProportional` | `[]PositionsMatchAccounts`, `StaysHealthy`, `LiquidationProportional` |
| | `LendingImplementsPositions` | `ObligationsArePositions` |
| `DexProofs` | `DexInvariant`, `DexTypeCorrect`, `DexCachesInSync`, `PositionsStayWithinAccounts`, `DexNotesHeld` | `[]DexInv` and its parts, of markets with DEX liquidations |
| | `BookedIsPaid`, `LendersStayBacked`, `PremiumIsBounded` | `BookedTokensArePaid`, `LendersKeepBacking`, `PremiumBounded` |
| | `DexNotesKeepWorth` | what the deposit notes of a reserve may lose by any step, of vault and mint |
| | `DexInterestIsChargedOnce`, `DexHealthIsKept`, `DexImplementsPositions` | the step properties of `Lending` and the refinement, of markets with DEX liquidations |
| `SlotProofs` | `SlotsTyped`, `NoAccountTwice`, `RecordsWhatIsOpen`, `RegistrationAlwaysSucceeds`, `SlotsImplementPositions` | the slots' invariants and the refinement |
| `InterestProofs` | `TypeCorrect`, `RateBounded`, `AlwaysRefreshable`, `RateMonotone` | types, and the curve but for `SplitAccrualsAgree` |
| `SubscriptionProofs` | `SubscriptionImplementsView` | the refinement of `AccountView` |
| | `NothingComesBack`, `FirstWalletSeesItsOwn` | `[]NothingWithoutWallet`, `[]FirstWalletIsRight` |
| `ClientProofs` | `ClientTypeCorrect`, `SuccessIsTrue`, `CancelledIsTrue`, `OneAtATime` | what the user is told |

**Accounting.** The inductive invariant is

    AccountingInv == TypeOK /\ TotalsMatchMints /\ CachesAgree /\ VaultCoversDeposits

The parts need each other. Burning notes subtracts from a mint's supply, and
the guard of a withdrawal or a repayment compares with the reserve's total:
the supply stays a natural number only because the two are equal. Conversely
the totals are known to be equal only for typed states. `CachesInSync` speaks of
fresh caches only and is not inductive, since a cache becomes fresh again by a
refresh; `CachesAgree` says that the two are equal whether fresh or not.
`VaultCoversDeposits` makes the guard on the vault redundant. The lemmas go
bottom up: conversions are natural numbers where they do not divide by zero;
recording, accruing and collecting keep a `ReserveState` typed; one `...TypeOK`
lemma per action; one `...Accounting` lemma per action or group of actions;
`NextAccounting` combines them.

**Sums.** What all users hold of a kind of notes, what an obligation has
pledged and what it owes are `MapThenSumSet`s, recursive functions of a set.
`NumberProofs` says what it needs of them: that a sum is the first element's
value and the sum of the rest (`TotalStep`), from which follow that one element's
change is the sum's (`TotalChanges`), that any element may be taken out
(`TotalSplit`) and when one sum is at most another (`TotalAtMost`). Each is proved
by taking, among the subsets of a finite set of which the claim fails, one of
which no smaller subset fails.

**Notes.** `NotesInv` adds `TotalsMatchNotes` to `AccountingInv`, which makes the
balances natural numbers. Each action changes at most two balances of a kind,
and the supply by the difference.

**Positions.** `PositionInv` adds to it `PositionRecorded` of every position, which
is the property with one thing more: an obligation that was closed has no
collateral account registered either. Without that a new obligation, which
starts from zero, could forget what an old account holds. The arithmetic is in
two lemmas: amounts of notes are linear in the notes, and a saturating
subtraction of no more notes than there were does not saturate on the loans'
side, and on the collateral's leaves no more than is there (`SubtractedAmount`).

**Health.** Of `PositionInv` follows what closing an account takes off the record:
nothing that counts. So every step is of one of two kinds: it leaves the
obligation `NoWorse`, no collateral that counts gone and no loan grown, or it is
its owner's and checked the result. `NoWorse` obligations are worth no less and
owe no more, whatever the prices (`NoWorseValues`, of sums of products truncated
twice), and of fewer loans the largest ratio is no larger (`FewerLoansRatio`).

**Flags.** A property of steps, from the types: one lemma per group of
instructions says which test each makes. Fees minted by a refresh cancel out of
the difference.

**Interest.** Also a property of steps. A step that touches a reserve is a
refresh or records one of four things (`StepReserves`); of the four only a loan
adds to the debt, and a loan with a debt that grows pays its borrower
(`BorrowPays`: a fee on nothing is nothing). A refresh
that charges has time behind it to charge for (`AccrualCharges`).

**Rates.** `Recorded` says what each of the four costs: tokens in for notes
rounded down, tokens out for notes rounded up, at the cached rate; or every whole
token of the debt.
`NotesForTokens` and `TokensForNotes` say what the two truncations of a
conversion can lose: a quotient that is truncated and then rounded up falls short
by no more than the whole tokens of the rate. Of new rates `RateWorth` says that a
truncated quotient times the notes is what it was computed of, less one digit a
note at most. A second refresh in one slot must change nothing, for the entry of
the market may then look unchanged although the debt has grown; the invariant
`RatesOfTheSlot` excludes it: an entry of the present slot belongs to a reserve
that has accrued all interest up to the clock.

**Orphaned debt.** `NoOrphanDebt` does not hold of every market: a rate is
truncated by up to one digit, so repaying a very large number of notes (about
`ONE` of them, 10^15 base units) may leave more than the fraction of a token that
`repay` drops. `OrphansAreRoundings` says, without a hypothesis, that this is the
only way, and how much it leaves: when a step leaves debt without a note, the
notes of that reserve were a token or more behind its debt at the rate then
cached, and the debt left is a token at least and no more than that
(`NotesFellBehind`, which also names the one other case, a loan note worth `ONE`
tokens or more). Whoever burns the last note repays at least what the notes are
worth at the cached rate, and a rest below a token is dropped
(`RecordedOrphansNone`); a loan that adds to the debt mints a note, and where
there is no debt there is none to grow by a refresh. That notes stay less than a
token behind (`LossesBelowAToken`) is what the run `pool` checks of its market.

**Liquidation share.** All truncations of `calculate_liquidation` favour the owner:
the value that may be sold is a truncated share of the value pledged
(`SellableNat`, `ShareOfTotal`), and so are the notes taken for it
(`TakenAtMost`). What is left on either side after a change of one position
follows from the sums (`LoanValueChanges`, `CollateralValueChanges`).

**DEX.** A DEX liquidation does not keep `AccountingInv`: it leaves the totals and
the vault of the reserve whose collateral it sells behind
(`dex_collateral_totals`). What survives is

    DexInv == TypeOK /\ NotesHeld /\ CachesAgree /\ PositionsWithinAccounts

`NotesHeld` compares the mints with the accounts instead of the totals, and is
what keeps a burn from taking a supply below zero (`AccountsWithinMints`);
positions are now at most what the accounts hold, on both sides. The proofs of
`LendingProofs` are about single steps from typed states where they can be, so
`DexProofs` cites them for the instructions of `Lending`. The three properties
of a sale are arithmetic of its plan: a chain of quotients, each truncated, from
the debt to the value to be sold, to tokens, to lots, and back to the debt that
is written off. `TruncatedQuotient` and `TruncatedProduct` bound each of them from both
sides, `RepaidWorth` and `PlanWorth` combine them, and the check of the proceeds
(`ProceedsWorth`) ties the plan to what the DEX filled. That no step of `Lending`
is taken for a sale is `LendingIsNot`: in `Lending` loan notes are burned for tokens
of somebody's wallet.

`DepositsKeepBacking` is of the totals of a reserve, and a sale does not touch
those of the reserve whose tokens it sells: of depositors in a market with a DEX
it would say nothing. `DexNotesKeepWorth` is the same promise judged by what the
vault holds and the mint has issued (`WorthLost`), for both reserves of a sale
and every other step. For the steps of `Lending` it follows from
`DepositsKeepBacking`, because they book no more tokens than come in and count
every note (`LendingMoves`); for a sale from the arithmetic of
`LendersKeepBacking`.

Two step properties of `Lending`, and the use of the slots below, hold of the
whole market as they are; no run repeats them there, the proofs stand alone. The
steps of `Lending` keep them from the weaker `DexInv`, since their lemmas ask
only for the part of an invariant they use; and a sale adds to no debt and
refuses to start on a healthy obligation. The others are not lifted
because they do not hold, or not as they are: `HaltsRespected`, since a DEX
liquidation looks at no flag; `LiquidationProportional`, which is of liquidations
by repayment (`PremiumBounded` is its counterpart); `LoanNotesKeepUp`,
`LossesBelowAToken` and `NoOrphanDebt`, because a sale burns loan notes at another
rate (`dex_orphan_debt`); and
`TotalsMatchNotes` and `VaultCoversDeposits`, for `dex_collateral_totals`.

**Slots.** `SlotInv` is the conjunction of the three invariants: a new account
is in no slot because what is in slots is open, and an open one is found in one
slot because none is there twice. The refinement needs, beyond that, that the
number of slots in use is the number of open accounts (`SlotsCountAccounts`),
by a bijection between the two. That registration succeeds is counting as well:
if no slot of a side were free, it would hold as many accounts as the array is
long, which is not below the limit; of the free slots there is a least
(`FirstFree`), and those before it hold accounts of other reserves.

**Use of the slots.** That each instruction is a step of the abstract record or
leaves it alone follows by cases, and needs an invariant in two places. An
account is closed when its token account is empty: that the position is empty
then follows from `PositionInv` (`NothingFromNothing`), or, in a market with DEX
liquidations, from `PositionsWithinAccounts`. An obligation that is not open has
no positions (`ClosedHoldNothing`): without that, opening it would lose them. The
theorems assume that `NoteAmounts`, the amounts of one operation of the abstract
record, has the amount of every number of notes (`EveryAmount`), and with DEX
liquidations, which book parts of notes, every natural number. `ObligationSlots`
asks no more of it than that these are natural numbers, so `Nat` serves all.

**Curve.** The types are inductive; every other property follows from the state
by the arithmetic of a truncated interpolation: it lies between the ends of its
segment, is monotone in it, and adjoining segments meet.

**Subscription.** With typed slots, every context that is under way says what
the account was in a slot that has passed; so each callback is a `Show` or a
stutter.

**Session.** `SessionInv` adds to the two properties that there is no handler and
no wallet before the first connection, and, while there has been but one and its
wallet is connected, that what is shown is that wallet's, that whatever its
handler no longer fetches is shown, and that the session counts as initialised
only when nothing is left to fetch.

**Client.** `ClientInv` adds to the stated properties what is known at each
stage: that the transaction awaited is the first of what is left and the only
one of this trade on the network, that the trade itself is the last of its
bundle, and that before the bundle is sent there were but refreshes.

The assumptions are those of the modules: `ONE`, `MaxAccrual` and the periods are
positive, a market has finitely many reserves and users, inputs are of their types, the market
is created after slot 1 (a zeroed cache, of slot 0 and not invalidated, is not
fresh then).

**Only model-checked.** `SplitAccrualsAgree` bounds an error of the series by
trying it; the bound depends on the rates. `LossesBelowAToken`, and with it
`NoOrphanDebt`, depends on how many notes there are: the run has few enough. The refinement and the safety of a page are proved, what it
must show in the end is not: liveness (`CatchesUp`, `EventuallyCurrent`,
`BalancesArrive`, `Answered`) is out of the prover's reach, as is anything with
`ENABLED`.

## 5. Not modelled

- *Creation* of a market and its reserves, and the change of its owner: `Init` is
  the state they leave, before any user comes. Nothing of them interleaves with
  the rest but a reserve that is added later, which starts like the others.
- *Configurations that panic*: liquidations of a reserve whose
  `min_collateral_ratio` is less than 1 and the bonus fail always, curves out of
  order do at some utilization. They are guards and assumptions here.
- *The client's* transaction log, airdrop, a second trade submitted while one is
  under way (nothing but the choice of the action looks at `sendingTrade`),
  values derived for display, and accounts that are closed while a page shows them.
- *The TypeScript library, the CPI bindings, the command line tool, deployment
  scripts, views and the test writer*: they build instructions, decode accounts
  and present, and keep no state of the protocol.

## 6. What could come next

1. Creation as actions, with a reserve added to a market in use.
2. Liquidation arithmetic over all small obligations and configurations,
   including those for which it panics, and its fixed point: how many
   liquidations restore an obligation.
3. `AccountingInv` of markets with DEX liquidations, of a program whose
   collateral totals are mended.
4. A subscription in `ClientTrade` of its own for every reserve, instead of one
   notification of all.
