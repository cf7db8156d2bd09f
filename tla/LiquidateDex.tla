---------------------------- MODULE LiquidateDex ----------------------------
(***************************************************************************)
(* liquidate_dex: anybody may have the program sell the collateral of an   *)
(* unhealthy obligation on a Serum market and repay a loan with what that  *)
(* brings.  The step is added to those of Lending.tla; it is atomic like   *)
(* every instruction, the order on the DEX and its settlement included.    *)
(*                                                                         *)
(* The accounts are checked to belong to the obligation only, but burning  *)
(* notes with the reserves' mints fails for accounts of other reserves, so *)
(* they are those of r and c.  The DEX is external: it fills any part of   *)
(* an order at its limit price or better and returns the rest at once.     *)
(***************************************************************************)
EXTENDS LendingProperties

CONSTANTS
    CoinLotSize, PcLotSize,   \* lots of a DEX market, in tokens
    BestBid, BestAsk          \* bounds: the best prices met, in lots

ASSUME LotsAssumption ==
    /\ CoinLotSize \in Nat \ {0} /\ PcLotSize \in Nat \ {0} /\ BestBid \in Nat /\ BestAsk \in Nat

VARIABLE quote   \* the reserve whose token_mint is Market.quote_token_mint

dex_vars == <<vars, quote>>

DexInit == Init /\ quote \in Reserves

-----------------------------------------------------------------------------
(* SwapCalculator: how much to sell, at which price.                       *)

Premium(c) == config[c].liquidation_premium

Slippage(c) == Div(Premium(c), ONE + Premium(c))

(* The ratio is the reserve's current one, not the one the market cached. *)
DexCRatioLtv(o, r) ==
    Mul(config[r].min_collateral_ratio,
        Div(LoanValue(o, reserve_info), CollateralValue(o, reserve_info)))

DexRatioOverPremium(r, c) ==
    Div(config[r].min_collateral_ratio, ONE + Premium(c))

(* plan errs on loans over-collateralised or underwater and panics on a    *)
(* division by zero or a difference below zero.                            *)
CanPlan(o, r, c) ==
    /\ CollateralValue(o, reserve_info) > 0
    /\ DexCRatioLtv(o, r) > ONE
    /\ DexCRatioLtv(o, r) <= config[r].min_collateral_ratio
    /\ DexRatioOverPremium(r, c) > ONE
    /\ reserve_info[r].price > 0 /\ reserve_info[c].price > 0

(* The value to sell for the obligation to be healthy again, and what is   *)
(* repaid for it: the rest is the premium.                                 *)
CollateralSellableValue(o, r, c) ==
    Mul(Div(DexCRatioLtv(o, r) - ONE, DexRatioOverPremium(r, c) - ONE),
        CollateralValue(o, reserve_info))

PremiumTwice(o, r, c) ==   \* mutant
    Div(Div(CollateralSellableValue(o, r, c), ONE + Premium(c)), ONE + Premium(c))
LoanRepayValue(o, r, c) ==
    Div(CollateralSellableValue(o, r, c), ONE + Premium(c))

(* max_collateral_tradable: no more than restores health, than the account *)
(* has, than pays the whole loan, or than the reserve allows in a trade.   *)
CollateralTokensTradable(u, r, c) ==
    LET price == reserve_info[c].price
        current == Mul(NoteAmount(collateral_account[c][u]),
                       reserve_info[c].deposit_note_exchange_rate)
        loan == NoteValue(NoteAmount(loan_account[r][u]),
                    reserve_info[r].loan_note_exchange_rate, reserve_info[r].price)
        limit == config[c].liquidation_dex_trade_max
    IN  Min({Div(CollateralSellableValue(obligation[u], r, c), price), current,
             Div(Mul(loan, ONE + Premium(c)), price)}
            \union (IF limit = 0 THEN {} ELSE {FromU64(limit)}))

NormalLimitPrice(r, c) ==
    Mul(ONE - Slippage(c), Div(reserve_info[c].price, reserve_info[r].price))

-----------------------------------------------------------------------------
(* execute_plan: an order that pays from the collateral vault, settled     *)
(* into the two vaults at once.                                            *)

PriceLots(price) == AsU64Rounded((price * CoinLotSize) \div PcLotSize)

(* Filled: tokens that left the collateral vault, tokens that came into    *)
(* the loan vault.                                                         *)
Fill(sold, proceeds) == [sold |-> sold, proceeds |-> proceeds]

(* A sale of amount tokens for the quote token, at limit lots or more. *)
SellFills(amount, limit) ==
    UNION {{Fill(coins * CoinLotSize, pcs * PcLotSize) :
                pcs \in (limit * coins)..(BestBid * coins)} :
           coins \in 0..(amount \div CoinLotSize)}

(* A purchase for amount quote tokens, at limit lots or less. *)
BuyFills(amount, limit) ==
    UNION {{Fill(pcs * PcLotSize, coins * CoinLotSize) :
                pcs \in (BestAsk * coins)..Least(limit * coins, amount \div PcLotSize)} :
           coins \in 0..amount}

(* An order of nothing, or at a price of nothing, is refused. *)
Fills(u, r, c) ==
    LET amount == AsU64Rounded(CollateralTokensTradable(u, r, c))
        price  == NormalLimitPrice(r, c)
    IN  CASE r = quote /\ amount >= CoinLotSize /\ PriceLots(price) > 0 ->
               SellFills(amount, PriceLots(price))
          [] r # quote /\ c = quote /\ amount > 0 /\ price > 0
               /\ PriceLots(Div(ONE, price)) > 0 ->
               BuyFills(amount, PriceLots(Div(ONE, price)))
          [] OTHER -> {}

(* The tokens the order locks: whole lots of a sale. *)
Ordered(u, r, c) ==
    LET amount == AsU64Rounded(CollateralTokensTradable(u, r, c))
    IN  IF r = quote THEN amount - (amount % CoinLotSize) ELSE amount

(* verify_proceeds: what came in is worth what was to be sold, less the    *)
(* slippage.                                                               *)
AnyProceeds(r, c, proceeds, collateral_tokens_sold) == TRUE   \* mutant
VerifyProceeds(r, c, proceeds, collateral_tokens_sold) ==
    Mul(reserve_info[r].price, FromU64(proceeds))
        >= Mul(Mul(reserve_info[c].price, collateral_tokens_sold), ONE - Slippage(c))

-----------------------------------------------------------------------------
(* update_accounting: everything is derived from the tokens the plan       *)
(* meant to sell, whatever part of the order was filled.                   *)

CollateralSellExpected(o, r, c) ==
    Div(CollateralSellableValue(o, r, c), reserve_info[c].price)

RepaidAsPlanned(u, r, c) ==   \* mutant
    Div(LoanRepayValue(obligation[u], r, c), reserve_info[r].price)
LoanRepaidTokens(u, r, c) ==
    Div(Mul(Div(CollateralTokensTradable(u, r, c),
                CollateralSellExpected(obligation[u], r, c)),
            LoanRepayValue(obligation[u], r, c)),
        reserve_info[r].price)

(* The rate is that of the deposit notes. *)
LoanRepaidNotes(u, r, c) ==
    Div(LoanRepaidTokens(u, r, c), reserve_info[r].deposit_note_exchange_rate)

CollateralNotesSold(u, r, c) ==
    Div(CollateralTokensTradable(u, r, c), reserve_info[c].deposit_note_exchange_rate)

NearestNotes(notes) == AsU64Rounded(notes)   \* mutant
(* The notes burned; the positions change by the exact Number. *)
WholeNotes(notes) == AsU64(notes)

(* Both reserves are loaded, one to be changed: they cannot be the same.   *)
(* No flag of the market is looked at.                                     *)
LiquidateDex(u, r, c) ==
    LET tokens_repaid == AsU64(LoanRepaidTokens(u, r, c))
        notes_repaid  == WholeNotes(LoanRepaidNotes(u, r, c))
        notes_sold    == WholeNotes(CollateralNotesSold(u, r, c))
    IN  /\ u \in obligations
        /\ r \in obligation[u].loan_accounts
        /\ c \in obligation[u].collateral_accounts
        /\ r # c
        /\ PositionsFresh(obligation[u], reserve_info, slot)
        /\ ~IsHealthy(obligation[u], reserve_info)
        /\ CanPlan(obligation[u], r, c)
        /\ CollateralSellExpected(obligation[u], r, c) > 0
        /\ reserve_info[r].deposit_note_exchange_rate > 0
        /\ reserve_info[c].deposit_note_exchange_rate > 0
        /\ Ordered(u, r, c) <= vault[c]
        /\ CanRepay(reserve[r], slot, tokens_repaid, notes_repaid)
        /\ notes_repaid <= loan_account[r][u]
        /\ notes_sold <= collateral_account[c][u]
        /\ \E fill \in Fills(u, r, c) :
            /\ VerifyProceeds(r, c, fill.proceeds, CollateralTokensTradable(u, r, c))
            /\ vault' = [vault EXCEPT ![c] = @ - fill.sold, ![r] = @ + fill.proceeds]
            /\ reserve' = [reserve EXCEPT ![r] =
                   AddUncollectedFees(RecordRepay(@, tokens_repaid, notes_repaid),
                                      SaturatingSub(fill.proceeds, tokens_repaid))]
        /\ obligation' = [obligation EXCEPT ![u] =
               SubtractLoan(SubtractCollateral(@, c, CollateralNotesSold(u, r, c)),
                            r, LoanRepaidNotes(u, r, c))]
        /\ loan_account' = [loan_account EXCEPT ![r][u] = @ - notes_repaid]
        /\ loan_note_mint' = [loan_note_mint EXCEPT ![r] = @ - notes_repaid]
        /\ collateral_account' = [collateral_account EXCEPT ![c][u] = @ - notes_sold]
        /\ deposit_note_mint' = [deposit_note_mint EXCEPT ![c] = @ - notes_sold]
        /\ UNCHANGED <<clock, settings, reserve_info, accounts, wallet,
                       deposit_account, fee_note_vault, quote>>

LendingStep == Next /\ UNCHANGED quote

DexStep == \E u \in Users, r, c \in Reserves : LiquidateDex(u, r, c)

DexNext == LendingStep \/ DexStep

DexSpec == DexInit /\ [][DexNext]_dex_vars

-----------------------------------------------------------------------------
IsDexLiquidationOf(u, r, c) ==
    /\ UNCHANGED <<wallet, deposit_account>>
    /\ loan_account'[r][u] < loan_account[r][u]
    /\ obligation'[u].collateral[c] < obligation[u].collateral[c]

(* What a reserve books as tokens paid in is in its vault.  A DEX          *)
(* liquidation books the repayment it planned and what came in beyond it,  *)
(* so this rests on verify_proceeds: the slippage it allows must be the    *)
(* premium that was taken off the repayment.  What may be missing is worth *)
(* the last digits the truncated quotients lose.                           *)
Booked(r) == reserve'[r].total_deposits - reserve[r].total_deposits
Paid(r) == vault'[r] - vault[r]

BookedTokensArePaid ==
    [][\A r \in Reserves :
          Booked(r) > 0 =>
              \/ Booked(r) <= Paid(r)
              \/ \E c \in Reserves \ {r} :
                    (Booked(r) - Paid(r)) * reserve_info[r].price
                        <= AsU64(reserve_info[c].price) + 2]_dex_vars

DebtPaid(r) == reserve[r].outstanding_debt - reserve'[r].outstanding_debt

(* The borrower pays no more than the premium over the debt a DEX          *)
(* liquidation writes off, however little of it the account, the loan or   *)
(* the trade limit allow.  The slack is the fraction of a token that is    *)
(* not written off, the precision of the ratio of what is sold to what     *)
(* could be, and a few units for the truncated products.                   *)
PremiumBounded ==
    [][\A u \in Users, r, c \in Reserves :
          IsDexLiquidationOf(u, r, c) =>
              CollateralLost(u) * ONE
                  <= (Mul(reserve_info[r].price, DebtPaid(r) + ONE)
                        + AsU64(LoanRepayValue(obligation[u], r, c)) + 3)
                     * (ONE + Premium(c))]_dex_vars

(* What a reserve holds and is owed, less its fees. *)
Backing(r) == reserve[r].outstanding_debt + FromU64(vault[r]) - reserve[r].uncollected_fees
BackingLost(r) == Backing(r) - Backing(r)'

(* A DEX liquidation takes from the lenders of neither reserve: as many    *)
(* notes are burned as tokens were sold, though the reserve's own totals   *)
(* are left behind, and the debt given up for the loan is paid for.  Of    *)
(* the collateral a note rounded down and half a token rounded up are      *)
(* left, of the loan the fraction of a debt that repay() drops and the     *)
(* last digits of the price.                                               *)
LendersKeepBacking ==
    [][\A u \in Users, r, c \in Reserves :
          IsDexLiquidationOf(u, r, c) =>
              /\ BackingLost(c)
                     <= reserve_info[c].deposit_note_exchange_rate
                            * (deposit_note_mint[c] - deposit_note_mint'[c] + 1) + ONE \div 2
              /\ (BackingLost(r) - ONE) * reserve_info[r].price
                     <= (AsU64(reserve_info[c].price) + 2) * ONE]_dex_vars

(* Health is judged by no more collateral than the account holds, and no   *)
(* more debt than is owed.                                                 *)
PositionsWithinAccounts ==
    \A u \in Users, r \in Reserves :
        /\ obligation[u].collateral[r] <= NoteAmount(collateral_account[r][u])
        /\ obligation[u].loans[r] <= NoteAmount(loan_account[r][u])
=============================================================================
