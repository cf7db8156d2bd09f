--------------------------- MODULE MCLiquidateDex ---------------------------
(***************************************************************************)
(* A market with a loan that a fall of the price or interest makes         *)
(* liquidatable, for TLC: u1 pledged tokens of r1 and borrowed some of     *)
(* those of r2 that u2 lent, everything at price 1.                        *)
(***************************************************************************)
EXTENDS MCLending, LiquidateDex

CONSTANTS
    TokensPledged, TokensBorrowed, TokensLent,   \* at the start
    TradeLimits                                  \* liquidation_dex_trade_max, 0 for none

Borrowed(r) == IF r = r2 THEN TokensBorrowed ELSE 0
Supplied(r) == IF r = r1 THEN TokensPledged ELSE TokensLent

BorrowedInit ==
    /\ slot = FirstSlot /\ unix_timestamp = 0
    /\ flags = {}
    /\ \E limit \in TradeLimits, c \in Configs :
           config = [r \in Reserves |-> [c EXCEPT !.liquidation_dex_trade_max = limit]]
    /\ reserve = [r \in Reserves |->
           RecordBorrow(RefreshTo(RecordDeposit(NewReserve(0), Supplied(r), Supplied(r)),
                                  FirstSlot), Borrowed(r), Borrowed(r), 0)]
    /\ reserve_info = [r \in Reserves |->
           [price |-> ONE, deposit_note_exchange_rate |-> ONE,
            loan_note_exchange_rate |-> ONE,
            min_collateral_ratio |-> config[r].min_collateral_ratio,
            liquidation_bonus |-> config[r].liquidation_premium,
            last_updated |-> FirstSlot, invalidated |-> FALSE]]
    /\ obligations = {u1}
    /\ obligation = [u \in Users |-> IF u = u1
           THEN [AddLoan(AddCollateral(NewObligation, r1, FromU64(TokensPledged)),
                         r2, FromU64(TokensBorrowed))
                 EXCEPT !.collateral_accounts = {r1}, !.loan_accounts = {r2}]
           ELSE NewObligation]
    /\ deposit_accounts = {<<u1, r1>>, <<u2, r1>>, <<u2, r2>>}
    /\ wallet = [r \in Reserves |-> [u \in Users |-> IF u = u1 THEN Borrowed(r) ELSE 0]]
    /\ vault = [r \in Reserves |-> Supplied(r) - Borrowed(r)]
    /\ deposit_account = [NoNotes EXCEPT ![r2][u2] = TokensLent]
    /\ collateral_account = [NoNotes EXCEPT ![r1][u1] = TokensPledged]
    /\ fee_note_vault = [r \in Reserves |-> 0]
    /\ loan_account = [NoNotes EXCEPT ![r2][u1] = TokensBorrowed]
    /\ deposit_note_mint = [r \in Reserves |-> Supplied(r)]
    /\ loan_note_mint = [r \in Reserves |-> Borrowed(r)]
    /\ quote \in Reserves

DexAmounts == {LoanNotes(5), DepositNotes(7)}

(* The accounts stay as they are, and so does the price of the loan.      *)
PriceMoves ==
    \E x \in AccrualRates :
        \/ \E price \in Prices : RefreshReserve(r1, price, x)
        \/ RefreshReserve(r2, ONE, x)

(* Meanwhile the borrower repays, the lender withdraws, and liquidates by  *)
(* repaying.                                                               *)
Meanwhile ==
    \E a \in Amounts :
        \/ Repay(u1, u1, r2, a)
        \/ Withdraw(u2, r2, a)
        \/ \E m \in MinCollaterals : Liquidate(u2, u1, r2, r1, a, m)

DexTradeNext ==
    \/ (Tick \/ PriceMoves \/ Meanwhile) /\ UNCHANGED quote
    \/ DexStep
DexTradeSpec == BorrowedInit /\ [][DexTradeNext]_dex_vars
=============================================================================
