----------------------------- MODULE MCLending -----------------------------
(***************************************************************************)
(* Small markets for TLC.  Numbers are in hundredths (ONE = 100).          *)
(***************************************************************************)
EXTENDS LendingProperties

CONSTANTS r1, r2, u1, u2

Tokens(n) == [units |-> "Tokens", value |-> n]
DepositNotes(n) == [units |-> "DepositNotes", value |-> n]
LoanNotes(n) == [units |-> "LoanNotes", value |-> n]

OneReserve == {r1}
OneUser == {u1}

PoolAmounts == {Tokens(1), Tokens(3), DepositNotes(2), LoanNotes(2)}
PoolTokens == [r \in Reserves |-> [u \in Users |-> 4]]
FeesFrom(threshold) ==
    [loan_origination_fee |-> 10, manage_fee_rate |-> 50,
     manage_fee_collection_threshold |-> threshold,
     min_collateral_ratio |-> 125, liquidation_premium |-> 10,
     liquidation_dex_trade_max |-> 0]
(* Fees collected from one token on, and fees left to add up. *)
PoolConfigs == {FeesFrom(1)}
PatientConfigs == {FeesFrom(10)}
EveryAccount == {"deposit", "collateral", "loan"} \X Users \X Reserves
NoFlags == {{}}
OneFlagOrNone == {{}} \union {{f} : f \in Flags}
FewAmounts == {Tokens(2), LoanNotes(1)}
(* Two reserves: u1 pledges r1 and borrows r2; u2 lends r2 and liquidates. *)
TwoReserves == {r1, r2}
TwoUsers == {u1, u2}
PledgeAndBorrow ==
    {<<"deposit", u1, r1>>, <<"collateral", u1, r1>>, <<"loan", u1, r2>>,
     <<"deposit", u2, r1>>, <<"deposit", u2, r2>>}
CrossTokens == [r \in Reserves |-> [u \in Users |->
    IF r = r1 /\ u = u1 THEN 4 ELSE IF r = r2 /\ u = u2 THEN 4 ELSE 0]]
PlainConfigs == {[loan_origination_fee |-> 0, manage_fee_rate |-> 0,
                  manage_fee_collection_threshold |-> 5,
                  min_collateral_ratio |-> 125, liquidation_premium |-> 10,
     liquidation_dex_trade_max |-> 0]}
(* A market where u1 pledged four tokens of r1 and u2 lent four of r2.  *)
Lent == [r \in Reserves |-> IF r = r1 THEN u1 ELSE u2]
LentBy(r) == [u \in Users |-> IF u = Lent[r] THEN 4 ELSE 0]
LentInit ==
    /\ slot = FirstSlot /\ unix_timestamp = 0
    /\ flags = {}
    /\ config \in [Reserves -> Configs]
    /\ reserve = [r \in Reserves |->
           RefreshTo(RecordDeposit(NewReserve(0), 4, 4), FirstSlot)]
    /\ reserve_info = [r \in Reserves |->
           [price |-> 100, deposit_note_exchange_rate |-> ONE,
            loan_note_exchange_rate |-> ONE,
            min_collateral_ratio |-> config[r].min_collateral_ratio,
            liquidation_bonus |-> config[r].liquidation_premium,
            last_updated |-> FirstSlot, invalidated |-> FALSE]]
    /\ obligations = {u1}
    /\ obligation = [u \in Users |-> IF u = u1
           THEN [AddCollateral(NewObligation, r1, NoteAmount(4)) EXCEPT
                    !.collateral_accounts = {r1}, !.loan_accounts = {r2}]
           ELSE NewObligation]
    /\ deposit_accounts = {a \in Users \X Reserves : <<"deposit", a[1], a[2]>> \in Openable}
    /\ wallet = InitialTokens /\ vault = [r \in Reserves |-> 4]
    /\ deposit_account = [NoNotes EXCEPT ![r2] = LentBy(r2)]
    /\ collateral_account = [NoNotes EXCEPT ![r1] = LentBy(r1)]
    /\ fee_note_vault = [r \in Reserves |-> 0]
    /\ loan_account = NoNotes
    /\ deposit_note_mint = [r \in Reserves |-> 4]
    /\ loan_note_mint = [r \in Reserves |-> 0]
LentTokens == [r \in Reserves |-> [u \in Users |-> IF r = r2 /\ u = u2 THEN 3 ELSE 0]]
LentAmounts == {Tokens(3), LoanNotes(2)}

(* A loan comes to harm by a price that falls or by interest: one of the   *)
(* two at a time, to stay small.                                           *)
PriceOrTime ==
    \/ (\A r \in Reserves : reserve_info[r].price = ONE) /\ Tick
    \/ \E r \in Reserves, price \in Prices, x \in AccrualRates :
          /\ slot = FirstSlot \/ price = ONE
          /\ RefreshReserve(r, price, x)
MarketSpec == LentInit /\ [][PriceOrTime \/ UserStep]_vars
CrankedSpec == Spec /\ Cranked
=============================================================================
