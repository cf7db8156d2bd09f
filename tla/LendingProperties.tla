------------------------- MODULE LendingProperties -------------------------
(***************************************************************************)
(* What Lending.tla must guarantee.  The runs of MCLending.tla check these *)
(* on small markets; LendingProofs and PositionProofs prove most of them   *)
(* for every market.                                                       *)
(***************************************************************************)
EXTENDS Lending

(* Every variable keeps the type its account layout gives it: u64 totals   *)
(* and balances never go below zero, positions stay positions.             *)
TypeOK ==
    /\ slot \in Nat /\ unix_timestamp \in Nat
    /\ flags \subseteq Flags
    /\ config \in [Reserves -> Config]
    /\ reserve \in [Reserves -> ReserveState]
    /\ reserve_info \in [Reserves -> CachedReserveInfo]
    /\ obligations \subseteq Users
    /\ obligation \in [Users -> ObligationState]
    /\ deposit_accounts \subseteq Users \X Reserves
    /\ wallet \in [Reserves -> [Users -> Nat]]
    /\ vault \in [Reserves -> Nat]
    /\ deposit_account \in [Reserves -> [Users -> Nat]]
    /\ collateral_account \in [Reserves -> [Users -> Nat]]
    /\ fee_note_vault \in [Reserves -> Nat]
    /\ loan_account \in [Reserves -> [Users -> Nat]]
    /\ deposit_note_mint \in [Reserves -> Nat]
    /\ loan_note_mint \in [Reserves -> Nat]

(* The market's entry of a reserve and the reserve's own state are two     *)
(* caches in two accounts.  A handler that found the entry fresh unwraps   *)
(* the state without looking: it must be fresh too, of the same slot.      *)
CachesInSync ==
    \A r \in Reserves :
        Cached(r) => /\ Fresh(reserve[r], slot, ReserveTTL)
                     /\ reserve[r].last_updated = reserve_info[r].last_updated

Holders(balances) == MapThenSumSet(LAMBDA u : balances[u], Users)

(* The totals a reserve keeps, from which the exchange rates are computed, *)
(* are the supplies of its note mints.                                     *)
TotalsMatchMints ==
    \A r \in Reserves :
        /\ reserve[r].total_deposit_notes = deposit_note_mint[r]
        /\ reserve[r].total_loan_notes = loan_note_mint[r]

(* And every note counted in them is in some account.                      *)
TotalsMatchNotes ==
    /\ TotalsMatchMints
    /\ \A r \in Reserves :
        /\ deposit_note_mint[r] = Holders(deposit_account[r])
               + Holders(collateral_account[r]) + fee_note_vault[r]
        /\ loan_note_mint[r] = Holders(loan_account[r])

(* The vault holds at least the tokens the reserve believes it holds, so a *)
(* transfer the reserve's total allows cannot fail for want of tokens.     *)
VaultCoversDeposits ==
    \A r \in Reserves : reserve[r].total_deposits <= vault[r]

(* Whether or not they are fresh, the two caches are updated and           *)
(* invalidated together.                                                   *)
CachesAgree ==
    \A r \in Reserves :
        /\ reserve[r].last_updated = reserve_info[r].last_updated
        /\ reserve[r].invalidated = reserve_info[r].invalidated

(* The part of all this that is inductive: types, because burning notes    *)
(* relies on the totals, and the totals on the mints.                      *)
AccountingInv == TypeOK /\ TotalsMatchMints /\ CachesAgree /\ VaultCoversDeposits

(* lib.rs says of refresh_reserve that calling it repeatedly gets the      *)
(* reserve up to date.  A refresh values the deposit notes with an         *)
(* unchecked subtraction, so it must never find them worth less than zero: *)
(* such a reserve could not be refreshed by any number of calls.           *)
RefreshGetsUpToDate ==
    \A r \in Reserves, x \in AccrualRates :
        DepositNoteValue(AccrueInterest(reserve[r], x, config[r].manage_fee_rate,
                                        unix_timestamp, slot)) >= 0

(* When no loan notes are left nobody can repay, so no debt may be left on *)
(* the books to be counted as an asset of the depositors.                  *)
NoOrphanDebt ==
    \A r \in Reserves :
        reserve[r].total_loan_notes = 0 => reserve[r].outstanding_debt = 0

(* Health is judged by the amounts an obligation records.  They are what   *)
(* the loan accounts hold, at most what the collateral accounts hold, and  *)
(* nothing is pledged or owed in an account that is not registered.        *)
PositionsMatchAccounts ==
    \A u \in Users, r \in Reserves :
        /\ obligation[u].loans[r] = NoteAmount(loan_account[r][u])
        /\ obligation[u].collateral[r] <= NoteAmount(collateral_account[r][u])
        /\ r \notin obligation[u].loan_accounts => loan_account[r][u] = 0
        /\ r \notin obligation[u].collateral_accounts => collateral_account[r][u] = 0
        /\ u \notin obligations => obligation[u].loan_accounts = {}

-----------------------------------------------------------------------------
DebtGrows(r) == reserve[r].outstanding_debt < reserve'[r].outstanding_debt

(* Debt that no tokens were paid out for is interest: it is charged only   *)
(* for time not charged before, no further than the clock, one accrual at  *)
(* a time.                                                                 *)
InterestChargedOnce ==
    [][\A r \in Reserves :
          DebtGrows(r) /\ wallet'[r] = wallet[r] =>
              /\ reserve[r].accrued_until < reserve'[r].accrued_until
              /\ reserve'[r].accrued_until <= unix_timestamp
              /\ reserve'[r].accrued_until - reserve[r].accrued_until <= MaxAccrual]_vars

(* What redeeming all deposit notes of r at the cached rate would take     *)
(* beyond what the reserve has or is owed, and the debt that repaying all  *)
(* loan notes at the cached rate would leave, in units of Number.          *)
DepositShortfall(r) ==
    reserve_info[r].deposit_note_exchange_rate * reserve[r].total_deposit_notes
        - DepositNoteValue(reserve[r])
LoanShortfall(r) ==
    reserve[r].outstanding_debt
        - reserve_info[r].loan_note_exchange_rate * reserve[r].total_loan_notes

(* The fraction of a token of debt that goes with the last loan note.      *)
DebtDropped(r) ==
    IF reserve'[r].outstanding_debt = 0
    THEN reserve[r].outstanding_debt - FromU64(AsU64(reserve[r].outstanding_debt))
    ELSE 0

(* Cached rates are used while deposits, loans and repayments change what  *)
(* they were computed from.  At an unchanged rate no instruction takes     *)
(* more from the other depositors than the digits one division loses and   *)
(* the fraction of a debt that is dropped; new rates promise no more than  *)
(* there is, but for the token at which an empty reserve values its notes. *)
DepositsKeepBacking ==
    [][\A r \in Reserves :
          Cached(r)' =>
              IF reserve_info'[r] = reserve_info[r]
              THEN DepositShortfall(r)' <=
                       DepositShortfall(r) + DebtDropped(r)
                           + AsU64(reserve_info[r].deposit_note_exchange_rate)
              ELSE DepositShortfall(r)' <= ONE]_vars

(* Nor does debt get ahead of the notes that are to pay it: a loan's notes *)
(* cover its fee too, a repayment burns no more than it pays for, unless   *)
(* it pays every whole token of the debt, and new rates lose less than a   *)
(* digit for each note.                                                    *)
LoanNotesKeepUp ==
    [][\A r \in Reserves :
          Cached(r)' =>
              IF reserve_info'[r] = reserve_info[r]
              THEN \/ LoanShortfall(r)' <=
                         LoanShortfall(r) + AsU64(reserve_info[r].loan_note_exchange_rate)
                   \/ /\ reserve'[r].outstanding_debt < ONE
                      /\ reserve'[r].total_loan_notes = 0 => reserve'[r].outstanding_debt = 0
              ELSE reserve'[r].total_loan_notes > 0 =>
                       LoanShortfall(r)' < reserve'[r].total_loan_notes]_vars

(* Whatever was borrowed, repaid and divided at its cached rate, what a    *)
(* usable reserve is owed beyond the worth of its loan notes is less than  *)
(* the token below which repay forgets it with the last note.              *)
LossesBelowAToken ==
    \A r \in Reserves : Cached(r) => LoanShortfall(r) < ONE

(* The flags as market.rs describes them: halted borrows mean that no loan *)
(* is made and no collateral withdrawn, it leaves only the obligation that *)
(* is liquidated; halted repayments that no loan is reduced; halted        *)
(* deposits that neither tokens nor users' notes enter or leave a reserve  *)
(* as a deposit or a withdrawal, be it to close an account.                *)
HaltsRespected ==
    [][\A r \in Reserves :
          /\ "HALT_BORROWS" \in flags =>
                /\ loan_note_mint'[r] <= loan_note_mint[r]
                /\ \A u \in Users : collateral_account'[r][u] < collateral_account[r][u] =>
                       ~IsHealthy(obligation[u], reserve_info)
          /\ "HALT_REPAYS" \in flags => loan_note_mint'[r] >= loan_note_mint[r]
          /\ "HALT_DEPOSITS" \in flags =>
                deposit_note_mint'[r] - fee_note_vault'[r]
                    = deposit_note_mint[r] - fee_note_vault[r]]_vars

Usable(u) == u \in obligations /\ PositionsFresh(obligation[u], reserve_info, slot)

(* Only a new price, interest, time or a loan account opened by its owner  *)
(* can make a healthy obligation liquidatable: no deposit, withdrawal,     *)
(* loan, repayment or liquidation, by its owner or anybody else, does.     *)
StaysHealthy ==
    [][\A u \in Users :
          /\ Usable(u) /\ IsHealthy(obligation[u], reserve_info)
          /\ UNCHANGED <<slot, reserve_info>>
          /\ obligation'[u].loan_accounts \subseteq obligation[u].loan_accounts
          /\ Usable(u)'
          => IsHealthy(obligation'[u], reserve_info')]_vars

(* The value u's collateral lost and u's loans lost in a step.             *)
CollateralLost(u) ==
    CollateralValue(obligation[u], reserve_info) - CollateralValue(obligation'[u], reserve_info)
LoanLost(u) ==
    LoanValue(obligation[u], reserve_info) - LoanValue(obligation'[u], reserve_info)

IsLiquidationOf(u) ==
    \E r, c \in Reserves :
        /\ loan_account'[r][u] < loan_account[r][u]
        /\ collateral_account'[c][u] < collateral_account[c][u]

(* A liquidator takes no larger share of the collateral than the share of  *)
(* the debt it repays, so liquidation never worsens an obligation; in      *)
(* particular all the collateral costs all the debt.  The one unit of      *)
(* Number is the last digit of the value of the collateral that is left.   *)
LiquidationProportional ==
    [][\A u \in Users :
          IsLiquidationOf(u) =>
              (CollateralLost(u) - 1) * LoanValue(obligation[u], reserve_info)
                  <= LoanLost(u) * CollateralValue(obligation[u], reserve_info)]_vars

-----------------------------------------------------------------------------
(* The clients' cranks: somebody goes on refreshing every reserve.  Nothing *)
(* is assumed of when, nor that any user acts.                              *)
Cranked ==
    \A r \in Reserves :
        WF_vars(\E price \in Prices, x \in AccrualRates : RefreshReserve(r, price, x))

(* A reserve however far behind the clock, whatever users do meanwhile, is *)
(* brought up to date and usable by repeated refreshes, once the clock of   *)
(* the model rests at MaxSlot.                                             *)
CatchesUp ==
    \A r \in Reserves :
        slot = MaxSlot ~> Cached(r) /\ reserve[r].accrued_until = unix_timestamp
=============================================================================
