--------------------------- MODULE PositionProofs ---------------------------
(***************************************************************************)
(* Obligations, in every market.                                           *)
(*                                                                         *)
(* PositionsMatchAccounts: what an obligation records is what its token    *)
(* accounts hold, so its health is judged by real amounts.  Each handler   *)
(* moves notes and updates the record by two separate pieces of            *)
(* arithmetic, the latter saturating; that they agree is the work here.    *)
(*                                                                         *)
(* ObligationsArePositions: and it changes only as the arrays of           *)
(* ObligationSlots.tla can, through one operation of Positions.tla a step. *)
(*                                                                         *)
(* StaysHealthy: and nobody's step but an own loan, a price, interest or   *)
(* time makes a healthy one liquidatable.  Closing an account leaves the   *)
(* sums its values are alone because the record says what is in it.        *)
(***************************************************************************)
EXTENDS LendingProofs, LendingPositions

(* The property at one position, and that closing an obligation leaves no  *)
(* account of either side registered: a later obligation starts from zero  *)
(* and would otherwise forget what is pledged.                             *)
PositionRecorded(u, r) ==
    /\ obligation[u].loans[r] = NoteAmount(loan_account[r][u])
    /\ obligation[u].collateral[r] <= NoteAmount(collateral_account[r][u])
    /\ r \notin obligation[u].loan_accounts => loan_account[r][u] = 0
    /\ r \notin obligation[u].collateral_accounts => collateral_account[r][u] = 0
    /\ u \notin obligations => /\ obligation[u].loan_accounts = {}
                               /\ obligation[u].collateral_accounts = {}

PositionInv == AccountingInv /\ \A u \in Users, r \in Reserves : PositionRecorded(u, r)

-----------------------------------------------------------------------------
(* Amounts of notes add and subtract as the notes do. *)
LEMMA NoteAmountLinear ==
  ASSUME NEW a \in Nat, NEW b \in Nat
  PROVE  /\ NoteAmount(a) \in Nat /\ NoteAmount(0) = 0
         /\ NoteAmount(a + b) = NoteAmount(a) + NoteAmount(b)
         /\ b <= a => /\ NoteAmount(a - b) = NoteAmount(a) - NoteAmount(b)
                      /\ NoteAmount(b) <= NoteAmount(a)
  <1>1. NoteAmount(a) \in Nat /\ NoteAmount(0) = 0
    BY ConversionNat, ONEAssumption DEF NoteAmount, FromU64
  <1>2. NoteAmount(a + b) = NoteAmount(a) + NoteAmount(b)
    BY ONEAssumption DEF NoteAmount, FromU64
  <1>3. ASSUME b <= a
        PROVE  /\ NoteAmount(a - b) = NoteAmount(a) - NoteAmount(b)
               /\ NoteAmount(b) <= NoteAmount(a)
    <2>1. NoteAmount(a - b) = NoteAmount(a) - NoteAmount(b)
      BY ONEAssumption DEF NoteAmount, FromU64
    <2>2. NoteAmount(a - b) \in Nat /\ NoteAmount(b) \in Nat
      BY <1>3, ConversionNat DEF NoteAmount
    <2> QED BY <1>1, <2>1, <2>2
  <1> QED BY <1>1, <1>2, <1>3

(* Subtracting the amount of notes that were there leaves the amount of    *)
(* the rest; where less was recorded, saturation leaves no more than that. *)
LEMMA SubtractedAmount ==
  ASSUME NEW held \in Nat, NEW n \in Nat, n <= held, NEW amount \in Nat,
         amount <= NoteAmount(held)
  PROVE  /\ SaturatingSub(amount, NoteAmount(n)) <= NoteAmount(held - n)
         /\ amount = NoteAmount(held) =>
                SaturatingSub(amount, NoteAmount(n)) = NoteAmount(held - n)
  <1>1. /\ NoteAmount(held - n) = NoteAmount(held) - NoteAmount(n)
        /\ NoteAmount(n) <= NoteAmount(held)
        /\ NoteAmount(held) \in Nat /\ NoteAmount(n) \in Nat
    BY NoteAmountLinear, Zenon
  <1> QED BY <1>1 DEF SaturatingSub

-----------------------------------------------------------------------------
(* A position whose record and accounts a step leaves alone, whatever it   *)
(* does elsewhere.                                                         *)
LEMMA UntouchedPosition ==
  ASSUME TypeOK, NEW u \in Users, NEW r \in Reserves, PositionRecorded(u, r),
         obligation'[u] = obligation[u], loan_account'[r][u] = loan_account[r][u],
         collateral_account'[r][u] = collateral_account[r][u],
         u \in obligations => u \in obligations'
  PROVE  PositionRecorded(u, r)'
  BY DEF PositionRecorded, TypeOK

(* Whatever touches neither records nor accounts nor obligations. *)
LEMMA QuietPositions ==
  ASSUME PositionInv, AccountingInv',
         UNCHANGED <<obligations, obligation, loan_account, collateral_account>>
  PROVE  PositionInv'
  <1>1. ASSUME NEW u \in Users, NEW r \in Reserves PROVE PositionRecorded(u, r)'
    BY UntouchedPosition DEF PositionInv, AccountingInv
  <1> QED BY <1>1 DEF PositionInv

(* An obligation is opened: nothing was registered, so nothing was held.   *)
LEMMA InitObligationPositions ==
  ASSUME PositionInv, AccountingInv', NEW v \in Users, InitObligation(v)
  PROVE  PositionInv'
  <1> SUFFICES ASSUME NEW u \in Users, NEW r \in Reserves PROVE PositionRecorded(u, r)'
    BY DEF PositionInv
  <1>1. TypeOK /\ PositionRecorded(u, r) BY DEF PositionInv, AccountingInv
  <1>2. /\ v \notin obligations /\ obligations' = obligations \union {v}
        /\ obligation' = [obligation EXCEPT ![v] = NewObligation]
        /\ UNCHANGED <<loan_account, collateral_account>>
    BY DEF InitObligation, deposit_notes, loan_notes
  <1>3. CASE u # v
    BY <1>1, <1>2, <1>3, UntouchedPosition DEF TypeOK
  <1>4. CASE u = v
    <2>1. loan_account[r][u] = 0 /\ collateral_account[r][u] = 0
      BY <1>1, <1>2, <1>4 DEF PositionRecorded
    <2>2. obligation'[u] = NewObligation BY <1>1, <1>2, <1>4 DEF TypeOK
    <2>3. NoteAmount(0) = 0 BY NoteAmountLinear
    <2> QED BY <1>2, <1>4, <2>1, <2>2, <2>3 DEF PositionRecorded, NewObligation
  <1> QED BY <1>3, <1>4

(* A count of zero is of no positions. *)
LEMMA NoPositions ==
  ASSUME NEW o \in ObligationState, PositionCount(o) = 0
  PROVE  o.loan_accounts = {} /\ o.collateral_accounts = {}
  <1>1. o.loan_accounts \subseteq Reserves /\ o.collateral_accounts \subseteq Reserves
    BY DEF ObligationState
  <1>2. IsFiniteSet(o.loan_accounts) /\ IsFiniteSet(o.collateral_accounts)
    BY <1>1, ReservesAssumption, FS_Subset
  <1>3. /\ Cardinality(o.loan_accounts) \in Nat
        /\ Cardinality(o.collateral_accounts) \in Nat
    BY <1>2, FS_CardinalityType
  <1>4. Cardinality(o.loan_accounts) = 0 /\ Cardinality(o.collateral_accounts) = 0
    BY <1>3 DEF PositionCount
  <1> QED BY <1>2, <1>4, FS_EmptySet

(* One is closed: only when no position is left. *)
LEMMA CloseObligationPositions ==
  ASSUME PositionInv, AccountingInv', NEW v \in Users, CloseObligation(v)
  PROVE  PositionInv'
  <1> SUFFICES ASSUME NEW u \in Users, NEW r \in Reserves PROVE PositionRecorded(u, r)'
    BY DEF PositionInv
  <1>1. TypeOK /\ PositionRecorded(u, r) BY DEF PositionInv, AccountingInv
  <1>2. /\ PositionCount(obligation[v]) = 0 /\ obligations' = obligations \ {v}
        /\ UNCHANGED <<obligation, loan_account, collateral_account>>
    BY DEF CloseObligation, deposit_notes, loan_notes
  <1>3. obligation[v].loan_accounts = {} /\ obligation[v].collateral_accounts = {}
    BY <1>1, <1>2, NoPositions DEF TypeOK
  <1>4. CASE u # v BY <1>1, <1>2, <1>4, UntouchedPosition
  <1>5. CASE u = v BY <1>1, <1>2, <1>3, <1>5 DEF PositionRecorded
  <1> QED BY <1>4, <1>5

(* Positions are registered at zero, and removed when the account is empty.*)
LEMMA AccountPositions ==
  ASSUME PositionInv, AccountingInv', NEW v \in Users, NEW s \in Reserves,
         \/ InitCollateralAccount(v, s) \/ CloseCollateralAccount(v, s)
         \/ InitLoanAccount(v, s) \/ CloseLoanAccount(v, s)
  PROVE  PositionInv'
  <1> SUFFICES ASSUME NEW u \in Users, NEW r \in Reserves PROVE PositionRecorded(u, r)'
    BY DEF PositionInv
  <1>1. TypeOK /\ PositionRecorded(u, r) BY DEF PositionInv, AccountingInv
  <1>2. /\ v \in obligations
        /\ UNCHANGED <<obligations, loan_account, collateral_account>>
    BY DEF InitCollateralAccount, CloseCollateralAccount, InitLoanAccount,
           CloseLoanAccount, accounts, deposit_notes, loan_notes
  <1>3. obligation[v] \in ObligationState /\ NoteAmount(0) = 0
        /\ collateral_account[r][u] \in Nat /\ NoteAmount(collateral_account[r][u]) \in Nat
    <2>1. obligation[v] \in ObligationState BY <1>1 DEF TypeOK
    <2>2. collateral_account[r][u] \in Nat BY <1>1 DEF TypeOK
    <2> QED BY <2>1, <2>2, NoteAmountLinear, Zenon
  <1>4. CASE u # v
    <2>1. obligation'[u] = obligation[u]
      BY <1>1, <1>4 DEF InitCollateralAccount, CloseCollateralAccount, InitLoanAccount,
                        CloseLoanAccount, TypeOK
    <2> QED BY <1>1, <1>2, <2>1, UntouchedPosition
  <1>5. CASE u = v /\ InitCollateralAccount(v, s)
    <2>1. obligation'[u] = RegisterCollateral(obligation[u], s)
      BY <1>1, <1>5 DEF InitCollateralAccount, TypeOK
    <2> QED BY <1>1, <1>2, <1>3, <1>5, <2>1
            DEF PositionRecorded, RegisterCollateral, ObligationState
  <1>6. CASE u = v /\ InitLoanAccount(v, s)
    <2>1. /\ s \notin obligation[u].loan_accounts
          /\ obligation'[u] = RegisterLoan(obligation[u], s)
      BY <1>1, <1>6 DEF InitLoanAccount, TypeOK
    <2> QED BY <1>1, <1>2, <1>3, <1>6, <2>1
            DEF PositionRecorded, RegisterLoan, ObligationState
  <1>7. CASE u = v /\ CloseCollateralAccount(v, s)
    <2>1. /\ collateral_account[s][u] = 0
          /\ obligation'[u] = UnregisterCollateral(obligation[u], s)
      BY <1>1, <1>7 DEF CloseCollateralAccount, TypeOK
    <2> QED BY <1>1, <1>2, <1>3, <1>7, <2>1
            DEF PositionRecorded, UnregisterCollateral, ObligationState
  <1>8. CASE u = v /\ CloseLoanAccount(v, s)
    <2>1. /\ loan_account[s][u] = 0
          /\ obligation'[u] = UnregisterLoan(obligation[u], s)
      BY <1>1, <1>8 DEF CloseLoanAccount, TypeOK
    <2> QED BY <1>1, <1>2, <1>3, <1>8, <2>1
            DEF PositionRecorded, UnregisterLoan, ObligationState
  <1> QED BY <1>4, <1>5, <1>6, <1>7, <1>8

-----------------------------------------------------------------------------
(* A deposit may go straight into a collateral account, unrecorded: the    *)
(* account then holds more than the obligation knows of.                   *)
LEMMA DepositPositions ==
  ASSUME PositionInv, AccountingInv', NEW v \in Users, NEW to \in Users,
         NEW s \in Reserves, NEW a \in Amounts, DepositTokens(v, s, a, to)
  PROVE  PositionInv'
  <1> DEFINE n == AsDepositNotes(a, reserve_info[s], "Down")
  <1>1. TypeOK BY DEF PositionInv, AccountingInv
  <1>2. n \in Nat BY <1>1, AmountsNat DEF DepositTokens, TypeOK
  <1>3. /\ UNCHANGED <<obligations, obligation, loan_account>>
        /\ \/ UNCHANGED collateral_account
           \/ /\ s \in obligation[to].collateral_accounts
              /\ collateral_account' = [collateral_account EXCEPT ![s][to] = @ + n]
    BY DEF DepositTokens, IntoDepositAccount, IntoCollateralAccount, accounts, loan_notes
  <1> HIDE DEF n
  <1>4. CASE UNCHANGED collateral_account BY <1>3, <1>4, QuietPositions
  <1>5. ASSUME s \in obligation[to].collateral_accounts,
               collateral_account' = [collateral_account EXCEPT ![s][to] = @ + n],
               NEW u \in Users, NEW r \in Reserves
        PROVE  PositionRecorded(u, r)'
    <2>1. PositionRecorded(u, r) BY DEF PositionInv
    <2>2. CASE ~(u = to /\ r = s)
      <3>1. collateral_account'[r][u] = collateral_account[r][u]
        BY <1>1, <1>5, <2>2 DEF TypeOK
      <3> QED BY <1>1, <1>3, <2>1, <3>1, UntouchedPosition
    <2>3. CASE u = to /\ r = s
      <3>1. /\ collateral_account[r][u] \in Nat
            /\ collateral_account'[r][u] = collateral_account[r][u] + n
        BY <1>1, <1>5, <2>3 DEF TypeOK
      <3>2. NoteAmount(collateral_account'[r][u])
                = NoteAmount(collateral_account[r][u]) + NoteAmount(n)
        BY <1>2, <3>1, NoteAmountLinear, Zenon
      <3>3. NoteAmount(n) \in Nat /\ NoteAmount(collateral_account[r][u]) \in Nat
        BY <1>2, <3>1, NoteAmountLinear, Zenon
      <3>4. obligation[u].collateral[r] \in Nat BY <1>1 DEF TypeOK, ObligationState
      <3> QED BY <1>3, <1>5, <2>1, <2>3, <3>2, <3>3, <3>4 DEF PositionRecorded
    <2> QED BY <2>2, <2>3
  <1> QED BY <1>3, <1>4, <1>5 DEF PositionInv

(* Pledging moves notes and records as many. *)
LEMMA DepositCollateralPositions ==
  ASSUME PositionInv, AccountingInv', NEW v \in Users, NEW s \in Reserves,
         NEW a \in Amounts, DepositCollateral(v, s, a)
  PROVE  PositionInv'
  <1> DEFINE n == AsDepositNotes(a, reserve_info[s], "Down")
  <1> SUFFICES ASSUME NEW u \in Users, NEW r \in Reserves PROVE PositionRecorded(u, r)'
    BY DEF PositionInv
  <1>1. TypeOK /\ PositionRecorded(u, r) BY DEF PositionInv, AccountingInv
  <1>2. n \in Nat BY <1>1, AmountsNat DEF DepositCollateral, TypeOK
  <1>3. /\ s \in obligation[v].collateral_accounts
        /\ collateral_account' = [collateral_account EXCEPT ![s][v] = @ + n]
        /\ obligation' = [obligation EXCEPT ![v] = AddCollateral(@, s, NoteAmount(n))]
        /\ UNCHANGED <<obligations, loan_account>>
    BY DEF DepositCollateral, accounts, loan_notes
  <1> HIDE DEF n
  <1>4. CASE u # v
    <2>1. /\ obligation'[u] = obligation[u]
          /\ collateral_account'[r][u] = collateral_account[r][u]
      BY <1>1, <1>3, <1>4 DEF TypeOK
    <2> QED BY <1>1, <1>3, <2>1, UntouchedPosition
  <1>5. CASE u = v
    <2>1. /\ obligation'[u] = AddCollateral(obligation[u], s, NoteAmount(n))
          /\ collateral_account'[r][u] =
                 IF r = s THEN collateral_account[r][u] + n ELSE collateral_account[r][u]
          /\ collateral_account[r][u] \in Nat /\ obligation[u] \in ObligationState
      BY <1>1, <1>3, <1>5 DEF TypeOK
    <2>2. /\ NoteAmount(collateral_account[r][u] + n)
                 = NoteAmount(collateral_account[r][u]) + NoteAmount(n)
          /\ NoteAmount(n) \in Nat /\ NoteAmount(collateral_account[r][u]) \in Nat
      BY <1>2, <2>1, NoteAmountLinear
    <2>3. /\ obligation'[u].loans = obligation[u].loans
          /\ obligation'[u].loan_accounts = obligation[u].loan_accounts
          /\ obligation'[u].collateral_accounts = obligation[u].collateral_accounts
          /\ obligation'[u].collateral[r] =
                 IF r = s THEN obligation[u].collateral[r] + NoteAmount(n)
                          ELSE obligation[u].collateral[r]
          /\ obligation[u].collateral[r] \in Nat
      BY <2>1 DEF AddCollateral, ObligationState
    <2>4. obligation'[u].collateral[r] <= NoteAmount(collateral_account'[r][u])
      BY <1>1, <2>1, <2>2, <2>3 DEF PositionRecorded
    <2> QED BY <1>1, <1>3, <1>5, <2>1, <2>3, <2>4 DEF PositionRecorded
  <1> QED BY <1>4, <1>5

(* What withdraw_collateral and liquidate do to the pledged side: notes    *)
(* leave the account, as many are subtracted from the record.              *)
LEMMA TakenCollateral ==
  ASSUME TypeOK, NEW u \in Users, NEW r \in Reserves, PositionRecorded(u, r),
         NEW s \in Reserves, NEW n \in Nat, n <= collateral_account[s][u]
  PROVE  LET o == SubtractCollateral(obligation[u], s, NoteAmount(n))
             left == IF r = s THEN collateral_account[r][u] - n
                              ELSE collateral_account[r][u]
         IN  /\ o.loans = obligation[u].loans
             /\ o.loan_accounts = obligation[u].loan_accounts
             /\ o.collateral_accounts = obligation[u].collateral_accounts
             /\ o.collateral[r] <= NoteAmount(left)
             /\ r \notin o.collateral_accounts => left = 0
  <1> DEFINE o == SubtractCollateral(obligation[u], s, NoteAmount(n))
             left == IF r = s THEN collateral_account[r][u] - n
                              ELSE collateral_account[r][u]
  <1>1. /\ collateral_account[r][u] \in Nat /\ obligation[u] \in ObligationState
    BY DEF TypeOK
  <1>2. /\ obligation[u].collateral[r] \in Nat
        /\ o.loans = obligation[u].loans
        /\ o.loan_accounts = obligation[u].loan_accounts
        /\ o.collateral_accounts = obligation[u].collateral_accounts
        /\ o.collateral[r] = IF r = s THEN SaturatingSub(obligation[u].collateral[r],
                                                        NoteAmount(n))
                                     ELSE obligation[u].collateral[r]
    BY <1>1 DEF SubtractCollateral, ObligationState
  <1>3. obligation[u].collateral[r] <= NoteAmount(collateral_account[r][u])
    BY DEF PositionRecorded
  <1>4. o.collateral[r] <= NoteAmount(left)
    BY <1>1, <1>2, <1>3, SubtractedAmount
  <1>5. r \notin o.collateral_accounts => left = 0
    BY <1>1, <1>2 DEF PositionRecorded
  <1> QED BY <1>2, <1>4, <1>5

(* A withdrawal takes the same notes off the account and off the record. *)
LEMMA WithdrawCollateralPositions ==
  ASSUME PositionInv, AccountingInv', NEW v \in Users, NEW s \in Reserves,
         NEW a \in Amounts, WithdrawCollateral(v, s, a)
  PROVE  PositionInv'
  <1> DEFINE n == AsDepositNotes(a, reserve_info[s], "Up")
             o == SubtractCollateral(obligation[v], s, NoteAmount(n))
  <1> SUFFICES ASSUME NEW u \in Users, NEW r \in Reserves PROVE PositionRecorded(u, r)'
    BY DEF PositionInv
  <1>1. TypeOK /\ PositionRecorded(u, r) BY DEF PositionInv, AccountingInv
  <1>2. n \in Nat BY <1>1, AmountsNat DEF WithdrawCollateral, TypeOK
  <1>3. /\ n <= collateral_account[s][v]
        /\ collateral_account' = [collateral_account EXCEPT ![s][v] = @ - n]
        /\ obligation' = [obligation EXCEPT ![v] = o]
        /\ UNCHANGED <<obligations, loan_account>>
    BY DEF WithdrawCollateral, accounts, loan_notes
  <1>4. CASE u # v
    <2>1. /\ obligation'[u] = obligation[u]
          /\ collateral_account'[r][u] = collateral_account[r][u]
      BY <1>1, <1>3, <1>4 DEF TypeOK
    <2> QED BY <1>1, <1>3, <2>1, UntouchedPosition
  <1>5. CASE u = v
    <2> HIDE DEF n
    <2>1. /\ obligation'[u] = o
          /\ collateral_account'[r][u] =
                 IF r = s THEN collateral_account[r][u] - n ELSE collateral_account[r][u]
      BY <1>1, <1>3, <1>5 DEF TypeOK
    <2>2. /\ o.loans = obligation[u].loans
          /\ o.loan_accounts = obligation[u].loan_accounts
          /\ o.collateral_accounts = obligation[u].collateral_accounts
          /\ o.collateral[r] <= NoteAmount(collateral_account'[r][u])
          /\ r \notin o.collateral_accounts => collateral_account'[r][u] = 0
      BY <1>1, <1>2, <1>3, <1>5, <2>1, TakenCollateral
    <2> HIDE DEF o
    <2> QED BY <1>1, <1>3, <1>5, <2>1, <2>2 DEF PositionRecorded
  <1> QED BY <1>4, <1>5

(* A loan is recorded by as many notes as are minted. *)
LEMMA BorrowPositions ==
  ASSUME PositionInv, AccountingInv', NEW v \in Users, NEW s \in Reserves,
         NEW a \in Amounts, Borrow(v, s, a)
  PROVE  PositionInv'
  <1> DEFINE t == AsTokens(a, reserve_info[s], "Down")
             n == NotesFromTokens(t + BorrowFee(config[s].loan_origination_fee, t),
                      reserve_info[s].loan_note_exchange_rate, "Up")
  <1> SUFFICES ASSUME NEW u \in Users, NEW r \in Reserves PROVE PositionRecorded(u, r)'
    BY DEF PositionInv
  <1>1. TypeOK /\ PositionRecorded(u, r) BY DEF PositionInv, AccountingInv
  <1>2. n \in Nat
    <2>1. /\ config[s].loan_origination_fee \in Nat
          /\ reserve_info[s].loan_note_exchange_rate > 0
      BY <1>1 DEF TypeOK, Config, Borrow
    <2> QED BY <1>1, <2>1, NewNotesNat
  <1>3. /\ s \in obligation[v].loan_accounts
        /\ loan_account' = [loan_account EXCEPT ![s][v] = @ + n]
        /\ obligation' = [obligation EXCEPT ![v] = AddLoan(@, s, NoteAmount(n))]
        /\ UNCHANGED <<obligations, collateral_account>>
    BY DEF Borrow, accounts, deposit_notes
  <1> HIDE DEF n
  <1>4. CASE u # v
    <2>1. obligation'[u] = obligation[u] /\ loan_account'[r][u] = loan_account[r][u]
      BY <1>1, <1>3, <1>4 DEF TypeOK
    <2> QED BY <1>1, <1>3, <2>1, UntouchedPosition
  <1>5. CASE u = v
    <2>1. /\ obligation'[u] = AddLoan(obligation[u], s, NoteAmount(n))
          /\ loan_account'[r][u] =
                 IF r = s THEN loan_account[r][u] + n ELSE loan_account[r][u]
          /\ loan_account[r][u] \in Nat /\ obligation[u] \in ObligationState
      BY <1>1, <1>3, <1>5 DEF TypeOK
    <2>2. NoteAmount(loan_account[r][u] + n)
              = NoteAmount(loan_account[r][u]) + NoteAmount(n)
      BY <1>2, <2>1, NoteAmountLinear
    <2>3. /\ obligation'[u].collateral = obligation[u].collateral
          /\ obligation'[u].loan_accounts = obligation[u].loan_accounts
          /\ obligation'[u].collateral_accounts = obligation[u].collateral_accounts
          /\ obligation'[u].loans[r] =
                 IF r = s THEN obligation[u].loans[r] + NoteAmount(n)
                          ELSE obligation[u].loans[r]
      BY <2>1 DEF AddLoan, ObligationState
    <2>4. obligation'[u].loans[r] = NoteAmount(loan_account'[r][u])
      BY <1>1, <2>1, <2>2, <2>3 DEF PositionRecorded
    <2> QED BY <1>1, <1>3, <1>5, <2>1, <2>3, <2>4 DEF PositionRecorded
  <1> QED BY <1>4, <1>5

(* A repayment records what it burns.  `before` is the obligation as the   *)
(* handler left it, with the collateral accounts as they are after it.     *)
LEMMA PayOffPositions ==
  ASSUME PositionInv, AccountingInv', NEW payer \in Users, NEW v \in Users,
         NEW s \in Reserves, NEW a \in Amounts, NEW before \in ObligationState,
         PayOff(payer, v, s, a, before), UNCHANGED obligations,
         before.loans = obligation[v].loans,
         before.loan_accounts = obligation[v].loan_accounts,
         before.collateral_accounts = obligation[v].collateral_accounts,
         \A r \in Reserves :
            /\ before.collateral[r] <= NoteAmount(collateral_account'[r][v])
            /\ r \notin before.collateral_accounts => collateral_account'[r][v] = 0,
         \A u \in Users \ {v}, r \in Reserves :
            collateral_account'[r][u] = collateral_account[r][u]
  PROVE  PositionInv'
  <1> DEFINE n == PayoffNotes(v, s, a)
  <1> SUFFICES ASSUME NEW u \in Users, NEW r \in Reserves PROVE PositionRecorded(u, r)'
    BY DEF PositionInv
  <1>1. TypeOK /\ PositionRecorded(u, r) BY DEF PositionInv, AccountingInv
  <1>2. n \in Nat /\ n <= loan_account[s][v] BY <1>1, PayoffNat DEF PayOff
  <1>3. /\ s \in obligation[v].loan_accounts
        /\ v \in obligations
        /\ loan_account' = [loan_account EXCEPT ![s][v] = @ - n]
        /\ obligation' = [obligation EXCEPT ![v] = SubtractLoan(before, s, NoteAmount(n))]
    BY DEF PayOff
  <1> HIDE DEF n
  <1>4. CASE u # v
    <2>1. obligation'[u] = obligation[u] /\ loan_account'[r][u] = loan_account[r][u]
      BY <1>1, <1>3, <1>4 DEF TypeOK
    <2> QED BY <1>1, <1>4, <2>1, UntouchedPosition
  <1>5. CASE u = v
    <2>1. /\ obligation'[u] = SubtractLoan(before, s, NoteAmount(n))
          /\ loan_account'[r][u] =
                 IF r = s THEN loan_account[r][u] - n ELSE loan_account[r][u]
          /\ loan_account[r][u] \in Nat
      BY <1>1, <1>3, <1>5 DEF TypeOK
    <2>2. /\ obligation'[u].collateral = before.collateral
          /\ obligation'[u].loan_accounts = before.loan_accounts
          /\ obligation'[u].collateral_accounts = before.collateral_accounts
          /\ obligation'[u].loans[r] =
                 IF r = s THEN SaturatingSub(before.loans[r], NoteAmount(n))
                          ELSE before.loans[r]
          /\ before.loans[r] \in Nat
      BY <2>1 DEF SubtractLoan, ObligationState
    <2>3. before.loans[r] = NoteAmount(loan_account[r][u])
      BY <1>1, <1>5 DEF PositionRecorded
    <2>4. obligation'[u].loans[r] = NoteAmount(loan_account'[r][u])
      BY <1>2, <1>5, <2>1, <2>2, <2>3, SubtractedAmount
    <2>5. r \notin obligation'[u].loan_accounts => loan_account'[r][u] = 0
      BY <1>1, <1>3, <1>5, <2>1, <2>2 DEF PositionRecorded
    <2> QED BY <1>3, <1>5, <2>2, <2>4, <2>5 DEF PositionRecorded
  <1> QED BY <1>4, <1>5

(* A repayment leaves collateral alone. *)
LEMMA RepayPositions ==
  ASSUME PositionInv, AccountingInv', NEW payer \in Users, NEW v \in Users,
         NEW s \in Reserves, NEW a \in Amounts, Repay(payer, v, s, a)
  PROVE  PositionInv'
  <1>1. /\ PayOff(payer, v, s, a, obligation[v])
        /\ UNCHANGED <<obligations, collateral_account>>
    BY DEF Repay, accounts, deposit_notes
  <1>2. obligation[v] \in ObligationState BY DEF PositionInv, AccountingInv, TypeOK
  <1>3. \A r \in Reserves : PositionRecorded(v, r) BY DEF PositionInv
  <1>4. \A r \in Reserves :
           /\ obligation[v].collateral[r] <= NoteAmount(collateral_account'[r][v])
           /\ r \notin obligation[v].collateral_accounts => collateral_account'[r][v] = 0
    BY <1>1, <1>3 DEF PositionRecorded
  <1> QED BY <1>1, <1>2, <1>4, PayOffPositions

(* A liquidation takes collateral first, then repays. *)
LEMMA LiquidatePositions ==
  ASSUME PositionInv, AccountingInv', NEW payer \in Users, NEW v \in Users,
         NEW s \in Reserves, NEW c \in Reserves, NEW a \in Amounts,
         NEW m \in MinCollaterals, Liquidate(payer, v, s, c, a, m)
  PROVE  PositionInv'
  <1> DEFINE taken == CollateralTaken(v, s, c, a)
             before == SubtractCollateral(obligation[v], c, NoteAmount(taken))
  <1>1. TypeOK BY DEF PositionInv, AccountingInv
  <1>2. /\ taken \in m .. collateral_account[c][v]
        /\ collateral_account' = [collateral_account EXCEPT ![c][v] = @ - taken]
        /\ PayOff(payer, v, s, a, before)
        /\ UNCHANGED obligations
    BY DEF Liquidate, accounts
  <1> HIDE DEF taken
  <1>3. taken \in Nat /\ taken <= collateral_account[c][v]
    BY <1>1, <1>2, InputsAssumption DEF TypeOK
  <1>4. before \in ObligationState BY <1>1, <1>3, PositionsTyped DEF TypeOK
  <1>5. ASSUME NEW r \in Reserves
        PROVE  /\ before.loans = obligation[v].loans
               /\ before.loan_accounts = obligation[v].loan_accounts
               /\ before.collateral_accounts = obligation[v].collateral_accounts
               /\ before.collateral[r] <= NoteAmount(collateral_account'[r][v])
               /\ r \notin before.collateral_accounts => collateral_account'[r][v] = 0
    <2>1. PositionRecorded(v, r) BY DEF PositionInv
    <2>2. collateral_account'[r][v] =
              IF r = c THEN collateral_account[r][v] - taken ELSE collateral_account[r][v]
      BY <1>1, <1>2 DEF TypeOK
    <2> QED BY <1>1, <1>3, <2>1, <2>2, TakenCollateral
  <1>6. \A u \in Users \ {v}, r \in Reserves :
            collateral_account'[r][u] = collateral_account[r][u]
    BY <1>1, <1>2 DEF TypeOK
  <1> HIDE DEF before
  <1> QED BY <1>2, <1>4, <1>5, <1>6, PayOffPositions

-----------------------------------------------------------------------------
(* At first nothing is recorded and nothing is held. *)
LEMMA InitPositions == Init => PositionInv
  <1> SUFFICES ASSUME Init PROVE PositionInv
    OBVIOUS
  <1>1. AccountingInv BY InitAccounting
  <1>2. ASSUME NEW u \in Users, NEW r \in Reserves PROVE PositionRecorded(u, r)
    <2>1. /\ obligation[u] = NewObligation /\ obligations = {}
          /\ loan_account[r][u] = 0 /\ collateral_account[r][u] = 0
      BY DEF Init, NoNotes
    <2>2. NoteAmount(0) = 0 BY NoteAmountLinear
    <2> QED BY <2>1, <2>2 DEF PositionRecorded, NewObligation
  <1> QED BY <1>1, <1>2 DEF PositionInv

(* Every step keeps the record, the action's own lemma saying why. *)
LEMMA NextPositions == PositionInv /\ [Next]_vars => PositionInv'
  <1> SUFFICES ASSUME PositionInv, [Next]_vars PROVE PositionInv'
    OBVIOUS
  <1>1. AccountingInv' BY NextAccounting DEF PositionInv
  <1>2. CASE Tick \/ OwnerStep \/ RefreshStep \/ UNCHANGED vars
    <2>1. UNCHANGED <<obligations, obligation, loan_account, collateral_account>>
      BY <1>2 DEF Tick, OwnerStep, SetMarketFlags, UpdateReserveConfig, RefreshStep,
                  RefreshReserve, vars, accounts, deposit_notes, loan_notes
    <2> QED BY <1>1, <2>1, QuietPositions
  <1>3. CASE AccountStep
    <2>1. ASSUME NEW u \in Users, NEW r \in Reserves,
                 InitDepositAccount(u, r) \/ CloseDepositAccount(u, r)
          PROVE  PositionInv'
      <3>1. UNCHANGED <<obligations, obligation, loan_account, collateral_account>>
        BY <2>1 DEF InitDepositAccount, CloseDepositAccount, BurnDepositNotes,
                    deposit_notes, loan_notes
      <3> QED BY <1>1, <3>1, QuietPositions
    <2> QED BY <1>1, <1>3, <2>1, InitObligationPositions, CloseObligationPositions,
               AccountPositions DEF AccountStep
  <1>4. CASE UserStep
    <2>1. ASSUME NEW u \in Users, NEW r \in Reserves, NEW a \in Amounts, Withdraw(u, r, a)
          PROVE  PositionInv'
      <3>1. UNCHANGED <<obligations, obligation, loan_account, collateral_account>>
        BY <2>1 DEF Withdraw, WithdrawTokens, BurnDepositNotes, accounts, loan_notes
      <3> QED BY <1>1, <3>1, QuietPositions
    <2> QED BY <1>1, <1>4, <2>1, DepositPositions, DepositCollateralPositions,
               WithdrawCollateralPositions, BorrowPositions, RepayPositions,
               LiquidatePositions DEF UserStep
  <1> QED BY <1>2, <1>3, <1>4 DEF Next

(* What an obligation records is what its loan accounts hold and at most   *)
(* what its collateral accounts hold, whoever deposits, repays or          *)
(* liquidates, and after any number of accounts closed and opened again.   *)
THEOREM PositionsAreAccounts == Spec => []PositionsMatchAccounts
  <1>1. PositionInv => PositionsMatchAccounts
    BY DEF PositionInv, PositionRecorded, PositionsMatchAccounts
  <1> QED BY <1>1, InitPositions, NextPositions, PTL DEF Spec

-----------------------------------------------------------------------------
(* The lending program implements Positions.tla for every user.            *)

(* Positions.tla counts as Obligation.tla does. *)
LEMMA PositionsCounted == \A u \in Users : \A o : P(u)!PositionCount(o) = PositionCount(o)
  BY DEF P!PositionCount, PositionCount, P!Cardinality, Cardinality

(* Its actions, in the terms of Obligation.tla. *)
LEMMA OpenIsPosition ==
  ASSUME NEW u \in Users, NEW r \in Reserves, PositionCount(obligation[u]) < MaxPositions,
         \/ /\ r \notin obligation[u].collateral_accounts
            /\ obligation'[u] = RegisterCollateral(obligation[u], r)
         \/ /\ r \notin obligation[u].loan_accounts
            /\ obligation'[u] = RegisterLoan(obligation[u], r)
  PROVE  P(u)!Next
  <1>1. P(u)!OpenCollateral(r) \/ P(u)!OpenLoan(r)
    BY PositionsCounted DEF P!OpenCollateral, P!RegisterCollateral, RegisterCollateral,
                            P!OpenLoan, P!RegisterLoan, RegisterLoan
  <1> QED BY <1>1 DEF P!Next

(* An account whose recorded amount is zero is unregistered. *)
LEMMA CloseIsPosition ==
  ASSUME NEW u \in Users, NEW r \in Reserves,
         \/ /\ r \in obligation[u].collateral_accounts /\ obligation[u].collateral[r] = 0
            /\ obligation'[u] = UnregisterCollateral(obligation[u], r)
         \/ /\ r \in obligation[u].loan_accounts /\ obligation[u].loans[r] = 0
            /\ obligation'[u] = UnregisterLoan(obligation[u], r)
  PROVE  P(u)!Next
  <1>1. P(u)!CloseCollateral(r) \/ P(u)!CloseLoan(r)
    BY DEF P!CloseCollateral, P!UnregisterCollateral, UnregisterCollateral,
           P!CloseLoan, P!UnregisterLoan, UnregisterLoan
  <1> QED BY <1>1 DEF P!Next

(* The amount of one registered account changes. *)
LEMMA ChangeIsPosition ==
  ASSUME NEW u \in Users, NEW r \in Reserves, NEW amount \in NoteAmounts,
         \/ /\ r \in obligation[u].collateral_accounts
            /\ \/ obligation'[u] = AddCollateral(obligation[u], r, amount)
               \/ obligation'[u] = SubtractCollateral(obligation[u], r, amount)
         \/ /\ r \in obligation[u].loan_accounts
            /\ \/ obligation'[u] = AddLoan(obligation[u], r, amount)
               \/ obligation'[u] = SubtractLoan(obligation[u], r, amount)
  PROVE  P(u)!Next
  <1>1. P(u)!ChangeCollateral(r, amount) \/ P(u)!ChangeLoan(r, amount)
    BY DEF P!ChangeCollateral, P!AddCollateral, AddCollateral,
           P!SubtractCollateral, SubtractCollateral, P!ChangeLoan, P!AddLoan, AddLoan,
           P!SubtractLoan, SubtractLoan, P!SaturatingSub, SaturatingSub
  <1> QED BY <1>1 DEF P!Next

(* An amount on each side is reduced at once. *)
LEMMA LiquidationIsPosition ==
  ASSUME NEW u \in Users, NEW c \in Reserves, NEW r \in Reserves,
         NEW taken \in NoteAmounts, NEW repaid \in NoteAmounts,
         c \in obligation[u].collateral_accounts, r \in obligation[u].loan_accounts,
         obligation'[u] =
             SubtractLoan(SubtractCollateral(obligation[u], c, taken), r, repaid)
  PROVE  P(u)!Next
  <1>1. P(u)!Liquidate(c, r, taken, repaid)
    BY DEF P!Liquidate, P!SubtractCollateral, SubtractCollateral,
           P!SubtractLoan, SubtractLoan, P!SaturatingSub, SaturatingSub
  <1> QED BY <1>1 DEF P!Next

(* An obligation without accounts becomes a new one. *)
LEMMA RenewalIsPosition ==
  ASSUME NEW u \in Users, obligation'[u] = NewObligation,
         obligation[u].collateral_accounts = {}, obligation[u].loan_accounts = {}
  PROVE  P(u)!Next
  <1>1. P(u)!PositionCount(obligation[u]) = 0
    BY PositionsCounted, FS_EmptySet DEF PositionCount
  <1>2. P(u)!Renew BY <1>1 DEF P!Renew, P!NewObligation, NewObligation
  <1> QED BY <1>2 DEF P!Next

(* The amounts handlers add and subtract are those of notes. *)
EveryAmount == {NoteAmount(n) : n \in Nat} \subseteq NoteAmounts

(* The part of PositionInv the steps need: nothing is recorded of an empty *)
(* account, and no position of an obligation that is closed.               *)
NothingFromNothing ==
    \A u \in Users, r \in Reserves :
        /\ collateral_account[r][u] = 0 => obligation[u].collateral[r] = 0
        /\ loan_account[r][u] = 0 => obligation[u].loans[r] = 0

ClosedHoldNothing ==
    \A u \in Users \ obligations :
        obligation[u].loan_accounts = {} /\ obligation[u].collateral_accounts = {}

(* Both follow from what PositionInv says of every single position. *)
LEMMA RecordsOfNothing ==
  ASSUME PositionInv
  PROVE  TypeOK /\ NothingFromNothing /\ ClosedHoldNothing
  <1>1. TypeOK BY DEF PositionInv, AccountingInv
  <1>2. ASSUME NEW u \in Users, NEW r \in Reserves
        PROVE  /\ collateral_account[r][u] = 0 => obligation[u].collateral[r] = 0
               /\ loan_account[r][u] = 0 => obligation[u].loans[r] = 0
    <2>1. PositionRecorded(u, r) /\ obligation[u].collateral[r] \in Nat
      BY <1>1 DEF PositionInv, TypeOK, ObligationState
    <2>2. NoteAmount(0) = 0 BY NoteAmountLinear
    <2> QED BY <2>1, <2>2 DEF PositionRecorded
  <1>3. NothingFromNothing BY <1>2 DEF NothingFromNothing
  <1>4. ClosedHoldNothing
    <2> SUFFICES ASSUME NEW u \in Users \ obligations
                 PROVE  /\ obligation[u].loan_accounts = {}
                        /\ obligation[u].collateral_accounts = {}
      BY DEF ClosedHoldNothing
    <2>1. /\ obligation[u].loan_accounts \subseteq Reserves
          /\ obligation[u].collateral_accounts \subseteq Reserves
      BY <1>1 DEF TypeOK, ObligationState
    <2>2. CASE Reserves = {} BY <2>1, <2>2
    <2>3. CASE Reserves # {} BY <2>3 DEF PositionInv, PositionRecorded
    <2> QED BY <2>2, <2>3
  <1> QED BY <1>1, <1>3, <1>4

(* Another user's obligation is left alone. *)
Elsewhere(v) == \A u \in Users \ {v} : obligation'[u] = obligation[u]

(* Accounts are opened within the limit, and closed when the record, too,  *)
(* says that they are empty: the handlers look at the token accounts.      *)
LEMMA AccountsArePositions ==
  ASSUME TypeOK, NothingFromNothing, ClosedHoldNothing, NEW v \in Users, NEW r \in Reserves,
         \/ InitObligation(v)
         \/ InitCollateralAccount(v, r) \/ CloseCollateralAccount(v, r)
         \/ InitLoanAccount(v, r) \/ CloseLoanAccount(v, r)
  PROVE  Elsewhere(v) /\ P(v)!Next
  <1>1. TypeOK OBVIOUS
  <1>3. CASE InitObligation(v)
    <2>1. obligation'[v] = NewObligation /\ Elsewhere(v) /\ v \notin obligations
      BY <1>1, <1>3 DEF InitObligation, TypeOK, Elsewhere
    <2> QED BY <2>1, RenewalIsPosition DEF ClosedHoldNothing
  <1>4. CASE InitCollateralAccount(v, r)
    <2>1. /\ obligation'[v] = RegisterCollateral(obligation[v], r) /\ Elsewhere(v)
          /\ r \notin obligation[v].collateral_accounts
          /\ PositionCount(obligation[v]) < MaxPositions
      BY <1>1, <1>4 DEF InitCollateralAccount, TypeOK, Elsewhere
    <2> QED BY <2>1, OpenIsPosition
  <1>5. CASE InitLoanAccount(v, r)
    <2>1. /\ obligation'[v] = RegisterLoan(obligation[v], r) /\ Elsewhere(v)
          /\ r \notin obligation[v].loan_accounts
          /\ PositionCount(obligation[v]) < MaxPositions
      BY <1>1, <1>5 DEF InitLoanAccount, TypeOK, Elsewhere
    <2> QED BY <2>1, OpenIsPosition
  <1>6. CASE CloseCollateralAccount(v, r)
    <2>1. /\ obligation'[v] = UnregisterCollateral(obligation[v], r) /\ Elsewhere(v)
          /\ r \in obligation[v].collateral_accounts /\ collateral_account[r][v] = 0
      BY <1>1, <1>6 DEF CloseCollateralAccount, TypeOK, Elsewhere
    <2>2. obligation[v].collateral[r] = 0 BY <2>1 DEF NothingFromNothing
    <2> QED BY <2>1, <2>2, CloseIsPosition
  <1>7. CASE CloseLoanAccount(v, r)
    <2>1. /\ obligation'[v] = UnregisterLoan(obligation[v], r) /\ Elsewhere(v)
          /\ r \in obligation[v].loan_accounts /\ loan_account[r][v] = 0
      BY <1>1, <1>7 DEF CloseLoanAccount, TypeOK, Elsewhere
    <2>2. obligation[v].loans[r] = 0 BY <2>1 DEF NothingFromNothing
    <2> QED BY <2>1, <2>2, CloseIsPosition
  <1> QED BY <1>3, <1>4, <1>5, <1>6, <1>7

(* Collateral is pledged and withdrawn, and loans are taken, by registered *)
(* accounts only.                                                          *)
LEMMA ChangesArePositions ==
  ASSUME TypeOK, EveryAmount, NEW v \in Users, NEW r \in Reserves, NEW a \in Amounts,
         DepositCollateral(v, r, a) \/ WithdrawCollateral(v, r, a) \/ Borrow(v, r, a)
  PROVE  Elsewhere(v) /\ P(v)!Next
  <1>1. TypeOK OBVIOUS
  <1>2. CASE DepositCollateral(v, r, a)
    <2> DEFINE n == AsDepositNotes(a, reserve_info[r], "Down")
    <2>1. n \in Nat BY <1>1, <1>2, AmountsNat DEF DepositCollateral, TypeOK
    <2>2. /\ r \in obligation[v].collateral_accounts
          /\ obligation' = [obligation EXCEPT ![v] = AddCollateral(@, r, NoteAmount(n))]
      BY <1>2 DEF DepositCollateral
    <2> HIDE DEF n
    <2>3. /\ obligation'[v] = AddCollateral(obligation[v], r, NoteAmount(n))
          /\ Elsewhere(v)
      BY <1>1, <2>2 DEF TypeOK, Elsewhere
    <2>4. NoteAmount(n) \in NoteAmounts BY <2>1 DEF EveryAmount
    <2> QED BY <2>2, <2>3, <2>4, ChangeIsPosition
  <1>3. CASE WithdrawCollateral(v, r, a)
    <2> DEFINE n == AsDepositNotes(a, reserve_info[r], "Up")
    <2>1. n \in Nat BY <1>1, <1>3, AmountsNat DEF WithdrawCollateral, TypeOK
    <2>2. /\ r \in obligation[v].collateral_accounts
          /\ obligation' = [obligation EXCEPT ![v] =
                                 SubtractCollateral(obligation[v], r, NoteAmount(n))]
      BY <1>3 DEF WithdrawCollateral
    <2> HIDE DEF n
    <2>3. /\ obligation'[v] = SubtractCollateral(obligation[v], r, NoteAmount(n))
          /\ Elsewhere(v)
      BY <1>1, <2>2 DEF TypeOK, Elsewhere
    <2>4. NoteAmount(n) \in NoteAmounts BY <2>1 DEF EveryAmount
    <2> QED BY <2>2, <2>3, <2>4, ChangeIsPosition
  <1>4. CASE Borrow(v, r, a)
    <2> DEFINE t == AsTokens(a, reserve_info[r], "Down")
               n == NotesFromTokens(t + BorrowFee(config[r].loan_origination_fee, t),
                        reserve_info[r].loan_note_exchange_rate, "Up")
    <2>1. n \in Nat
      <3>1. /\ config[r].loan_origination_fee \in Nat
            /\ reserve_info[r].loan_note_exchange_rate > 0
        BY <1>1, <1>4 DEF TypeOK, Config, Borrow
      <3> QED BY <1>1, <3>1, NewNotesNat
    <2>2. /\ r \in obligation[v].loan_accounts
          /\ obligation' = [obligation EXCEPT ![v] = AddLoan(@, r, NoteAmount(n))]
      BY <1>4 DEF Borrow
    <2> HIDE DEF n
    <2>3. obligation'[v] = AddLoan(obligation[v], r, NoteAmount(n)) /\ Elsewhere(v)
      BY <1>1, <2>2 DEF TypeOK, Elsewhere
    <2>4. NoteAmount(n) \in NoteAmounts BY <2>1 DEF EveryAmount
    <2> QED BY <2>2, <2>3, <2>4, ChangeIsPosition
  <1> QED BY <1>2, <1>3, <1>4

(* So are they repaid, by anyone, and collateral is taken from one.        *)
LEMMA RepaymentsArePositions ==
  ASSUME TypeOK, EveryAmount, NEW payer \in Users, NEW v \in Users,
         NEW r \in Reserves, NEW a \in Amounts,
         \/ Repay(payer, v, r, a)
         \/ \E c \in Reserves, m \in MinCollaterals : Liquidate(payer, v, r, c, a, m)
  PROVE  Elsewhere(v) /\ P(v)!Next
  <1>1. TypeOK OBVIOUS
  <1> DEFINE n == PayoffNotes(v, r, a)
  <1>2. ASSUME NEW before, PayOff(payer, v, r, a, before)
        PROVE  /\ obligation'[v] = SubtractLoan(before, r, NoteAmount(n)) /\ Elsewhere(v)
               /\ r \in obligation[v].loan_accounts /\ NoteAmount(n) \in NoteAmounts
    <2>1. n \in Nat BY <1>1, <1>2, PayoffNat DEF PayOff
    <2>2. /\ r \in obligation[v].loan_accounts
          /\ obligation' = [obligation EXCEPT ![v] = SubtractLoan(before, r, NoteAmount(n))]
      BY <1>2 DEF PayOff
    <2> HIDE DEF n
    <2> QED BY <1>1, <2>1, <2>2 DEF TypeOK, Elsewhere, EveryAmount
  <1>3. CASE Repay(payer, v, r, a)
    <2>1. PayOff(payer, v, r, a, obligation[v]) BY <1>3 DEF Repay
    <2> HIDE DEF n
    <2> QED BY <1>2, <2>1, ChangeIsPosition
  <1>4. ASSUME NEW c \in Reserves, NEW m \in MinCollaterals,
               Liquidate(payer, v, r, c, a, m)
        PROVE  Elsewhere(v) /\ P(v)!Next
    <2> DEFINE taken == CollateralTaken(v, r, c, a)
               before == SubtractCollateral(obligation[v], c, NoteAmount(taken))
    <2>1. /\ taken \in m .. collateral_account[c][v]
          /\ c \in obligation[v].collateral_accounts
          /\ PayOff(payer, v, r, a, before)
      BY <1>4 DEF Liquidate
    <2> HIDE DEF taken, n
    <2>2. taken \in Nat BY <1>1, <2>1, InputsAssumption DEF TypeOK
    <2>3. NoteAmount(taken) \in NoteAmounts BY <2>2 DEF EveryAmount
    <2>4. /\ obligation'[v] = SubtractLoan(before, r, NoteAmount(n)) /\ Elsewhere(v)
          /\ r \in obligation[v].loan_accounts /\ NoteAmount(n) \in NoteAmounts
      BY <1>2, <2>1
    <2> QED BY <2>1, <2>3, <2>4, LiquidationIsPosition
  <1> QED BY <1>3, <1>4

(* Whatever else a step does, it changes one user's obligation and that by *)
(* one operation on its positions.                                         *)
LEMMA StepsArePositions ==
  ASSUME TypeOK, NothingFromNothing, ClosedHoldNothing, EveryAmount,
         [Next]_vars, NEW u \in Users
  PROVE  P(u)!Next \/ UNCHANGED obligation[u]
  <1>1. ASSUME NEW v \in Users, Elsewhere(v) /\ P(v)!Next
        PROVE  P(u)!Next \/ UNCHANGED obligation[u]
    BY <1>1 DEF Elsewhere
  <1>2. CASE Tick \/ OwnerStep \/ RefreshStep \/ UNCHANGED vars
    BY <1>2 DEF Tick, OwnerStep, SetMarketFlags, UpdateReserveConfig, RefreshStep,
                RefreshReserve, vars
  <1>3. CASE AccountStep
    <2>1. ASSUME NEW v \in Users, NEW r \in Reserves,
                 InitDepositAccount(v, r) \/ CloseDepositAccount(v, r) \/ CloseObligation(v)
          PROVE  obligation' = obligation
      BY <2>1 DEF InitDepositAccount, CloseDepositAccount, CloseObligation
    <2>2. ASSUME NEW v \in Users, CloseObligation(v) PROVE obligation' = obligation
      BY <2>2 DEF CloseObligation
    <2>3. ASSUME NEW v \in Users, InitObligation(v) PROVE Elsewhere(v) /\ P(v)!Next
      <3>1. \E r \in Reserves : TRUE BY <2>3 DEF InitObligation
      <3> QED BY <2>3, <3>1, AccountsArePositions
    <2> QED BY <1>1, <1>3, <2>1, <2>2, <2>3, AccountsArePositions DEF AccountStep
  <1>4. CASE UserStep
    <2>1. ASSUME NEW v \in Users, NEW r \in Reserves, NEW a \in Amounts,
                 Withdraw(v, r, a) \/ \E to \in Users : DepositTokens(v, r, a, to)
          PROVE  obligation' = obligation
      BY <2>1 DEF Withdraw, WithdrawTokens, DepositTokens
    <2> QED BY <1>1, <1>4, <2>1, ChangesArePositions, RepaymentsArePositions DEF UserStep
  <1> QED BY <1>2, <1>3, <1>4 DEF Next

(* A market starts with the record of an obligation that has no positions. *)
LEMMA InitIsPositions ==
  ASSUME Init, NEW u \in Users PROVE P(u)!Init
  BY DEF Init, P!Init, P!NewObligation, NewObligation

(* Every obligation behaves as the record of positions the slots of        *)
(* ObligationSlots.tla implement: no instruction, whoever signs it, does   *)
(* to it what the arrays could not do or would do differently.             *)
THEOREM LendingImplementsPositions ==
  ASSUME EveryAmount PROVE Spec => ObligationsArePositions
  <1>1. Init => \A u \in Users : P(u)!Init BY InitIsPositions
  <1>2. PositionInv /\ [Next]_vars
            => [\A u \in Users : P(u)!Next \/ UNCHANGED obligation[u]]_vars
    BY RecordsOfNothing, StepsArePositions
  <1> QED BY <1>1, <1>2, InitPositions, NextPositions, PTL
          DEF Spec, ObligationsArePositions

-----------------------------------------------------------------------------
(* StaysHealthy.  The values health compares are sums over the registered  *)
(* accounts, of amounts that only the owner's checked steps make worse.    *)

(* Products truncate, but a larger factor never makes a smaller one. *)
LEMMA MulMonotone ==
  ASSUME NEW a \in Nat, NEW b \in Nat, NEW c \in Nat, NEW d \in Nat, a <= b, c <= d
  PROVE  /\ Mul(a, c) \in Nat /\ Mul(b, d) \in Nat
         /\ Mul(a, c) <= Mul(b, d)
  <1>1. Mul(a, c) \in Nat /\ Mul(b, d) \in Nat BY MulNat, Zenon
  <1>2. a * c \in Nat /\ b * c \in Nat /\ b * d \in Nat
    BY Product
  <1>3. a * c <= b * c BY Product
  <1>4. c * b <= d * b /\ c * b = b * c /\ d * b = b * d BY Product
  <1>5. a * c <= b * d BY <1>2, <1>3, <1>4
  <1> QED BY <1>1, <1>2, <1>5, QuotientMonotone, ONEAssumption DEF Mul

(* A note's value grows with the amount, and no notes are worth nothing. *)
LEMMA NoteValueMonotone ==
  ASSUME NEW a \in Nat, NEW b \in Nat, NEW rate \in Nat, NEW price \in Nat
  PROVE  /\ NoteValue(a, rate, price) \in Nat
         /\ a <= b => NoteValue(a, rate, price) <= NoteValue(b, rate, price)
         /\ NoteValue(0, rate, price) = 0
  <1>1. Mul(a, rate) \in Nat /\ Mul(b, rate) \in Nat BY MulNat, Zenon
  <1>2. NoteValue(a, rate, price) \in Nat BY <1>1, MulNat, Zenon DEF NoteValue
  <1>3. ASSUME a <= b PROVE NoteValue(a, rate, price) <= NoteValue(b, rate, price)
    <2>1. Mul(a, rate) <= Mul(b, rate) BY <1>3, MulMonotone
    <2> QED BY <1>1, <2>1, MulMonotone DEF NoteValue
  <1>4. \A x \in Nat : Mul(0, x) = 0 BY ONEAssumption DEF Mul
  <1>5. NoteValue(0, rate, price) = 0 BY <1>4 DEF NoteValue
  <1> QED BY <1>2, <1>3, <1>5

(* What an obligation has pledged and owes in each reserve. *)
Pledged(o, infos) ==
    [r \in Reserves |-> NoteValue(o.collateral[r], infos[r].deposit_note_exchange_rate,
                                  infos[r].price)]
Owed(o, infos) ==
    [r \in Reserves |-> NoteValue(o.loans[r], infos[r].loan_note_exchange_rate,
                                  infos[r].price)]
Infos == [Reserves -> CachedReserveInfo]

(* Its values are the sums of these over its accounts. *)
LEMMA ValuesAreTotals ==
  ASSUME NEW o \in ObligationState, NEW infos
  PROVE  /\ CollateralValue(o, infos) = Total(Pledged(o, infos), o.collateral_accounts)
         /\ LoanValue(o, infos) = Total(Owed(o, infos), o.loan_accounts)
  <1>1. /\ o.collateral_accounts \subseteq Reserves /\ o.loan_accounts \subseteq Reserves
    BY DEF ObligationState
  <1>2. CollateralValue(o, infos) = Total(Pledged(o, infos), o.collateral_accounts)
    <2> DEFINE V(r) == NoteValue(o.collateral[r], infos[r].deposit_note_exchange_rate, infos[r].price)
               S == o.collateral_accounts
               b == Pledged(o, infos)
               Sums(g) == g = [s \in SUBSET S |->
                                  IF s = {} THEN 0 ELSE V(First(s)) + g[s \ {First(s)}]]
    <2>1. CollateralValue(o, infos) = (CHOOSE g : Sums(g))[S]
      BY DEF CollateralValue, MapThenSumSet, MapThenFoldSet, First
    <2>2. \A s \in SUBSET S : s # {} => b[First(s)] = V(First(s))
      BY <1>1 DEF First, Pledged
    <2> HIDE DEF V, b
    <2>3. \A g : Sums(g) <=> IsSum(b, S, g) BY <2>2 DEF IsSum
    <2>4. (CHOOSE g : Sums(g)) = (CHOOSE g : IsSum(b, S, g)) BY <2>3, Zenon
    <2> QED BY <2>1, <2>4, Zenon DEF Total, b
  <1>3. LoanValue(o, infos) = Total(Owed(o, infos), o.loan_accounts)
    <2> DEFINE V(r) == NoteValue(o.loans[r], infos[r].loan_note_exchange_rate, infos[r].price)
               S == o.loan_accounts
               b == Owed(o, infos)
               Sums(g) == g = [s \in SUBSET S |->
                                  IF s = {} THEN 0 ELSE V(First(s)) + g[s \ {First(s)}]]
    <2>1. LoanValue(o, infos) = (CHOOSE g : Sums(g))[S]
      BY DEF LoanValue, MapThenSumSet, MapThenFoldSet, First
    <2>2. \A s \in SUBSET S : s # {} => b[First(s)] = V(First(s))
      BY <1>1 DEF First, Owed
    <2> HIDE DEF V, b
    <2>3. \A g : Sums(g) <=> IsSum(b, S, g) BY <2>2 DEF IsSum
    <2>4. (CHOOSE g : Sums(g)) = (CHOOSE g : IsSum(b, S, g)) BY <2>3, Zenon
    <2> QED BY <2>1, <2>4, Zenon DEF Total, b
  <1> QED BY <1>2, <1>3

(* An obligation in the state p is no worse than in the state o when no    *)
(* collateral that counts is gone and no loan has grown.                   *)
NoWorse(o, p) ==
    /\ \A r \in o.collateral_accounts :
          \/ o.collateral[r] = 0
          \/ r \in p.collateral_accounts /\ o.collateral[r] <= p.collateral[r]
    /\ \A r \in p.loan_accounts : r \in o.loan_accounts /\ p.loans[r] <= o.loans[r]

(* Its collateral is then worth no less, and its loans no more.            *)
LEMMA NoWorseValues ==
  ASSUME NEW o \in ObligationState, NEW p \in ObligationState, NEW infos \in Infos,
         NoWorse(o, p)
  PROVE  /\ CollateralValue(o, infos) \in Nat /\ CollateralValue(p, infos) \in Nat
         /\ LoanValue(o, infos) \in Nat /\ LoanValue(p, infos) \in Nat
         /\ CollateralValue(o, infos) <= CollateralValue(p, infos)
         /\ LoanValue(p, infos) <= LoanValue(o, infos)
  <1>1. \A x \in {o, p} : /\ x.collateral_accounts \in SUBSET Reserves
                          /\ x.loan_accounts \in SUBSET Reserves
                          /\ IsFiniteSet(x.collateral_accounts)
                          /\ IsFiniteSet(x.loan_accounts)
    <2> TAKE x \in {o, p}
    <2>1. x.collateral_accounts \in SUBSET Reserves /\ x.loan_accounts \in SUBSET Reserves
      BY DEF ObligationState
    <2> QED BY <2>1, ReservesAssumption, FS_Subset
  <1>2. \A r \in Reserves :
           /\ Pledged(o, infos)[r] \in Nat /\ Pledged(p, infos)[r] \in Nat
           /\ Owed(o, infos)[r] \in Nat /\ Owed(p, infos)[r] \in Nat
           /\ o.collateral[r] = 0 => Pledged(o, infos)[r] = 0
           /\ o.collateral[r] <= p.collateral[r] =>
                 Pledged(o, infos)[r] <= Pledged(p, infos)[r]
           /\ p.loans[r] <= o.loans[r] => Owed(p, infos)[r] <= Owed(o, infos)[r]
    <2> TAKE r \in Reserves
    <2>1. /\ o.collateral[r] \in Nat /\ p.collateral[r] \in Nat
          /\ o.loans[r] \in Nat /\ p.loans[r] \in Nat
      BY DEF ObligationState
    <2>2. /\ infos[r].deposit_note_exchange_rate \in Nat
          /\ infos[r].loan_note_exchange_rate \in Nat
          /\ infos[r].price \in Nat
      <3>1. infos[r] \in CachedReserveInfo BY DEF Infos
      <3> QED BY <3>1 DEF CachedReserveInfo
    <2>3. /\ Pledged(o, infos)[r] \in Nat /\ Pledged(p, infos)[r] \in Nat
          /\ o.collateral[r] = 0 => Pledged(o, infos)[r] = 0
          /\ o.collateral[r] <= p.collateral[r] =>
                Pledged(o, infos)[r] <= Pledged(p, infos)[r]
      <3> DEFINE rate == infos[r].deposit_note_exchange_rate
                 price == infos[r].price
                 x == o.collateral[r]
                 y == p.collateral[r]
      <3>1. /\ Pledged(o, infos)[r] = NoteValue(x, rate, price)
            /\ Pledged(p, infos)[r] = NoteValue(y, rate, price)
        BY DEF Pledged
      <3>2. x \in Nat /\ y \in Nat /\ rate \in Nat /\ price \in Nat BY <2>1, <2>2
      <3> HIDE DEF rate, price, x, y
      <3>3. /\ NoteValue(x, rate, price) \in Nat /\ NoteValue(y, rate, price) \in Nat
            /\ x <= y => NoteValue(x, rate, price) <= NoteValue(y, rate, price)
        BY <3>2, NoteValueMonotone, Zenon
      <3>4. NoteValue(0, rate, price) = 0 BY <3>2, NoteValueMonotone
      <3>5. x = 0 => NoteValue(x, rate, price) = 0 BY <3>4
      <3> QED BY <3>1, <3>3, <3>5 DEF x, y
    <2>4. /\ Owed(o, infos)[r] \in Nat /\ Owed(p, infos)[r] \in Nat
          /\ p.loans[r] <= o.loans[r] => Owed(p, infos)[r] <= Owed(o, infos)[r]
      BY <2>1, <2>2, NoteValueMonotone, Zenon DEF Owed
    <2> QED BY <2>3, <2>4
  <1> DEFINE po == Pledged(o, infos)
             pp == Pledged(p, infos)
             wo == Owed(o, infos)
             wp == Owed(p, infos)
  <1>3. /\ Dominates(po, o.collateral_accounts, pp, p.collateral_accounts)
        /\ Dominates(wp, p.loan_accounts, wo, o.loan_accounts)
    <2>1. /\ o.collateral_accounts \in SUBSET Reserves
          /\ p.loan_accounts \in SUBSET Reserves
      BY <1>1
    <2> QED BY <1>2, <2>1 DEF NoWorse, Dominates
  <1>4. /\ CollateralValue(o, infos) = Total(po, o.collateral_accounts)
        /\ CollateralValue(p, infos) = Total(pp, p.collateral_accounts)
        /\ LoanValue(o, infos) = Total(wo, o.loan_accounts)
        /\ LoanValue(p, infos) = Total(wp, p.loan_accounts)
    BY ValuesAreTotals
  <1>5. \A r \in Reserves : po[r] \in Nat /\ pp[r] \in Nat /\ wo[r] \in Nat /\ wp[r] \in Nat
    BY <1>2
  <1> HIDE DEF po, pp, wo, wp
  <1>6. /\ Total(po, o.collateral_accounts) \in Nat
        /\ Total(pp, p.collateral_accounts) \in Nat
        /\ Total(wo, o.loan_accounts) \in Nat
        /\ Total(wp, p.loan_accounts) \in Nat
    <2>1. Total(po, o.collateral_accounts) \in Nat BY <1>1, <1>5, TotalNat
    <2>2. Total(pp, p.collateral_accounts) \in Nat BY <1>1, <1>5, TotalNat
    <2>3. Total(wo, o.loan_accounts) \in Nat BY <1>1, <1>5, TotalNat
    <2>4. Total(wp, p.loan_accounts) \in Nat BY <1>1, <1>5, TotalNat
    <2> QED BY <2>1, <2>2, <2>3, <2>4
  <1>7. Total(po, o.collateral_accounts) <= Total(pp, p.collateral_accounts)
    BY <1>1, <1>3, <1>5, TotalAtMost, ReservesAssumption, Zenon
  <1>8. Total(wp, p.loan_accounts) <= Total(wo, o.loan_accounts)
    BY <1>1, <1>3, <1>5, TotalAtMost, ReservesAssumption, Zenon
  <1> QED BY <1>4, <1>6, <1>7, <1>8

(* The ratio asked of a set of loans is a number, no larger for fewer.     *)
LEMMA FewerLoansRatio ==
  ASSUME NEW o \in ObligationState, NEW p \in ObligationState, NEW infos \in Infos,
         p.loan_accounts \subseteq o.loan_accounts, p.loan_accounts # {}
  PROVE  /\ MaxMinCollateralRatio(o, infos) \in Nat
         /\ MaxMinCollateralRatio(p, infos) \in Nat
         /\ MaxMinCollateralRatio(p, infos) <= MaxMinCollateralRatio(o, infos)
  <1> DEFINE F(r) == infos[r].min_collateral_ratio
             A == {infos[r].min_collateral_ratio : r \in o.loan_accounts}
             B == {infos[r].min_collateral_ratio : r \in p.loan_accounts}
  <1>1. IsFiniteSet(o.loan_accounts) /\ o.loan_accounts \subseteq Reserves
    <2>1. o.loan_accounts \subseteq Reserves BY DEF ObligationState
    <2> QED BY <2>1, ReservesAssumption, FS_Subset
  <1>2. \A r \in Reserves : infos[r].min_collateral_ratio \in Nat
    <2> TAKE r \in Reserves
    <2>1. infos[r] \in CachedReserveInfo BY DEF Infos
    <2> QED BY <2>1 DEF CachedReserveInfo
  <1>3. A \subseteq Nat /\ B \subseteq A /\ B # {} BY <1>1, <1>2
  <1>4. IsFiniteSet(A)
    <2>1. [r \in o.loan_accounts |-> F(r)] \in Surjection(o.loan_accounts, A)
      BY DEF Surjection
    <2> HIDE DEF A
    <2> QED BY <1>1, <2>1, FS_Surjection
  <1>5. MaxMinCollateralRatio(o, infos) = Max(A) /\ MaxMinCollateralRatio(p, infos) = Max(B)
    BY DEF MaxMinCollateralRatio
  <1> HIDE DEF A, B
  <1>6. IsFiniteSet(B) /\ A # {} BY <1>3, <1>4, FS_Subset, Zenon
  <1>7. Max(A) \in A /\ \A y \in A : y <= Max(A) BY <1>3, <1>4, <1>6, Largest, Zenon
  <1>8. B \subseteq Nat BY <1>3
  <1>9. Max(B) \in B BY <1>3, <1>6, <1>8, Largest, Zenon
  <1> QED BY <1>3, <1>5, <1>7, <1>9, Zenon

(* Health depends on nothing else, so what is no worse is as healthy.      *)
LEMMA NoWorseHealth ==
  ASSUME NEW o \in ObligationState, NEW p \in ObligationState, NEW infos \in Infos,
         NoWorse(o, p), IsHealthy(o, infos)
  PROVE  IsHealthy(p, infos)
  <1> SUFFICES ASSUME p.loan_accounts # {}
               PROVE  Mul(LoanValue(p, infos), MaxMinCollateralRatio(p, infos))
                         <= CollateralValue(p, infos)
    BY DEF IsHealthy
  <1>1. p.loan_accounts \subseteq o.loan_accounts /\ o.loan_accounts # {} BY DEF NoWorse
  <1>2. Mul(LoanValue(o, infos), MaxMinCollateralRatio(o, infos)) <= CollateralValue(o, infos)
    BY <1>1 DEF IsHealthy
  <1> DEFINE lo == LoanValue(o, infos)
             lp == LoanValue(p, infos)
             co == CollateralValue(o, infos)
             cp == CollateralValue(p, infos)
             ro == MaxMinCollateralRatio(o, infos)
             rp == MaxMinCollateralRatio(p, infos)
  <1>3. lo \in Nat /\ lp \in Nat /\ co \in Nat /\ cp \in Nat /\ co <= cp /\ lp <= lo
    BY NoWorseValues
  <1>4. ro \in Nat /\ rp \in Nat /\ rp <= ro BY <1>1, FewerLoansRatio
  <1> HIDE DEF lo, lp, co, cp, ro, rp
  <1>5. Mul(lp, rp) \in Nat /\ Mul(lo, ro) \in Nat /\ Mul(lp, rp) <= Mul(lo, ro)
    BY <1>3, <1>4, MulMonotone
  <1>6. Mul(lo, ro) <= co BY <1>2 DEF lo, ro, co
  <1>7. Mul(lp, rp) <= cp BY <1>3, <1>5, <1>6
  <1> QED BY <1>7 DEF lp, rp, cp

-----------------------------------------------------------------------------
(* The property at one user's obligation. *)
KeepsHealth(u) ==
    /\ Usable(u) /\ IsHealthy(obligation[u], reserve_info)
    /\ UNCHANGED <<slot, reserve_info>>
    /\ obligation'[u].loan_accounts \subseteq obligation[u].loan_accounts
    => IsHealthy(obligation'[u], reserve_info')

(* A step that leaves u's obligation no worse keeps it healthy.            *)
LEMMA NoWorseKeeps ==
  ASSUME TypeOK, TypeOK', NEW u \in Users, NoWorse(obligation[u], obligation'[u])
  PROVE  KeepsHealth(u)
  <1>1. /\ obligation[u] \in ObligationState /\ obligation'[u] \in ObligationState
        /\ reserve_info \in Infos
    BY DEF TypeOK, Infos
  <1> QED BY <1>1, NoWorseHealth DEF KeepsHealth

(* So does one that leaves it alone.                                       *)
LEMMA SameKeeps ==
  ASSUME NEW u \in Users, obligation'[u] = obligation[u]
  PROVE  KeepsHealth(u)
  BY DEF KeepsHealth

(* Accounts opened and closed: a new one holds nothing, a closed one held  *)
(* nothing, and a new loan account is the owner's own doing.               *)
LEMMA AccountKeeps ==
  ASSUME TypeOK, NothingFromNothing, TypeOK',
         NEW u \in Users, NEW v \in Users, NEW s \in Reserves,
         \/ InitCollateralAccount(v, s) \/ CloseCollateralAccount(v, s)
         \/ InitLoanAccount(v, s) \/ CloseLoanAccount(v, s)
  PROVE  KeepsHealth(u)
  <1>1. TypeOK /\ TypeOK' OBVIOUS
  <1>2. obligation[u] \in ObligationState BY <1>1 DEF TypeOK
  <1>3. \A r \in Reserves : obligation[u].collateral[r] \in Nat /\ obligation[u].loans[r] \in Nat
    BY <1>2 DEF ObligationState
  <1>4. /\ obligation[u].collateral_accounts \subseteq Reserves
        /\ obligation[u].loan_accounts \subseteq Reserves
    BY <1>2 DEF ObligationState
  <1>5. CASE u # v
    <2>1. obligation'[u] = obligation[u]
      BY <1>1, <1>5 DEF TypeOK, InitCollateralAccount, CloseCollateralAccount,
                        InitLoanAccount, CloseLoanAccount
    <2> QED BY <2>1, SameKeeps
  <1>6. CASE u = v
    <2>1. CASE InitCollateralAccount(v, s)
      <3>1. /\ obligation'[u] = RegisterCollateral(obligation[u], s)
            /\ s \notin obligation[u].collateral_accounts
        BY <1>1, <1>6, <2>1 DEF TypeOK, InitCollateralAccount
      <3>2. NoWorse(obligation[u], obligation'[u])
        BY <1>2, <1>3, <1>4, <3>1 DEF NoWorse, RegisterCollateral, ObligationState
      <3> QED BY <1>1, <3>2, NoWorseKeeps
    <2>2. CASE CloseCollateralAccount(v, s)
      <3>1. /\ obligation'[u] = UnregisterCollateral(obligation[u], s)
            /\ collateral_account[s][u] = 0
        BY <1>1, <1>6, <2>2 DEF TypeOK, CloseCollateralAccount
      <3>2. obligation[u].collateral[s] = 0
        BY <3>1 DEF NothingFromNothing
      <3>3. NoWorse(obligation[u], obligation'[u])
        BY <1>2, <1>3, <1>4, <3>1, <3>2 DEF NoWorse, UnregisterCollateral, ObligationState
      <3> QED BY <1>1, <3>3, NoWorseKeeps
    <2>3. CASE InitLoanAccount(v, s)
      <3>1. /\ obligation'[u] = RegisterLoan(obligation[u], s)
            /\ s \notin obligation[u].loan_accounts
        BY <1>1, <1>6, <2>3 DEF TypeOK, InitLoanAccount
      <3>2. s \in obligation'[u].loan_accounts
        BY <1>2, <3>1 DEF RegisterLoan, ObligationState
      <3> QED BY <3>1, <3>2 DEF KeepsHealth
    <2>4. CASE CloseLoanAccount(v, s)
      <3>1. obligation'[u] = UnregisterLoan(obligation[u], s)
        BY <1>1, <1>6, <2>4 DEF TypeOK, CloseLoanAccount
      <3>2. NoWorse(obligation[u], obligation'[u])
        BY <1>2, <1>3, <1>4, <3>1 DEF NoWorse, UnregisterLoan, ObligationState
      <3> QED BY <1>1, <3>2, NoWorseKeeps
    <2> QED BY <2>1, <2>2, <2>3, <2>4
  <1> QED BY <1>5, <1>6

(* More collateral is no worse; less, or more debt, must leave the         *)
(* obligation healthy.                                                     *)
LEMMA OwnerKeeps ==
  ASSUME TypeOK, TypeOK', NEW u \in Users, NEW v \in Users, NEW s \in Reserves,
         NEW a \in Amounts,
         DepositCollateral(v, s, a) \/ WithdrawCollateral(v, s, a) \/ Borrow(v, s, a)
  PROVE  KeepsHealth(u)
  <1>1. CASE u # v
    <2>1. obligation'[u] = obligation[u]
      BY <1>1 DEF TypeOK, DepositCollateral, WithdrawCollateral, Borrow
    <2> QED BY <2>1, SameKeeps
  <1>2. CASE u = v
    <2>1. CASE DepositCollateral(v, s, a)
      <3> DEFINE n == NoteAmount(AsDepositNotes(a, reserve_info[s], "Down"))
      <3>0. reserve_info[s] \in CachedReserveInfo BY DEF TypeOK
      <3>1. obligation'[u] = AddCollateral(obligation[u], s, n)
        BY <1>2, <2>1 DEF TypeOK, DepositCollateral
      <3>2. n \in Nat
        BY <2>1, <3>0, AmountsNat, ConversionNat, Zenon DEF DepositCollateral, NoteAmount
      <3> HIDE DEF n
      <3>3. obligation[u] \in ObligationState BY DEF TypeOK
      <3>4. NoWorse(obligation[u], obligation'[u])
        BY <3>1, <3>2, <3>3 DEF NoWorse, AddCollateral, ObligationState
      <3> QED BY <3>4, NoWorseKeeps
    <2>2. CASE WithdrawCollateral(v, s, a)
      <3>1. IsHealthy(obligation'[u], reserve_info)
        BY <1>2, <2>2 DEF TypeOK, WithdrawCollateral, VerifyHealthy
      <3> QED BY <3>1 DEF KeepsHealth
    <2>3. CASE Borrow(v, s, a)
      <3>1. IsHealthy(obligation'[u], reserve_info)
        BY <1>2, <2>3 DEF TypeOK, Borrow, VerifyHealthy
      <3> QED BY <3>1 DEF KeepsHealth
    <2> QED BY <2>1, <2>2, <2>3
  <1> QED BY <1>1, <1>2

(* A repayment only shrinks a loan.                                        *)
LEMMA RepayKeeps ==
  ASSUME TypeOK, TypeOK', NEW u \in Users, NEW payer \in Users, NEW v \in Users,
         NEW s \in Reserves, NEW a \in Amounts, Repay(payer, v, s, a)
  PROVE  KeepsHealth(u)
  <1> DEFINE n == NoteAmount(PayoffNotes(v, s, a))
  <1>1. PayOff(payer, v, s, a, obligation[v]) BY DEF Repay
  <1>2. obligation' = [obligation EXCEPT ![v] = SubtractLoan(obligation[v], s, n)]
    BY <1>1 DEF PayOff
  <1>3. n \in Nat BY <1>1, PayoffNat, ConversionNat, Zenon DEF PayOff, NoteAmount
  <1> HIDE DEF n
  <1>4. CASE u # v
    <2>1. obligation'[u] = obligation[u] BY <1>2, <1>4 DEF TypeOK
    <2> QED BY <2>1, SameKeeps
  <1>5. CASE u = v
    <2>1. obligation'[u] = SubtractLoan(obligation[u], s, n) BY <1>2, <1>5 DEF TypeOK
    <2>2. obligation[u] \in ObligationState BY DEF TypeOK
    <2>3. \A k \in Nat : SaturatingSub(k, n) <= k BY <1>3 DEF SaturatingSub
    <2>4. NoWorse(obligation[u], obligation'[u])
      BY <2>1, <2>2, <2>3 DEF NoWorse, SubtractLoan, ObligationState
    <2> QED BY <2>4, NoWorseKeeps
  <1> QED BY <1>4, <1>5

(* A liquidation takes collateral, but of no healthy obligation.           *)
LEMMA LiquidateKeeps ==
  ASSUME TypeOK, NEW u \in Users, NEW payer \in Users, NEW v \in Users,
         NEW s \in Reserves, NEW c \in Reserves, NEW a \in Amounts,
         NEW m \in MinCollaterals, Liquidate(payer, v, s, c, a, m)
  PROVE  KeepsHealth(u)
  <1>1. CASE u # v
    <2>1. obligation'[u] = obligation[u] BY <1>1 DEF TypeOK, Liquidate, PayOff
    <2> QED BY <2>1, SameKeeps
  <1>2. CASE u = v BY <1>2 DEF Liquidate, KeepsHealth
  <1> QED BY <1>1, <1>2

(* Every other step leaves the obligations that exist alone.               *)
LEMMA NextKeeps ==
  ASSUME TypeOK, NothingFromNothing, TypeOK', [Next]_vars, NEW u \in Users
  PROVE  KeepsHealth(u)
  <1> SUFFICES ASSUME Usable(u) PROVE KeepsHealth(u)
    BY DEF KeepsHealth
  <1>0. TypeOK OBVIOUS
  <1>1. CASE Tick \/ OwnerStep \/ RefreshStep \/ UNCHANGED vars
    <2>1. obligation'[u] = obligation[u]
      BY <1>1 DEF Tick, OwnerStep, SetMarketFlags, UpdateReserveConfig, RefreshStep,
                  RefreshReserve, vars
    <2> QED BY <2>1, SameKeeps
  <1>2. CASE AccountStep
    <2>1. ASSUME NEW v \in Users, InitObligation(v) PROVE KeepsHealth(u)
      <3>1. u # v BY <2>1 DEF InitObligation, Usable
      <3>2. obligation'[u] = obligation[u] BY <1>0, <2>1, <3>1 DEF InitObligation, TypeOK
      <3> QED BY <3>2, SameKeeps
    <2>2. ASSUME NEW v \in Users,
                 \/ CloseObligation(v)
                 \/ \E r \in Reserves : InitDepositAccount(v, r) \/ CloseDepositAccount(v, r)
          PROVE  KeepsHealth(u)
      <3>1. obligation'[u] = obligation[u]
        BY <2>2, Zenon DEF CloseObligation, InitDepositAccount, CloseDepositAccount
      <3> QED BY <3>1, SameKeeps
    <2> QED BY <1>2, <2>1, <2>2, AccountKeeps DEF AccountStep
  <1>3. CASE UserStep
    <2>1. ASSUME NEW v \in Users, NEW r \in Reserves, NEW a \in Amounts, NEW to \in Users,
                 DepositTokens(v, r, a, to) \/ Withdraw(v, r, a)
          PROVE  KeepsHealth(u)
      <3>1. obligation'[u] = obligation[u]
        BY <2>1 DEF DepositTokens, Withdraw, WithdrawTokens
      <3> QED BY <3>1, SameKeeps
    <2>2. ASSUME NEW v \in Users, NEW r \in Reserves, NEW a \in Amounts,
                 \/ DepositCollateral(v, r, a) \/ WithdrawCollateral(v, r, a)
                 \/ Borrow(v, r, a)
          PROVE  KeepsHealth(u)
      BY <1>0, <2>2, OwnerKeeps
    <2>3. ASSUME NEW payer \in Users, NEW v \in Users, NEW r \in Reserves, NEW a \in Amounts,
                 Repay(payer, v, r, a)
          PROVE  KeepsHealth(u)
      BY <1>0, <2>3, RepayKeeps
    <2>4. ASSUME NEW payer \in Users, NEW v \in Users, NEW r \in Reserves, NEW a \in Amounts,
                 NEW c \in Reserves, NEW m \in MinCollaterals, Liquidate(payer, v, r, c, a, m)
          PROVE  KeepsHealth(u)
      BY <1>0, <2>4, LiquidateKeeps
    <2> QED BY <1>3, <2>1, <2>2, <2>3, <2>4 DEF UserStep
  <1> QED BY <1>1, <1>2, <1>3 DEF Next

(* No step but a new price, interest, time or a loan account of the        *)
(* owner's own makes a healthy obligation liquidatable, in any market: the *)
(* sums over its positions, truncations included, never turn a deposit, a  *)
(* repayment or an empty account against it.                               *)
THEOREM HealthIsKept == Spec => StaysHealthy
  <1>0. PositionInv => TypeOK /\ NothingFromNothing BY RecordsOfNothing
  <1>1. PositionInv /\ TypeOK' /\ [Next]_vars =>
            [\A u \in Users :
                /\ Usable(u) /\ IsHealthy(obligation[u], reserve_info)
                /\ UNCHANGED <<slot, reserve_info>>
                /\ obligation'[u].loan_accounts \subseteq obligation[u].loan_accounts
                /\ Usable(u)'
                => IsHealthy(obligation'[u], reserve_info')]_vars
    BY <1>0, NextKeeps DEF KeepsHealth
  <1> QED BY <1>1, InitPositions, NextPositions, TypeCorrect, PTL DEF Spec, StaysHealthy

-----------------------------------------------------------------------------
(* LiquidationProportional.  All the truncations of the formula favour the *)
(* owner of the collateral: only the value of what is left loses a digit.  *)

(* A share of v no larger than the share r has of l. *)
LEMMA ShareOfTotal ==
  ASSUME NEW v \in Nat, NEW l \in Nat \ {0}, NEW r \in Nat, NEW m \in Nat,
         m <= Mul(v, Div(r, l))
  PROVE  m * l <= r * v
  <1> DEFINE d == Div(r, l)
             x == Mul(v, d)
  <1>1. d \in Nat /\ r * ONE \in Nat /\ d * l \in Nat /\ d * l <= r * ONE BY DivTruncates
  <1> HIDE DEF d
  <1>2. x \in Nat /\ v * d \in Nat /\ x * ONE \in Nat /\ x * ONE <= v * d
    BY <1>1, MulTruncates, Zenon
  <1>3. m <= x BY DEF d
  <1> HIDE DEF x
  <1>4. m * ONE <= x * ONE /\ m * ONE \in Nat BY <1>2, <1>3, Product, ONEAssumption
  <1>5. (m * ONE) * l <= (v * d) * l BY <1>2, <1>4, Product
  <1>6. (v * d) * l = (d * l) * v BY <1>1
  <1>7. (d * l) * v <= (r * ONE) * v BY <1>1, Product
  <1>8. (m * ONE) * l = (m * l) * ONE /\ (r * ONE) * v = (r * v) * ONE
    BY ONEAssumption
  <1>9. m * l \in Nat /\ r * v \in Nat BY Product
  <1>10. (m * l) * ONE \in Nat /\ (r * v) * ONE \in Nat /\ (v * d) * l \in Nat
    BY <1>2, <1>9, Product, ONEAssumption
  <1>11. (m * l) * ONE <= (r * v) * ONE BY <1>5, <1>6, <1>7, <1>8, <1>10
  <1> QED BY <1>9, <1>11, CancelFactor, ONEAssumption

(* Notes repaid are worth no more than the loans lose by them. *)
LEMMA LoanRepaid ==
  ASSUME NEW held \in Nat, NEW n \in Nat, n <= held, NEW rate \in Nat, NEW price \in Nat
  PROVE  NoteValue(NoteAmount(n), rate, price) + NoteValue(NoteAmount(held - n), rate, price)
            <= NoteValue(NoteAmount(held), rate, price)
  <1>1. ASSUME NEW k \in Nat PROVE Mul(NoteAmount(k), rate) = k * rate /\ k * rate \in Nat
    <2>1. k * rate \in Nat BY Product
    <2>2. NoteAmount(k) * rate = (k * rate) * ONE
      BY ONEAssumption DEF NoteAmount, FromU64
    <2> QED BY <2>1, <2>2, QuotientExact, ONEAssumption DEF Mul
  <1>2. held - n \in Nat OBVIOUS
  <1> DEFINE x == n * rate
             y == (held - n) * rate
             z == held * rate
  <1>3. x \in Nat /\ y \in Nat /\ z \in Nat BY <1>1, <1>2
  <1>4. x + y = z OBVIOUS
  <1>5. /\ NoteValue(NoteAmount(n), rate, price) = Mul(x, price)
        /\ NoteValue(NoteAmount(held - n), rate, price) = Mul(y, price)
        /\ NoteValue(NoteAmount(held), rate, price) = Mul(z, price)
    BY <1>1, <1>2 DEF NoteValue
  <1> HIDE DEF x, y, z
  <1>6. x * price \in Nat /\ y * price \in Nat BY <1>3, Product
  <1>7. x * price + y * price = z * price BY <1>3, <1>4
  <1>8. (x * price) \div ONE + (y * price) \div ONE <= (x * price + y * price) \div ONE
    BY <1>6, QuotientParts, ONEAssumption
  <1> QED BY <1>5, <1>7, <1>8 DEF Mul

(* Notes that were computed from a value are worth no more than it, but    *)
(* for one digit.                                                          *)
LEMMA PledgeTaken ==
  ASSUME NEW k \in Nat, NEW n \in Nat, NEW rate \in Nat \ {0}, NEW price \in Nat \ {0},
         NEW m \in Nat, NoteAmount(n) <= k, NoteAmount(n) <= Div(Div(m, price), rate)
  PROVE  NoteValue(k, rate, price)
            <= NoteValue(SaturatingSub(k, NoteAmount(n)), rate, price) + m + 1
  <1> DEFINE b == k - NoteAmount(n)
             d == Div(m, price)
             e == Div(d, rate)
             t == n * rate
             x == Mul(b, rate)
  <1>1. NoteAmount(n) \in Nat /\ b \in Nat /\ SaturatingSub(k, NoteAmount(n)) = b
    <2>1. NoteAmount(n) \in Nat BY NoteAmountLinear
    <2> QED BY <2>1 DEF SaturatingSub
  <1>2. d \in Nat /\ m * ONE \in Nat /\ d * price \in Nat /\ d * price <= m * ONE
    BY DivTruncates
  <1> HIDE DEF d
  <1>3. e \in Nat /\ d * ONE \in Nat /\ e * rate \in Nat /\ e * rate <= d * ONE
    BY <1>2, DivTruncates, Zenon
  <1>4. NoteAmount(n) <= e BY DEF d
  <1> HIDE DEF e
  <1>5. t \in Nat BY Product
  <1>6. NoteAmount(n) * rate = t * ONE BY ONEAssumption DEF NoteAmount, FromU64
  <1>7. NoteAmount(n) * rate <= e * rate BY <1>1, <1>3, <1>4, Product
  <1>8. Mul(k, rate) = x + t
    <2>1. b * rate \in Nat BY <1>1, Product
    <2>2. k * rate = b * rate + NoteAmount(n) * rate BY <1>1
    <2>3. k * rate = b * rate + t * ONE BY <1>6, <2>2
    <2> HIDE DEF b, t
    <2>4. (b * rate + t * ONE) \div ONE = (b * rate) \div ONE + t
      BY <1>5, <2>1, QuotientPlus, ONEAssumption, Zenon
    <2> QED BY <2>3, <2>4 DEF Mul
  <1>9. x \in Nat BY <1>1, MulNat
  <1> HIDE DEF b, t, x
  <1>10. t <= d
    <2>1. t * ONE \in Nat BY <1>5, Product, ONEAssumption
    <2>2. t * ONE <= d * ONE BY <1>3, <1>6, <1>7, <2>1
    <2> QED BY <1>2, <1>5, <2>2, CancelFactor, ONEAssumption
  <1>11. t * price <= m * ONE /\ t * price \in Nat
    BY <1>2, <1>5, <1>10, Product
  <1>12. (t * price) \div ONE <= m BY <1>11, QuotientAtMost, ONEAssumption
  <1>13. x * price \in Nat /\ (x + t) * price = x * price + t * price
    BY <1>5, <1>9, Product
  <1>14. (x * price + t * price) \div ONE
            <= (x * price) \div ONE + (t * price) \div ONE + 1
    BY <1>11, <1>13, QuotientParts, ONEAssumption
  <1>15. /\ (x * price) \div ONE \in Nat /\ (t * price) \div ONE \in Nat
         /\ (x * price + t * price) \div ONE \in Nat
    <2>1. x * price + t * price \in Nat BY <1>11, <1>13
    <2> QED BY <1>11, <1>13, <2>1, Quotient, ONEAssumption
  <1>16. /\ NoteValue(k, rate, price) = (x * price + t * price) \div ONE
         /\ NoteValue(b, rate, price) = (x * price) \div ONE
    BY <1>8, <1>13 DEF NoteValue, Mul, x
  <1> QED BY <1>1, <1>12, <1>14, <1>15, <1>16

-----------------------------------------------------------------------------
(* An obligation's values are Numbers. *)
LEMMA ValuesNat ==
  ASSUME NEW o \in ObligationState, NEW infos \in Infos
  PROVE  CollateralValue(o, infos) \in Nat /\ LoanValue(o, infos) \in Nat
  <1>1. NoWorse(o, o) BY DEF NoWorse, ObligationState
  <1> QED BY <1>1, NoWorseValues

(* What may be sold is a value, no more than the share repaid. *)
LEMMA SellableNat ==
  ASSUME NEW o \in ObligationState, NEW infos \in Infos, NEW r \in Reserves,
         NEW c \in Reserves, CanLiquidate(o, infos, r, c), NEW amount \in Nat
  PROVE  /\ RepaidValue(infos, r, amount) \in Nat
         /\ MaxCollateralValue(o, infos, r, c, amount) \in Nat
         /\ MaxCollateralValue(o, infos, r, c, amount)
                <= Mul(CollateralValue(o, infos),
                       Div(RepaidValue(infos, r, amount), LoanValue(o, infos)))
  <1> DEFINE v == CollateralValue(o, infos)
             l == LoanValue(o, infos)
             ltv == CRatioLtv(o, infos, r)
             rob == RatioOverBonus(infos, r, c)
             repaid == RepaidValue(infos, r, amount)
             share == Mul(v, Div(repaid, l))
             sellable == SellableValue(o, infos, r, c, amount)
  <1>1. infos[r] \in CachedReserveInfo /\ infos[c] \in CachedReserveInfo BY DEF Infos
  <1>2. v \in Nat \ {0} /\ l \in Nat \ {0} BY ValuesNat DEF CanLiquidate
  <1> HIDE DEF v, l
  <1>3. /\ infos[r].min_collateral_ratio \in Nat /\ infos[c].liquidation_bonus \in Nat
        /\ infos[r].loan_note_exchange_rate \in Nat /\ infos[r].price \in Nat
        /\ ONE + infos[c].liquidation_bonus \in Nat \ {0}
    BY <1>1, ONEAssumption DEF CachedReserveInfo
  <1>4. repaid \in Nat BY <1>3, MulNat DEF RepaidValue, NoteValue
  <1>5. ltv \in Nat BY <1>2, <1>3, MulNat, DivNat, Zenon DEF CRatioLtv, v, l
  <1>6. rob \in Nat BY <1>3, DivNat DEF RatioOverBonus
  <1>7. ltv - ONE \in Nat /\ rob - ONE \in Nat \ {0}
    BY <1>5, <1>6, ONEAssumption DEF CanLiquidate
  <1>8. Mul(Div(ltv - ONE, rob - ONE), v) \in Nat BY <1>2, <1>7, DivNat, MulNat, Zenon
  <1>9. Mul(ONE + infos[c].liquidation_bonus, repaid) \in Nat BY <1>3, <1>4, MulNat, Zenon
  <1>10. sellable \in Nat
    BY <1>8, <1>9, MinPartialAssumption DEF SellableValue, Greatest, Least, v
  <1>11. share \in Nat BY <1>2, <1>4, DivNat, MulNat, Zenon
  <1>12. MaxCollateralValue(o, infos, r, c, amount) = Least(share, sellable)
    BY DEF MaxCollateralValue, v, l
  <1> HIDE DEF ltv, rob, repaid, share, sellable
  <1>13. Least(share, sellable) \in Nat /\ Least(share, sellable) <= share
    BY <1>10, <1>11 DEF Least
  <1> QED BY <1>4, <1>12, <1>13 DEF repaid, share, v, l

(* The obligation a liquidation leaves: notes off one position each side. *)
LiquidatedBy(o, s, n, c, taken) ==
    SubtractLoan(SubtractCollateral(o, c, NoteAmount(taken)), s, NoteAmount(n))

(* A change of one loan changes the value of the loans by as much. *)
LEMMA LoanValueChanges ==
  ASSUME NEW o \in ObligationState, NEW p \in ObligationState, NEW infos \in Infos,
         NEW s \in o.loan_accounts, p.loan_accounts = o.loan_accounts,
         \A r \in Reserves \ {s} : p.loans[r] = o.loans[r]
  PROVE  LoanValue(o, infos) - Owed(o, infos)[s] = LoanValue(p, infos) - Owed(p, infos)[s]
  <1> DEFINE S == o.loan_accounts
             a == Owed(o, infos)
             b == Owed(p, infos)
  <1>1. S \subseteq Reserves BY DEF ObligationState
  <1>2. IsFiniteSet(S) BY <1>1, ReservesAssumption, FS_Subset
  <1>3. \A r \in Reserves : a[r] \in Nat /\ b[r] \in Nat
    <2> TAKE r \in Reserves
    <2>1. infos[r] \in CachedReserveInfo /\ o.loans[r] \in Nat /\ p.loans[r] \in Nat
      BY DEF Infos, ObligationState
    <2>2. infos[r].loan_note_exchange_rate \in Nat /\ infos[r].price \in Nat
      BY <2>1 DEF CachedReserveInfo
    <2> QED BY <2>1, <2>2, NoteValueMonotone, Zenon DEF Owed
  <1>4. \A r \in S \ {s} : a[r] = b[r] BY <1>1 DEF Owed
  <1>5. LoanValue(o, infos) = Total(a, S) /\ LoanValue(p, infos) = Total(b, S)
    BY ValuesAreTotals
  <1>6. s \in S OBVIOUS
  <1>7. \A r \in S : a[r] \in Nat /\ b[r] \in Nat BY <1>1, <1>3
  <1> HIDE DEF a, b, S
  <1>8. Total(a, S) - a[s] = Total(b, S) - b[s] BY <1>2, <1>4, <1>6, <1>7, TotalChanges
  <1> QED BY <1>5, <1>8 DEF a, b, S

(* And a change of one pledge the value of the collateral. *)
LEMMA CollateralValueChanges ==
  ASSUME NEW o \in ObligationState, NEW p \in ObligationState, NEW infos \in Infos,
         NEW c \in o.collateral_accounts, p.collateral_accounts = o.collateral_accounts,
         \A r \in Reserves \ {c} : p.collateral[r] = o.collateral[r]
  PROVE  CollateralValue(o, infos) - Pledged(o, infos)[c]
            = CollateralValue(p, infos) - Pledged(p, infos)[c]
  <1> DEFINE S == o.collateral_accounts
             a == Pledged(o, infos)
             b == Pledged(p, infos)
  <1>1. S \subseteq Reserves BY DEF ObligationState
  <1>2. IsFiniteSet(S) BY <1>1, ReservesAssumption, FS_Subset
  <1>3. \A r \in Reserves : a[r] \in Nat /\ b[r] \in Nat
    <2> TAKE r \in Reserves
    <2>1. /\ infos[r] \in CachedReserveInfo
          /\ o.collateral[r] \in Nat /\ p.collateral[r] \in Nat
      BY DEF Infos, ObligationState
    <2>2. infos[r].deposit_note_exchange_rate \in Nat /\ infos[r].price \in Nat
      BY <2>1 DEF CachedReserveInfo
    <2> QED BY <2>1, <2>2, NoteValueMonotone, Zenon DEF Pledged
  <1>4. \A r \in S \ {c} : a[r] = b[r] BY <1>1 DEF Pledged
  <1>5. CollateralValue(o, infos) = Total(a, S) /\ CollateralValue(p, infos) = Total(b, S)
    BY ValuesAreTotals
  <1>6. c \in S OBVIOUS
  <1>7. \A r \in S : a[r] \in Nat /\ b[r] \in Nat BY <1>1, <1>3
  <1> HIDE DEF a, b, S
  <1>8. Total(a, S) - a[c] = Total(b, S) - b[c] BY <1>2, <1>4, <1>6, <1>7, TotalChanges
  <1> QED BY <1>5, <1>8 DEF a, b, S

(* What calculate_liquidation answers, whole notes of it taken. *)
LEMMA TakenAtMost ==
  ASSUME TypeOK, NEW u \in Users, NEW r \in Reserves, NEW c \in Reserves,
         NEW amount \in Amounts, HasLoanNotes(amount, reserve_info[r]),
         CanLiquidate(obligation[u], reserve_info, r, c),
         NEW n \in Nat, n = PayoffNotes(u, r, amount),
         NEW m \in Nat,
         m = MaxCollateralValue(obligation[u], reserve_info, r, c, NoteAmount(n))
  PROVE  LET taken == CollateralTaken(u, r, c, amount)
         IN  /\ taken \in Nat
             /\ NoteAmount(taken) <= obligation[u].collateral[c]
             /\ NoteAmount(taken) <= Div(Div(m, reserve_info[c].price),
                                         reserve_info[c].deposit_note_exchange_rate)
  <1> DEFINE taken == CollateralTaken(u, r, c, amount)
             price == reserve_info[c].price
             rate == reserve_info[c].deposit_note_exchange_rate
             k == obligation[u].collateral[c]
             held == collateral_account[c][u]
             d == Div(Div(m, price), rate)
             l == Least(d, k)
  <1>1. /\ reserve_info[c] \in CachedReserveInfo /\ obligation[u] \in ObligationState
        /\ held \in Nat
    BY DEF TypeOK
  <1>2. k \in Nat BY <1>1 DEF ObligationState
  <1>3. price \in Nat \ {0} /\ rate \in Nat \ {0}
    BY <1>1 DEF CachedReserveInfo, CanLiquidate
  <1>4. taken = Least(AsU64(l), held)
    BY DEF CollateralTaken, CalculateLiquidation
  <1> HIDE DEF price, rate, k, held
  <1>5. d \in Nat BY <1>3, DivNat
  <1> HIDE DEF d
  <1>6. l \in Nat /\ l <= d /\ l <= k BY <1>2, <1>5 DEF Least
  <1> HIDE DEF l, taken
  <1>7. AsU64(l) \in Nat /\ AsU64(l) * ONE <= l
    BY <1>6, Quotient, ONEAssumption DEF AsU64
  <1>8. taken \in Nat /\ taken <= AsU64(l) BY <1>1, <1>4, <1>7 DEF Least
  <1>9. taken * ONE \in Nat /\ AsU64(l) * ONE \in Nat /\ taken * ONE <= AsU64(l) * ONE
    BY <1>7, <1>8, Product, ONEAssumption
  <1>10. taken * ONE <= l BY <1>6, <1>7, <1>9
  <1>11. taken * ONE <= k /\ taken * ONE <= d BY <1>2, <1>5, <1>6, <1>9, <1>10
  <1> QED BY <1>8, <1>11 DEF NoteAmount, FromU64, taken, price, rate, k, d

(* Repaying n notes of a loan takes at least their value off the loans,    *)
(* and taking collateral worth at most m at most m and a digit off the     *)
(* collateral.                                                             *)
LEMMA LiquidatedValues ==
  ASSUME NEW o \in ObligationState, NEW infos \in Infos,
         NEW s \in o.loan_accounts, NEW c \in o.collateral_accounts,
         NEW held \in Nat, NEW n \in Nat, n <= held, o.loans[s] = NoteAmount(held),
         NEW taken \in Nat, NEW m \in Nat,
         infos[c].price > 0, infos[c].deposit_note_exchange_rate > 0,
         NoteAmount(taken) <= o.collateral[c],
         NoteAmount(taken)
            <= Div(Div(m, infos[c].price), infos[c].deposit_note_exchange_rate)
  PROVE  LET p == LiquidatedBy(o, s, n, c, taken)
         IN  /\ RepaidValue(infos, s, NoteAmount(n))
                    <= LoanValue(o, infos) - LoanValue(p, infos)
             /\ CollateralValue(o, infos) - CollateralValue(p, infos) <= m + 1
  <1> DEFINE p == LiquidatedBy(o, s, n, c, taken)
             b == SubtractCollateral(o, c, NoteAmount(taken))
             k == o.collateral[c]
             left == SaturatingSub(k, NoteAmount(taken))
  <1>1. s \in Reserves /\ c \in Reserves BY DEF ObligationState
  <1>2. b \in ObligationState BY <1>1, PositionsTyped
  <1>3. p \in ObligationState BY <1>1, <1>2, PositionsTyped DEF LiquidatedBy
  <1>4. /\ b.loans = o.loans /\ b.loan_accounts = o.loan_accounts
        /\ b.collateral_accounts = o.collateral_accounts
        /\ b.collateral[c] = left
        /\ \A r \in Reserves \ {c} : b.collateral[r] = o.collateral[r]
    BY <1>1 DEF SubtractCollateral, ObligationState
  <1>5. /\ p.collateral = b.collateral /\ p.loan_accounts = b.loan_accounts
        /\ p.collateral_accounts = b.collateral_accounts
        /\ p.loans[s] = SaturatingSub(b.loans[s], NoteAmount(n))
        /\ \A r \in Reserves \ {s} : p.loans[r] = b.loans[r]
    <2>1. p = SubtractLoan(b, s, NoteAmount(n)) BY DEF LiquidatedBy
    <2> HIDE DEF b, p
    <2> QED BY <1>1, <1>2, <2>1 DEF SubtractLoan, ObligationState
  <1> HIDE DEF p, b
  <1>6. p.loans[s] = NoteAmount(held - n)
    <2>1. NoteAmount(held) \in Nat BY NoteAmountLinear, Zenon
    <2> QED BY <1>4, <1>5, <2>1, SubtractedAmount
  <1>7. /\ infos[s] \in CachedReserveInfo /\ infos[c] \in CachedReserveInfo
        /\ k \in Nat /\ held - n \in Nat
    BY <1>1 DEF Infos, ObligationState
  <1> DEFINE lrate == infos[s].loan_note_exchange_rate
             lprice == infos[s].price
             drate == infos[c].deposit_note_exchange_rate
             dprice == infos[c].price
             before == NoteValue(k, drate, dprice)
             after == NoteValue(left, drate, dprice)
             owed == NoteValue(NoteAmount(held), lrate, lprice)
             owing == NoteValue(NoteAmount(held - n), lrate, lprice)
             repaid == NoteValue(NoteAmount(n), lrate, lprice)
  <1>8. /\ lrate \in Nat /\ lprice \in Nat
        /\ drate \in Nat \ {0} /\ dprice \in Nat \ {0}
    BY <1>7 DEF CachedReserveInfo
  <1>9. Owed(o, infos)[s] = owed /\ Owed(p, infos)[s] = owing BY <1>1, <1>6 DEF Owed
  <1>10. Pledged(o, infos)[c] = before /\ Pledged(p, infos)[c] = after
    BY <1>1, <1>4, <1>5 DEF Pledged
  <1>11. LoanValue(o, infos) - owed = LoanValue(p, infos) - owing
    <2>1. /\ p.loan_accounts = o.loan_accounts
          /\ \A r \in Reserves \ {s} : p.loans[r] = o.loans[r]
      BY <1>4, <1>5
    <2> QED BY <1>3, <1>9, <2>1, LoanValueChanges
  <1>12. CollateralValue(o, infos) - before = CollateralValue(p, infos) - after
    <2>1. /\ p.collateral_accounts = o.collateral_accounts
          /\ \A r \in Reserves \ {c} : p.collateral[r] = o.collateral[r]
      BY <1>4, <1>5
    <2> QED BY <1>3, <1>10, <2>1, CollateralValueChanges
  <1>13. RepaidValue(infos, s, NoteAmount(n)) = repaid BY DEF RepaidValue
  <1>14. left \in Nat
    <2>1. NoteAmount(taken) \in Nat BY NoteAmountLinear
    <2> QED BY <1>7, <2>1 DEF SaturatingSub
  <1>15. repaid + owing <= owed BY <1>8, LoanRepaid
  <1>16. before <= after + m + 1 BY <1>7, <1>8, PledgeTaken, Zenon
  <1>17. /\ before \in Nat /\ after \in Nat
         /\ owed \in Nat /\ owing \in Nat /\ repaid \in Nat
    <2>1. NoteAmount(held) \in Nat /\ NoteAmount(held - n) \in Nat /\ NoteAmount(n) \in Nat
      BY <1>7, NoteAmountLinear
    <2> QED BY <1>7, <1>8, <1>14, <2>1, NoteValueMonotone, Zenon
  <1>18. /\ LoanValue(o, infos) \in Nat /\ LoanValue(p, infos) \in Nat
         /\ CollateralValue(o, infos) \in Nat /\ CollateralValue(p, infos) \in Nat
    BY <1>3, ValuesNat
  <1> HIDE DEF before, after, owed, owing, repaid
  <1> QED BY <1>11, <1>12, <1>13, <1>15, <1>16, <1>17, <1>18 DEF p

(* The share of the collateral is no more than the share of the loans. *)
LEMMA LiquidateProportional ==
  ASSUME PositionInv, NEW payer \in Users, NEW u \in Users, NEW s \in Reserves,
         NEW c \in Reserves, NEW a \in Amounts, NEW k \in MinCollaterals,
         Liquidate(payer, u, s, c, a, k)
  PROVE  (CollateralLost(u) - 1) * LoanValue(obligation[u], reserve_info)
            <= LoanLost(u) * CollateralValue(obligation[u], reserve_info)
  <1> DEFINE o == obligation[u]
             infos == reserve_info
             n == PayoffNotes(u, s, a)
             taken == CollateralTaken(u, s, c, a)
             v == CollateralValue(o, infos)
             l == LoanValue(o, infos)
             repaid == RepaidValue(infos, s, NoteAmount(n))
             m == MaxCollateralValue(o, infos, s, c, NoteAmount(n))
  <1>1. TypeOK /\ PositionRecorded(u, s) BY DEF PositionInv, AccountingInv
  <1>2. o \in ObligationState /\ infos \in Infos /\ loan_account[s][u] \in Nat
    BY <1>1 DEF TypeOK, Infos
  <1>3. /\ HasLoanNotes(a, infos[s]) /\ CanLiquidate(o, infos, s, c)
        /\ s \in o.loan_accounts /\ c \in o.collateral_accounts
        /\ obligation' = [obligation EXCEPT ![u] =
                              SubtractLoan(SubtractCollateral(o, c, NoteAmount(taken)),
                                           s, NoteAmount(n))]
        /\ UNCHANGED reserve_info
    BY DEF Liquidate, PayOff
  <1>4. obligation'[u] = LiquidatedBy(o, s, n, c, taken)
    BY <1>1, <1>3 DEF TypeOK, LiquidatedBy
  <1>5. n \in Nat /\ n <= loan_account[s][u] BY <1>1, <1>3, PayoffNat
  <1>6. NoteAmount(n) \in Nat BY <1>5, NoteAmountLinear
  <1>7. v \in Nat \ {0} /\ l \in Nat \ {0} BY <1>2, <1>3, ValuesNat DEF CanLiquidate
  <1>8. repaid \in Nat /\ m \in Nat /\ m <= Mul(v, Div(repaid, l))
    BY <1>2, <1>3, <1>6, SellableNat
  <1>9. /\ taken \in Nat
        /\ NoteAmount(taken) <= o.collateral[c]
        /\ NoteAmount(taken)
               <= Div(Div(m, infos[c].price), infos[c].deposit_note_exchange_rate)
    BY <1>1, <1>3, <1>5, <1>8, TakenAtMost
  <1>10. o.loans[s] = NoteAmount(loan_account[s][u]) BY <1>1 DEF PositionRecorded
  <1>11. infos[c].price > 0 /\ infos[c].deposit_note_exchange_rate > 0
    BY <1>3 DEF CanLiquidate
  <1> DEFINE p == LiquidatedBy(o, s, n, c, taken)
             lost == v - CollateralValue(p, infos)
             gone == l - LoanValue(p, infos)
  <1> HIDE DEF n, taken, repaid, m
  <1>12. RepaidValue(infos, s, NoteAmount(n)) <= gone /\ lost <= m + 1
    BY <1>2, <1>3, <1>5, <1>8, <1>9, <1>10, <1>11, LiquidatedValues
  <1>13. repaid <= gone BY <1>12 DEF repaid
  <1>14. p \in ObligationState
    <2>1. SubtractCollateral(o, c, NoteAmount(taken)) \in ObligationState
      BY <1>2, <1>9, PositionsTyped
    <2> QED BY <1>5, <2>1, PositionsTyped DEF LiquidatedBy
  <1>15. gone \in Int /\ lost \in Int BY <1>2, <1>7, <1>14, ValuesNat
  <1>16. CollateralLost(u) = lost /\ LoanLost(u) = gone
    BY <1>3, <1>4 DEF CollateralLost, LoanLost
  <1> HIDE DEF o, infos, v, l, gone, lost, p
  <1>17. gone \in Nat BY <1>8, <1>13, <1>15
  <1>18. m * l <= repaid * v BY <1>7, <1>8, ShareOfTotal
  <1>19. repaid * v <= gone * v /\ repaid * v \in Nat /\ gone * v \in Nat /\ m * l \in Nat
    BY <1>7, <1>8, <1>13, <1>17, Product
  <1>20. (lost - 1) * l <= m * l
    <2>1. CASE lost - 1 \in Nat
      <3>1. lost - 1 <= m BY <1>8, <1>12, <1>15 DEF repaid
      <3> QED BY <1>7, <1>8, <2>1, <3>1, Product
    <2>2. CASE lost - 1 \notin Nat
      <3>1. 1 - lost \in Nat BY <1>15, <2>2
      <3>2. (1 - lost) * l \in Nat BY <1>7, <3>1, Product
      <3>3. (lost - 1) * l = 0 - (1 - lost) * l BY <1>7, <1>15
      <3> QED BY <1>19, <3>2, <3>3
    <2> QED BY <2>1, <2>2
  <1>21. (lost - 1) * l \in Int BY <1>7, <1>15
  <1>22. (lost - 1) * l <= gone * v BY <1>18, <1>19, <1>20, <1>21
  <1> QED BY <1>16, <1>22 DEF o, infos, v, l

(* No other step takes notes out of both sides of an obligation. *)
LEMMA NextProportional ==
  ASSUME PositionInv, [Next]_vars, NEW u \in Users, IsLiquidationOf(u)
  PROVE  (CollateralLost(u) - 1) * LoanValue(obligation[u], reserve_info)
            <= LoanLost(u) * CollateralValue(obligation[u], reserve_info)
  <1>1. TypeOK BY DEF PositionInv, AccountingInv
  <1>2. PICK r \in Reserves, c \in Reserves :
            /\ loan_account'[r][u] < loan_account[r][u]
            /\ collateral_account'[c][u] < collateral_account[c][u]
    BY DEF IsLiquidationOf
  <1>3. loan_account[r][u] \in Nat /\ collateral_account[c][u] \in Nat BY <1>1 DEF TypeOK
  <1>4. loan_account' # loan_account /\ collateral_account' # collateral_account
    BY <1>2, <1>3
  <1>5. UserStep
    <2>1. ASSUME NEW v \in Users, NEW s \in Reserves
          PROVE  /\ InitDepositAccount(v, s) \/ CloseDepositAccount(v, s) =>
                        UNCHANGED loan_account
                 /\ InitCollateralAccount(v, s) \/ CloseCollateralAccount(v, s) =>
                        UNCHANGED loan_account
                 /\ InitLoanAccount(v, s) \/ CloseLoanAccount(v, s) => UNCHANGED loan_account
                 /\ InitObligation(v) \/ CloseObligation(v) => UNCHANGED loan_account
      BY DEF InitDepositAccount, CloseDepositAccount, InitObligation, CloseObligation,
             InitCollateralAccount, CloseCollateralAccount, InitLoanAccount,
             CloseLoanAccount, loan_notes
    <2>2. ~AccountStep BY <1>4, <2>1 DEF AccountStep
    <2>3. ~RefreshStep BY <1>4 DEF RefreshStep, RefreshReserve, loan_notes
    <2>4. ~(Tick \/ OwnerStep \/ UNCHANGED vars)
      BY <1>4 DEF Tick, OwnerStep, SetMarketFlags, UpdateReserveConfig, loan_notes, vars
    <2> QED BY <2>2, <2>3, <2>4 DEF Next
  <1>6. PICK v \in Users, s \in Reserves, a \in Amounts :
            \/ \E w \in Users : Repay(v, w, s, a)
            \/ Borrow(v, s, a)
            \/ \E w \in Users, d \in Reserves, m \in MinCollaterals :
                   Liquidate(v, w, s, d, a, m)
    BY <1>4, <1>5 DEF UserStep, DepositTokens, Withdraw, WithdrawTokens, DepositCollateral,
                      WithdrawCollateral, loan_notes
  <1>7. PICK w \in Users, d \in Reserves, m \in MinCollaterals : Liquidate(v, w, s, d, a, m)
    BY <1>4, <1>6 DEF Repay, Borrow, deposit_notes
  <1>8. w = u
    <2>1. collateral_account' =
              [collateral_account EXCEPT ![d][w] = @ - CollateralTaken(w, s, d, a)]
      BY <1>7 DEF Liquidate
    <2> QED BY <1>1, <1>2, <1>3, <2>1 DEF TypeOK
  <1> QED BY <1>7, <1>8, LiquidateProportional

(* The collateral a liquidator takes is no larger a share of an            *)
(* obligation's collateral than what it repays is of its loans, in every   *)
(* market, at every price and rate: the liquidation bonus never makes a    *)
(* liquidated obligation worse than it was.                                *)
THEOREM LiquidationIsProportional == Spec => LiquidationProportional
  <1>1. PositionInv /\ [Next]_vars =>
            [\A u \in Users :
                IsLiquidationOf(u) =>
                    (CollateralLost(u) - 1) * LoanValue(obligation[u], reserve_info)
                        <= LoanLost(u) * CollateralValue(obligation[u], reserve_info)]_vars
    BY NextProportional
  <1> QED BY <1>1, InitPositions, NextPositions, PTL DEF Spec, LiquidationProportional
=============================================================================
