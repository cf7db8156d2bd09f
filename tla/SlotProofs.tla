----------------------------- MODULE SlotProofs -----------------------------
(***************************************************************************)
(* The arrays of ObligationSlots.tla, for every number of slots, reserves  *)
(* and positions: holes and reused slots never make an account appear      *)
(* twice nor refuse one within the limit, and the arrays implement the     *)
(* sets of Positions.tla.                                                  *)
(***************************************************************************)
EXTENDS ObligationSlots, NumberProofs

(* The parts need each other: a new account is in no slot because those in *)
(* slots are open, and an open one is found because it is in one slot.     *)
SlotInv == TypeOK /\ NoDuplicates /\ RecordedWhileOpen

(* Most actions write one slot.                                            *)
Written(side, i, p) ==
    /\ positions' \in [Side -> [Slots -> Position]]
    /\ \A t \in Side, j \in Slots :
           positions'[t][j] = IF t = side /\ j = i THEN p ELSE positions[t][j]

LEMMA WriteSlot ==
  ASSUME TypeOK, NEW side \in Side, NEW i \in Slots, NEW p \in Position,
         positions' = [positions EXCEPT ![side][i] = p]
  PROVE  Written(side, i, p)
  <1>1. positions \in [Side -> [Slots -> Position]] BY DEF TypeOK
  <1>2. positions' = [positions EXCEPT ![side] = [positions[side] EXCEPT ![i] = p]]
    BY <1>1
  <1>3. [positions[side] EXCEPT ![i] = p] \in [Slots -> Position] BY <1>1
  <1>4. positions' \in [Side -> [Slots -> Position]] BY <1>1, <1>2, <1>3
  <1> QED BY <1>1, <1>2, <1>4 DEF Written

LEMMA SlotOf ==
  ASSUME TypeOK, NEW side \in Side, NEW i \in Slots
  PROVE  /\ positions[side][i] \in Position
         /\ positions[side][i].account \in Reserves \union {Unused}
         /\ positions[side][i].amount \in Nat
  BY DEF TypeOK, Position

(* The open accounts are those in slots. *)
LEMMA InSlots ==
  ASSUME SlotInv, NEW side \in Side
  PROVE  \A x : x \in open[side] <=>
             x # Unused /\ \E i \in Slots : positions[side][i].account = x
  <1>1. Accounts(side) = open[side] BY DEF SlotInv, RecordedWhileOpen
  <1>2. \A x : x \in Accounts(side) <=>
            x # Unused /\ \E i \in Slots : positions[side][i].account = x
    BY DEF Accounts, Slots
  <1> QED BY <1>1, <1>2

-----------------------------------------------------------------------------
(* What each action writes.                                                *)

LEMMA RegisterWrites ==
  ASSUME SlotInv, NEW side \in Side, NEW r \in Reserves, RegisterPosition(side, r)
  PROVE  /\ open' = [open EXCEPT ![side] = @ \union {r}]
         /\ \E i \in Slots : positions[side][i].account = Unused
                             /\ Written(side, i, NewPosition(r))
  <1>1. NewPosition(r) \in Position BY DEF NewPosition, Position
  <1>2. PICK i \in Slots : /\ Finds(side, i, Unused)
                           /\ positions' = [positions EXCEPT ![side][i] = NewPosition(r)]
    BY DEF RegisterPosition, TakesSlot
  <1>3. Written(side, i, NewPosition(r)) BY <1>1, <1>2, WriteSlot DEF SlotInv
  <1> QED BY <1>2, <1>3 DEF RegisterPosition, Finds

LEMMA UnregisterWrites ==
  ASSUME SlotInv, NEW side \in Side, NEW r \in Reserves, UnregisterPosition(side, r)
  PROVE  /\ open' = [open EXCEPT ![side] = @ \ {r}]
         /\ \E i \in Slots :
                /\ positions[side][i].account = r /\ positions[side][i].amount = 0
                /\ Written(side, i, [positions[side][i] EXCEPT !.account = Unused])
  <1>1. PICK i \in Slots : /\ Finds(side, i, r) /\ positions[side][i].amount = 0
                           /\ positions' = [positions EXCEPT ![side][i].account = Unused]
    BY DEF UnregisterPosition
  <1> DEFINE p == [positions[side][i] EXCEPT !.account = Unused]
  <1>2. positions[side][i] \in Position BY SlotOf DEF SlotInv
  <1>3. p \in Position BY <1>2 DEF Position
  <1>4. positions' = [positions EXCEPT ![side][i] = p] BY <1>1
  <1>5. Written(side, i, p) BY <1>3, <1>4, WriteSlot DEF SlotInv
  <1> QED BY <1>1, <1>5 DEF UnregisterPosition, Finds

(* An amount changes in the slot of its account, and only there. *)
AmountWritten(side, r, amount) ==
    /\ open' = open
    /\ \E i \in Slots :
           /\ positions[side][i].account = r
           /\ Written(side, i, [positions[side][i] EXCEPT !.amount = amount])

LEMMA AddWrites ==
  ASSUME SlotInv, NEW side \in Side, NEW r \in Reserves, NEW amount \in NoteAmounts,
         AddPosition(side, r, amount)
  PROVE  \E i \in Slots :
            /\ positions[side][i].account = r
            /\ AmountWritten(side, r, positions[side][i].amount + amount)
            /\ positions[side][i].amount + amount \in Nat
  <1>1. PICK i \in Slots :
            /\ Finds(side, i, r)
            /\ positions' = [positions EXCEPT ![side][i].amount = @ + amount]
    BY DEF AddPosition
  <1> DEFINE p == [positions[side][i] EXCEPT !.amount = positions[side][i].amount + amount]
  <1>2. positions[side][i] \in Position /\ positions[side][i].amount \in Nat
    BY SlotOf DEF SlotInv
  <1>3. positions[side][i].amount + amount \in Nat BY <1>2, SlotAmountsAssumption
  <1>4. p \in Position BY <1>2, <1>3 DEF Position
  <1>5. positions' = [positions EXCEPT ![side][i] = p] BY <1>1
  <1>6. Written(side, i, p) BY <1>4, <1>5, WriteSlot DEF SlotInv
  <1> QED BY <1>1, <1>3, <1>6 DEF AddPosition, AmountWritten, Finds

LEMMA SubtractWrites ==
  ASSUME SlotInv, NEW side \in Side, NEW r \in Reserves, NEW amount \in NoteAmounts,
         SubtractPosition(side, r, amount)
  PROVE  \E i \in Slots :
            /\ positions[side][i].account = r
            /\ AmountWritten(side, r, SaturatingSub(positions[side][i].amount, amount))
            /\ SaturatingSub(positions[side][i].amount, amount) \in Nat
  <1>1. PICK i \in Slots :
            /\ Finds(side, i, r)
            /\ positions' =
                   [positions EXCEPT ![side][i].amount = SaturatingSub(@, amount)]
    BY DEF SubtractPosition
  <1> DEFINE n == SaturatingSub(positions[side][i].amount, amount)
             p == [positions[side][i] EXCEPT !.amount = n]
  <1>2. positions[side][i] \in Position /\ positions[side][i].amount \in Nat
    BY SlotOf DEF SlotInv
  <1>3. n \in Nat BY <1>2, SlotAmountsAssumption DEF SaturatingSub
  <1>4. p \in Position BY <1>2, <1>3 DEF Position
  <1>5. positions' = [positions EXCEPT ![side][i] = p] BY <1>1
  <1>6. Written(side, i, p) BY <1>4, <1>5, WriteSlot DEF SlotInv
  <1> QED BY <1>1, <1>3, <1>6 DEF SubtractPosition, AmountWritten, Finds

-----------------------------------------------------------------------------
(* The invariant.                                                          *)

LEMMA InitInv == Init => SlotInv
  <1> SUFFICES ASSUME Init PROVE SlotInv OBVIOUS
  <1> DEFINE zero == [account |-> Unused, reserve_index |-> Unused, amount |-> 0]
  <1>1. positions = [s \in Side |-> [i \in Slots |-> zero]] /\ open = [s \in Side |-> {}]
    BY DEF Init, ZeroedPositions
  <1>2. zero \in Position BY DEF Position
  <1> HIDE DEF zero
  <1>3. \A s \in Side, i \in Slots : positions[s][i] = zero BY <1>1
  <1>4. zero.account = Unused BY DEF zero
  <1>5. TypeOK BY <1>1, <1>2 DEF TypeOK
  <1>6. NoDuplicates BY <1>3, <1>4 DEF NoDuplicates
  <1>7. ASSUME NEW s \in Side PROVE Accounts(s) = open[s] /\ Occupied(s) = {}
    BY <1>1, <1>3, <1>4 DEF Accounts, Occupied
  <1>8. RecordedWhileOpen BY <1>7 DEF RecordedWhileOpen
  <1> QED BY <1>5, <1>6, <1>8 DEF SlotInv

(* Position p in slot i of a side, of which `others` are open then: the     *)
(* accounts of a side change as `open` does.                               *)
Fits(side, i, p, others) ==
    /\ Written(side, i, p)
    /\ open' = [open EXCEPT ![side] = others]
    /\ p.account # Unused => p.reserve_index = p.account
    /\ \A j \in Slots \ {i} :
           positions[side][j].account # p.account \/ p.account = Unused
    /\ \A x : x \in others <=>
           /\ x # Unused
           /\ x = p.account \/ \E j \in Slots \ {i} : positions[side][j].account = x

LEMMA FitsInv ==
  ASSUME SlotInv, NEW side \in Side, NEW i \in Slots, NEW p \in Position,
         NEW others \in SUBSET Reserves, Fits(side, i, p, others)
  PROVE  SlotInv'
  <1> USE DEF Fits
  <1>1. open \in [Side -> SUBSET Reserves] BY DEF SlotInv, TypeOK
  <1>2. \A t \in Side : open'[t] = IF t = side THEN others ELSE open[t] BY <1>1
  <1>3. \A t \in Side, j \in Slots :
            positions'[t][j] = IF t = side /\ j = i THEN p ELSE positions[t][j]
    BY DEF Written
  <1>4. TypeOK' BY <1>1 DEF TypeOK, Written
  <1>5. NoDuplicates'
    <2> SUFFICES ASSUME NEW t \in Side, NEW j \in Slots, NEW k \in Slots,
                        positions'[t][j].account = positions'[t][k].account,
                        positions'[t][j].account # Unused
                 PROVE  j = k
      BY DEF NoDuplicates, Slots
    <2>1. CASE t # side \/ (j # i /\ k # i)
      BY <1>3, <2>1 DEF SlotInv, NoDuplicates
    <2>2. CASE t = side /\ (j = i \/ k = i) BY <1>3, <2>2
    <2> QED BY <2>1, <2>2
  <1>6. ASSUME NEW t \in Side PROVE Accounts(t)' = open'[t]
    <2>1. CASE t # side
      <3>1. Accounts(t)' = Accounts(t) BY <1>3, <2>1 DEF Accounts
      <3> QED BY <1>2, <2>1, <3>1 DEF SlotInv, RecordedWhileOpen
    <2>2. CASE t = side
      <3>1. \A x : x \in Accounts(t)' <=>
                x # Unused /\ \E j \in Slots : positions'[t][j].account = x
        BY DEF Accounts, Slots
      <3>2. \A x : x \in Accounts(t)' <=> x \in others BY <1>3, <2>2, <3>1
      <3>3. Accounts(t)' = others BY <3>2
      <3> QED BY <1>2, <2>2, <3>3
    <2> QED BY <2>1, <2>2
  <1>7. ASSUME NEW t \in Side, NEW j \in Slots, positions'[t][j].account # Unused
        PROVE  positions'[t][j].reserve_index = positions'[t][j].account
    BY <1>3, <1>7 DEF SlotInv, RecordedWhileOpen, Occupied
  <1>8. RecordedWhileOpen' BY <1>6, <1>7 DEF RecordedWhileOpen, Occupied, Slots
  <1> QED BY <1>4, <1>5, <1>8 DEF SlotInv

LEMMA RegisterInv ==
  ASSUME SlotInv, NEW side \in Side, NEW r \in Reserves, RegisterPosition(side, r)
  PROVE  SlotInv'
  <1>1. PICK i \in Slots : positions[side][i].account = Unused
                           /\ Written(side, i, NewPosition(r))
    BY RegisterWrites
  <1> DEFINE p == NewPosition(r)
  <1>2. p \in Position /\ p.account = r /\ p.reserve_index = r /\ r # Unused
    BY UnusedAssumption DEF NewPosition, Position
  <1>3. r \notin open[side] /\ open \in [Side -> SUBSET Reserves]
    BY DEF RegisterPosition, SlotInv, TypeOK
  <1>4. \A j \in Slots : positions[side][j].account # r BY <1>2, <1>3, InSlots
  <1>5. open' = [open EXCEPT ![side] = open[side] \union {r}] BY RegisterWrites
  <1>6. \A x : x \in open[side] \union {r} <=>
            /\ x # Unused
            /\ x = p.account \/ \E j \in Slots \ {i} : positions[side][j].account = x
    <2>1. \A x : x \in open[side] <=>
              x # Unused /\ \E j \in Slots : positions[side][j].account = x
      BY InSlots
    <2> QED BY <1>1, <1>2, <2>1
  <1> HIDE DEF p
  <1>7. Written(side, i, p) BY <1>1 DEF p
  <1>8. open[side] \union {r} \in SUBSET Reserves BY <1>3
  <1>9. Fits(side, i, p, open[side] \union {r})
    BY <1>2, <1>4, <1>5, <1>6, <1>7 DEF Fits
  <1> QED BY <1>2, <1>8, <1>9, FitsInv

LEMMA UnregisterInv ==
  ASSUME SlotInv, NEW side \in Side, NEW r \in Reserves, UnregisterPosition(side, r)
  PROVE  SlotInv'
  <1>1. PICK i \in Slots :
            /\ positions[side][i].account = r
            /\ Written(side, i, [positions[side][i] EXCEPT !.account = Unused])
    BY UnregisterWrites
  <1> DEFINE p == [positions[side][i] EXCEPT !.account = Unused]
  <1>2. positions[side][i] \in Position BY SlotOf DEF SlotInv
  <1>3. p \in Position /\ p.account = Unused BY <1>2 DEF Position
  <1>4. open' = [open EXCEPT ![side] = open[side] \ {r}] BY UnregisterWrites
  <1>5. open[side] \ {r} \in SUBSET Reserves BY DEF SlotInv, TypeOK
  <1>6. \A x : x \in open[side] \ {r} <=>
            /\ x # Unused
            /\ x = Unused \/ \E j \in Slots \ {i} : positions[side][j].account = x
    <2>1. \A x : x \in open[side] <=>
              x # Unused /\ \E j \in Slots : positions[side][j].account = x
      BY InSlots
    <2>2. \A j \in Slots : positions[side][j].account = r => j = i
      BY <1>1, UnusedAssumption DEF SlotInv, NoDuplicates
    <2> QED BY <1>1, <2>1, <2>2
  <1>7. Written(side, i, p) BY <1>1
  <1> HIDE DEF p
  <1>8. Fits(side, i, p, open[side] \ {r})
    BY <1>3, <1>4, <1>6, <1>7 DEF Fits
  <1> QED BY <1>3, <1>5, <1>8, FitsInv

LEMMA AmountInv ==
  ASSUME SlotInv, NEW side \in Side, NEW r \in Reserves, NEW amount \in Nat,
         AmountWritten(side, r, amount)
  PROVE  SlotInv'
  <1>1. PICK i \in Slots :
            /\ positions[side][i].account = r
            /\ Written(side, i, [positions[side][i] EXCEPT !.amount = amount])
    BY DEF AmountWritten
  <1> DEFINE p == [positions[side][i] EXCEPT !.amount = amount]
  <1>2. positions[side][i] \in Position BY SlotOf DEF SlotInv
  <1>3. /\ p \in Position /\ p.account = r
        /\ p.reserve_index = positions[side][i].reserve_index
    BY <1>1, <1>2 DEF Position
  <1>4. r # Unused /\ p.reserve_index = r
    BY <1>1, <1>3, UnusedAssumption DEF SlotInv, RecordedWhileOpen, Occupied
  <1>5. open[side] \in SUBSET Reserves /\ open' = [open EXCEPT ![side] = open[side]]
    BY DEF SlotInv, TypeOK, AmountWritten
  <1>6. \A j \in Slots \ {i} : positions[side][j].account # r
    BY <1>1, <1>4 DEF SlotInv, NoDuplicates
  <1>7. \A x : x \in open[side] <=>
            /\ x # Unused
            /\ x = r \/ \E j \in Slots \ {i} : positions[side][j].account = x
    <2>1. \A x : x \in open[side] <=>
              x # Unused /\ \E j \in Slots : positions[side][j].account = x
      BY InSlots
    <2> QED BY <1>1, <1>4, <2>1
  <1>8. Written(side, i, p) BY <1>1
  <1> HIDE DEF p
  <1>9. Fits(side, i, p, open[side])
    BY <1>3, <1>4, <1>5, <1>6, <1>7, <1>8 DEF Fits
  <1> QED BY <1>3, <1>5, <1>9, FitsInv

(* A step that changes nothing but amounts. *)
LEMMA SameAccountsInv ==
  ASSUME SlotInv, open' = open, positions' \in [Side -> [Slots -> Position]],
         \A t \in Side, j \in Slots :
             /\ positions'[t][j].account = positions[t][j].account
             /\ positions'[t][j].reserve_index = positions[t][j].reserve_index
  PROVE  SlotInv'
  <1>1. TypeOK' BY DEF SlotInv, TypeOK
  <1>2. NoDuplicates' BY DEF SlotInv, NoDuplicates, Slots
  <1>3. ASSUME NEW t \in Side PROVE Accounts(t)' = Accounts(t) /\ Occupied(t)' = Occupied(t)
    BY DEF Accounts, Occupied, Slots
  <1>4. RecordedWhileOpen'
    <2>1. \A t \in Side : \A i \in Occupied(t) : i \in Slots BY DEF Occupied
    <2> QED BY <1>3, <2>1 DEF SlotInv, RecordedWhileOpen, Slots
  <1> QED BY <1>1, <1>2, <1>4 DEF SlotInv

(* A liquidation writes the amounts of a slot on each side. *)
Reduced(position, amount) == [position EXCEPT !.amount = SaturatingSub(@, amount)]

BothWritten(c, r, taken, repaid, i, j) ==
    /\ positions["Collateral"][i].account = c
    /\ positions["Loan"][j].account = r
    /\ \A t \in Side, k \in Slots : positions'[t][k] =
           IF t = "Collateral" /\ k = i THEN Reduced(positions[t][k], taken)
           ELSE IF t = "Loan" /\ k = j THEN Reduced(positions[t][k], repaid)
           ELSE positions[t][k]

LEMMA LiquidateWrites ==
  ASSUME SlotInv, NEW c \in Reserves, NEW r \in Reserves,
         NEW taken \in NoteAmounts, NEW repaid \in NoteAmounts,
         LiquidatePositions(c, r, taken, repaid)
  PROVE  /\ open' = open /\ positions' \in [Side -> [Slots -> Position]]
         /\ \E i, j \in Slots : BothWritten(c, r, taken, repaid, i, j)
  <1>1. PICK i \in Slots, j \in Slots :
            /\ Finds("Collateral", i, c) /\ Finds("Loan", j, r)
            /\ positions' = [positions EXCEPT
                   !["Collateral"][i].amount = SaturatingSub(@, taken),
                   !["Loan"][j].amount = SaturatingSub(@, repaid)]
    BY DEF LiquidatePositions
  <1> DEFINE p == [positions["Collateral"][i] EXCEPT !.amount = SaturatingSub(@, taken)]
             q == [positions["Loan"][j] EXCEPT !.amount = SaturatingSub(@, repaid)]
  <1>2. "Collateral" \in Side /\ "Loan" \in Side BY DEF Side
  <1>3. positions["Collateral"][i] \in Position /\ positions["Loan"][j] \in Position
    BY <1>2, SlotOf DEF SlotInv
  <1>4. p \in Position /\ q \in Position
    BY <1>3, SlotAmountsAssumption DEF Position, SaturatingSub
  <1>5. positions \in [Side -> [Slots -> Position]] BY DEF SlotInv, TypeOK
  <1>6. positions' = [positions EXCEPT
            !["Collateral"] = [positions["Collateral"] EXCEPT ![i] = p],
            !["Loan"] = [positions["Loan"] EXCEPT ![j] = q]]
    BY <1>1, <1>2, <1>5
  <1> HIDE DEF p, q
  <1>7. positions' \in [Side -> [Slots -> Position]] BY <1>4, <1>5, <1>6
  <1>8. \A t \in Side, k \in Slots : positions'[t][k] =
            IF t = "Collateral" /\ k = i THEN p
            ELSE IF t = "Loan" /\ k = j THEN q ELSE positions[t][k]
    BY <1>2, <1>5, <1>6
  <1>9. p = Reduced(positions["Collateral"][i], taken)
        /\ q = Reduced(positions["Loan"][j], repaid)
    BY DEF p, q, Reduced
  <1>10. BothWritten(c, r, taken, repaid, i, j)
    <2>1. positions["Collateral"][i].account = c /\ positions["Loan"][j].account = r
      BY <1>1 DEF Finds
    <2>2. ASSUME NEW t \in Side, NEW k \in Slots
          PROVE  positions'[t][k] =
                     IF t = "Collateral" /\ k = i THEN Reduced(positions[t][k], taken)
                     ELSE IF t = "Loan" /\ k = j THEN Reduced(positions[t][k], repaid)
                     ELSE positions[t][k]
      BY <1>8, <1>9
    <2> QED BY <2>1, <2>2 DEF BothWritten
  <1>11. open' = open BY DEF LiquidatePositions
  <1> QED BY <1>7, <1>10, <1>11

(* It writes amounts only, *)
LEMMA LiquidateAccounts ==
  ASSUME SlotInv, NEW c \in Reserves, NEW r \in Reserves,
         NEW taken \in NoteAmounts, NEW repaid \in NoteAmounts,
         LiquidatePositions(c, r, taken, repaid)
  PROVE  \A t \in Side, k \in Slots :
            /\ positions'[t][k].account = positions[t][k].account
            /\ positions'[t][k].reserve_index = positions[t][k].reserve_index
  <1>1. ASSUME NEW t \in Side, NEW k \in Slots
        PROVE  /\ positions'[t][k].account = positions[t][k].account
               /\ positions'[t][k].reserve_index = positions[t][k].reserve_index
    <2>1. positions[t][k] \in Position BY SlotOf DEF SlotInv
    <2>2. \A n : /\ Reduced(positions[t][k], n).account = positions[t][k].account
                 /\ Reduced(positions[t][k], n).reserve_index
                        = positions[t][k].reserve_index
      BY <2>1 DEF Position, Reduced
    <2>3. PICK i \in Slots, j \in Slots : BothWritten(c, r, taken, repaid, i, j)
      BY LiquidateWrites
    <2>4. positions'[t][k] \in {Reduced(positions[t][k], taken),
                                Reduced(positions[t][k], repaid), positions[t][k]}
      BY <2>3 DEF BothWritten
    <2> QED BY <2>2, <2>4
  <1> QED BY <1>1

(* and so keeps the invariant. *)
LEMMA LiquidateInv ==
  ASSUME SlotInv, NEW c \in Reserves, NEW r \in Reserves,
         NEW taken \in NoteAmounts, NEW repaid \in NoteAmounts,
         LiquidatePositions(c, r, taken, repaid)
  PROVE  SlotInv'
  BY LiquidateAccounts, LiquidateWrites, SameAccountsInv

(* No slot is in use exactly when no account is open. *)
LEMMA NoneInUse ==
  ASSUME SlotInv
  PROVE  SlotsInUse = 0 <=> \A t \in Side : open[t] = {}
  <1>1. ASSUME NEW t \in Side
        PROVE  /\ Cardinality(Occupied(t)) \in Nat
               /\ Cardinality(Occupied(t)) = 0 <=> open[t] = {}
    <2>1. IsFiniteSet(Occupied(t))
      <3>1. IsFiniteSet(1..SlotCount) BY FS_Interval, SlotCountAssumption
      <3> QED BY <3>1, FS_Subset DEF Occupied, Slots
    <2>2. Occupied(t) = {} <=> \A i \in Slots : positions[t][i].account = Unused
      BY DEF Occupied
    <2>3. \A x : x \in open[t] <=>
              x # Unused /\ \E i \in Slots : positions[t][i].account = x
      BY InSlots
    <2>4. (\A i \in Slots : positions[t][i].account = Unused) <=> open[t] = {}
      BY <2>3
    <2> QED BY <2>1, <2>2, <2>4, FS_CardinalityType, FS_EmptySet
  <1> QED BY <1>1 DEF SlotsInUse, Side

(* A new obligation account is all zeroes, and no account was open. *)
LEMMA RenewInv ==
  ASSUME SlotInv, RenewObligation
  PROVE  SlotInv' /\ \A t \in Side : open[t] = {} /\ open'[t] = {}
  <1> DEFINE zero == [account |-> Unused, reserve_index |-> Unused, amount |-> 0]
  <1>1. zero \in Position BY DEF Position
  <1>2. positions' = [s \in Side |-> [i \in Slots |-> zero]]
    BY DEF RenewObligation, ZeroedPositions
  <1>3. zero.account = Unused OBVIOUS
  <1> HIDE DEF zero
  <1>4. \A s \in Side, i \in Slots : positions'[s][i] = zero BY <1>2
  <1>5. \A t \in Side : open[t] = {} /\ open'[t] = {}
    BY NoneInUse DEF RenewObligation
  <1>6. TypeOK' BY <1>1, <1>2 DEF TypeOK, RenewObligation, SlotInv
  <1>7. NoDuplicates' BY <1>3, <1>4 DEF NoDuplicates, Slots
  <1>8. ASSUME NEW s \in Side PROVE Accounts(s)' = open'[s] /\ Occupied(s)' = {}
    BY <1>3, <1>4, <1>5 DEF Accounts, Occupied, Slots
  <1>9. RecordedWhileOpen' BY <1>8 DEF RecordedWhileOpen
  <1> QED BY <1>5, <1>6, <1>7, <1>9 DEF SlotInv

LEMMA NextInv == SlotInv /\ [Next]_vars => SlotInv'
  <1> SUFFICES ASSUME SlotInv, [Next]_vars PROVE SlotInv' OBVIOUS
  <1>1. CASE UNCHANGED vars
    BY <1>1 DEF vars, SlotInv, TypeOK, NoDuplicates, RecordedWhileOpen, Accounts, Occupied,
                Slots, Side, Position
  <1>2. ASSUME NEW side \in Side, NEW r \in Reserves,
               RegisterPosition(side, r) \/ UnregisterPosition(side, r)
        PROVE  SlotInv'
    BY <1>2, RegisterInv, UnregisterInv
  <1>3. ASSUME NEW side \in Side, NEW r \in Reserves, NEW amount \in NoteAmounts,
               AddPosition(side, r, amount)
        PROVE  SlotInv'
    BY <1>3, AddWrites, AmountInv
  <1>4. ASSUME NEW side \in Side, NEW r \in Reserves, NEW amount \in NoteAmounts,
               SubtractPosition(side, r, amount)
        PROVE  SlotInv'
    BY <1>4, SubtractWrites, AmountInv
  <1> QED BY <1>1, <1>2, <1>3, <1>4, RenewInv, LiquidateInv DEF Next

LEMMA SlotInvariant == Spec => []SlotInv
  BY InitInv, NextInv, PTL DEF Spec

(* Slots keep their types; no amount goes below zero. *)
THEOREM SlotsTyped == Spec => []TypeOK
  <1>1. SlotInv => TypeOK BY DEF SlotInv
  <1> QED BY <1>1, SlotInvariant, PTL

(* ObligationSide::register stops its search for duplicates at the first   *)
(* hole, and still no account is ever in two slots.                        *)
THEOREM NoAccountTwice == Spec => []NoDuplicates
  <1>1. SlotInv => NoDuplicates BY DEF SlotInv
  <1> QED BY <1>1, SlotInvariant, PTL

(* Positions record the token accounts that exist, under their reserves.   *)
THEOREM RecordsWhatIsOpen == Spec => []RecordedWhileOpen
  <1>1. SlotInv => RecordedWhileOpen BY DEF SlotInv
  <1> QED BY <1>1, SlotInvariant, PTL

(* With fewer slots in use than there are on a side, one of them is free,  *)
(* and one of the free ones is first.                                      *)
LEMMA FirstFree ==
  ASSUME SlotInv, SlotsInUse < MaxPositions, NEW side \in Side
  PROVE  \E i \in Slots : Finds(side, i, Unused)
  <1> DEFINE free == {i \in Slots : positions[side][i].account = Unused}
             back == {SlotCount - i : i \in free}
  <1>1. IsFiniteSet(Slots) /\ Cardinality(Slots) = SlotCount
    BY FS_Interval, SlotCountAssumption DEF Slots
  <1>2. ASSUME NEW t \in Side
        PROVE  IsFiniteSet(Occupied(t)) /\ Cardinality(Occupied(t)) \in Nat
    <2>1. IsFiniteSet(Occupied(t)) BY <1>1, FS_Subset DEF Occupied
    <2> QED BY <2>1, FS_CardinalityType
  <1>3. Cardinality(Occupied(side)) < SlotCount
    BY <1>2, SlotCountAssumption, MaxPositionsAssumption DEF SlotsInUse, Side
  <1>4. Occupied(side) # Slots BY <1>1, <1>3, SlotCountAssumption
  <1>5. free # {} BY <1>4 DEF Occupied
  <1>6. IsFiniteSet(0..SlotCount) BY FS_Interval, SlotCountAssumption
  <1>7. back \subseteq 0..SlotCount BY SlotCountAssumption DEF Slots
  <1>8. IsFiniteSet(back) /\ back \subseteq Nat /\ back # {}
    <2>1. back # {} BY <1>5
    <2> HIDE DEF back
    <2>2. IsFiniteSet(back) BY <1>6, <1>7, FS_Subset
    <2> QED BY <1>7, <2>1, <2>2
  <1>9. Max(back) \in back /\ \A y \in back : Max(back) >= y BY <1>8, Largest
  <1>10. PICK i \in free : Max(back) = SlotCount - i BY <1>9
  <1>11. \A j \in free : SlotCount - i >= SlotCount - j BY <1>9, <1>10
  <1>12. \A j \in 1..(i - 1) : j \in Slots /\ j \notin free
    BY <1>11, SlotCountAssumption DEF Slots
  <1> QED BY <1>10, <1>12 DEF Finds

(* The arrays have room for what the limit allows, whatever holes closed   *)
(* positions left: register fails neither for want of a slot nor on a      *)
(* reserve it meets on the way.                                            *)
THEOREM RegistrationAlwaysSucceeds == Spec => []RegistrationSucceeds
  <1>1. SlotInv => RegistrationSucceeds
    <2> SUFFICES ASSUME SlotInv, SlotsInUse < MaxPositions, NEW side \in Side,
                        NEW r \in Reserves \ open[side]
                 PROVE  \E i \in Slots : TakesSlot(side, i, r)
      BY DEF RegistrationSucceeds
    <2>1. PICK i \in Slots : Finds(side, i, Unused) BY FirstFree
    <2>2. ASSUME NEW j \in 1..(i - 1) PROVE positions[side][j].reserve_index # r
      <3>1. j \in Slots BY SlotCountAssumption DEF Slots
      <3>2. positions[side][j].account # Unused BY <2>1 DEF Finds
      <3>3. positions[side][j].account \in open[side] BY <3>1, <3>2, InSlots
      <3>4. positions[side][j].reserve_index = positions[side][j].account
        BY <3>1, <3>2 DEF SlotInv, RecordedWhileOpen, Occupied
      <3> QED BY <3>3, <3>4
    <2> QED BY <2>1, <2>2 DEF TakesSlot
  <1> QED BY <1>1, SlotInvariant, PTL
-----------------------------------------------------------------------------
(* The refinement.                                                         *)

(* The slot an amount is read from is the one with its account. *)
LEMMA AmountFound ==
  ASSUME SlotInv, NEW side \in Side, NEW i \in Slots, NEW r \in Reserves,
         positions[side][i].account = r
  PROVE  AmountOf(side, r) = positions[side][i].amount
  <1>1. r # Unused BY UnusedAssumption
  <1>2. \A j \in Slots : positions[side][j].account = r => j = i
    BY <1>1 DEF SlotInv, NoDuplicates
  <1>3. \A j \in 1..(i - 1) : j \in Slots /\ j # i BY SlotCountAssumption DEF Slots
  <1>4. \A j \in Slots : Finds(side, j, r) <=> j = i BY <1>2, <1>3 DEF Finds
  <1>5. (CHOOSE j \in Slots : Finds(side, j, r)) = i BY <1>4
  <1>6. r \in Accounts(side) BY <1>1 DEF Accounts
  <1> QED BY <1>5, <1>6 DEF AmountOf

LEMMA AmountFoundNext ==
  ASSUME SlotInv', NEW side \in Side, NEW i \in Slots, NEW r \in Reserves,
         positions'[side][i].account = r
  PROVE  AmountOf(side, r)' = positions'[side][i].amount
  <1>1. r # Unused BY UnusedAssumption
  <1>2. \A j \in Slots : positions'[side][j].account = r => j = i
    BY <1>1 DEF SlotInv, NoDuplicates, Slots
  <1>3. \A j \in 1..(i - 1) : j \in Slots /\ j # i BY SlotCountAssumption DEF Slots
  <1>4. \A j \in Slots : Finds(side, j, r)' <=> j = i BY <1>2, <1>3 DEF Finds
  <1>5. (CHOOSE j \in Slots : Finds(side, j, r)') = i BY <1>4
  <1>6. r \in Accounts(side)' BY <1>1 DEF Accounts, Slots
  <1> QED BY <1>5, <1>6 DEF AmountOf, Slots

LEMMA NotFound ==
  ASSUME NEW side \in Side, NEW r
  PROVE  /\ (\A i \in Slots : positions[side][i].account # r) => AmountOf(side, r) = 0
         /\ (\A i \in Slots : positions'[side][i].account # r) => AmountOf(side, r)' = 0
  BY DEF AmountOf, Accounts, Slots

(* What a written slot does to the amounts the record states. *)
LEMMA WrittenAmounts ==
  ASSUME SlotInv, SlotInv', NEW side \in Side, NEW i \in Slots, NEW p,
         Written(side, i, p), NEW t \in Side, NEW x \in Reserves
  PROVE  AmountOf(t, x)' =
             IF t = side /\ x = p.account THEN p.amount
             ELSE IF t = side /\ x = positions[side][i].account THEN 0
             ELSE AmountOf(t, x)
  <1>1. \A s \in Side, j \in Slots :
            positions'[s][j] = IF s = side /\ j = i THEN p ELSE positions[s][j]
    BY DEF Written
  <1>2. CASE t = side /\ x = p.account
    <2>1. positions'[t][i] = p BY <1>1, <1>2
    <2> QED BY <1>2, <2>1, AmountFoundNext
  <1>3. CASE t = side /\ x # p.account /\ x = positions[side][i].account
    <2>1. \A j \in Slots : positions[side][j].account = x => j = i
      BY <1>3, UnusedAssumption DEF SlotInv, NoDuplicates
    <2>2. \A j \in Slots : positions'[side][j].account # x BY <1>1, <1>3, <2>1
    <2> QED BY <1>3, <2>2, NotFound
  <1>4. CASE ~(t = side /\ (x = p.account \/ x = positions[side][i].account))
    <2>1. CASE \E j \in Slots : positions[t][j].account = x
      <3>1. PICK j \in Slots : positions[t][j].account = x BY <2>1
      <3>2. positions'[t][j] = positions[t][j] BY <1>1, <1>4, <3>1
      <3>3. /\ AmountOf(t, x) = positions[t][j].amount
            /\ AmountOf(t, x)' = positions'[t][j].amount
        BY <3>1, <3>2, AmountFound, AmountFoundNext
      <3> QED BY <1>4, <3>2, <3>3
    <2>2. CASE \A j \in Slots : positions[t][j].account # x
      <3>1. \A j \in Slots : positions'[t][j].account # x BY <1>1, <1>4, <2>2
      <3> QED BY <1>4, <2>2, <3>1, NotFound
    <2> QED BY <2>1, <2>2
  <1> QED BY <1>2, <1>3, <1>4

(* register counts slots in use, Positions.tla registered accounts. *)
LEMMA SlotsCountAccounts ==
  ASSUME SlotInv
  PROVE  SlotsInUse = PositionCount(Recorded)
  <1>1. ASSUME NEW side \in Side
        PROVE  Cardinality(Occupied(side)) = Cardinality(Accounts(side))
    <2> DEFINE S == Occupied(side)
               T == Accounts(side)
               f == [i \in S |-> positions[side][i].account]
    <2>1. IsFiniteSet(S)
      <3>1. IsFiniteSet(1..SlotCount) BY FS_Interval, SlotCountAssumption
      <3> QED BY <3>1, FS_Subset DEF Occupied, Slots
    <2>2. f \in [S -> T] BY DEF Occupied, Accounts
    <2>3. \A i, j \in S : f[i] = f[j] => i = j
      BY DEF Occupied, SlotInv, NoDuplicates
    <2>4. \A x \in T : \E i \in S : f[i] = x BY DEF Occupied, Accounts
    <2> HIDE DEF f
    <2>5. f \in Bijection(S, T) BY <2>2, <2>3, <2>4 DEF Bijection, Injection, Surjection, IsInjective
    <2> QED BY <2>1, <2>5, FS_Bijection DEF ExistsBijection
  <1> QED BY <1>1 DEF SlotsInUse, PositionCount, Recorded, Side

(* Positions.tla counts as this module does. *)
LEMMA SameCount == \A o : P!PositionCount(o) = PositionCount(o)
  BY DEF P!PositionCount, PositionCount, P!Cardinality, Cardinality

(* The record as a function of the two sides, and when a step changes one. *)
Changes(side, accounts, r, amount) ==
    /\ \A t \in Side : Accounts(t)' = IF t = side THEN accounts ELSE Accounts(t)
    /\ \A t \in Side, x \in Reserves :
           AmountOf(t, x)' = IF t = side /\ x = r THEN amount ELSE AmountOf(t, x)

LEMMA CollateralChanges ==
  ASSUME NEW accounts, NEW r \in Reserves, NEW amount,
         Changes("Collateral", accounts, r, amount)
  PROVE  Recorded' = [collateral_accounts |-> accounts,
                      loan_accounts |-> Recorded.loan_accounts,
                      collateral |-> [Recorded.collateral EXCEPT ![r] = amount],
                      loans |-> Recorded.loans]
  <1>1. \A t \in Side :
            [x \in Reserves |-> AmountOf(t, x)'] =
                IF t = "Collateral"
                THEN [[x \in Reserves |-> AmountOf(t, x)] EXCEPT ![r] = amount]
                ELSE [x \in Reserves |-> AmountOf(t, x)]
    BY DEF Changes
  <1>2. Side = {"Collateral", "Loan"} BY DEF Side
  <1> QED BY <1>1, <1>2 DEF Changes, Recorded

LEMMA LoanChanges ==
  ASSUME NEW accounts, NEW r \in Reserves, NEW amount,
         Changes("Loan", accounts, r, amount)
  PROVE  Recorded' = [collateral_accounts |-> Recorded.collateral_accounts,
                      loan_accounts |-> accounts,
                      collateral |-> Recorded.collateral,
                      loans |-> [Recorded.loans EXCEPT ![r] = amount]]
  <1>1. \A t \in Side :
            [x \in Reserves |-> AmountOf(t, x)'] =
                IF t = "Loan"
                THEN [[x \in Reserves |-> AmountOf(t, x)] EXCEPT ![r] = amount]
                ELSE [x \in Reserves |-> AmountOf(t, x)]
    BY DEF Changes
  <1>2. Side = {"Collateral", "Loan"} BY DEF Side
  <1> QED BY <1>1, <1>2 DEF Changes, Recorded

LEMMA Amounts ==
  ASSUME SlotInv
  PROVE  \A t \in Side : [x \in Reserves |-> AmountOf(t, x)] \in [Reserves -> Nat]
  <1>1. ASSUME NEW t \in Side, NEW x \in Reserves PROVE AmountOf(t, x) \in Nat
    <2>1. CASE \E i \in Slots : positions[t][i].account = x
      BY <2>1, AmountFound, SlotOf DEF SlotInv
    <2>2. CASE \A i \in Slots : positions[t][i].account # x BY <2>2, NotFound
    <2> QED BY <2>1, <2>2
  <1> QED BY <1>1

LEMMA RecordOf ==
  ASSUME SlotInv
  PROVE  /\ Recorded = [collateral_accounts |-> Recorded.collateral_accounts,
                        loan_accounts |-> Recorded.loan_accounts,
                        collateral |-> Recorded.collateral, loans |-> Recorded.loans]
         /\ Recorded.collateral \in [Reserves -> Nat]
         /\ Recorded.loans \in [Reserves -> Nat]
  BY Amounts DEF Recorded, Side

(* The operators of Obligation.tla, field by field. *)
LEMMA Registered ==
  ASSUME SlotInv, NEW r \in Reserves
  PROVE  /\ RegisterCollateral(Recorded, r) =
                [collateral_accounts |-> Recorded.collateral_accounts \union {r},
                 loan_accounts |-> Recorded.loan_accounts,
                 collateral |-> [Recorded.collateral EXCEPT ![r] = 0],
                 loans |-> Recorded.loans]
         /\ RegisterLoan(Recorded, r) =
                [collateral_accounts |-> Recorded.collateral_accounts,
                 loan_accounts |-> Recorded.loan_accounts \union {r},
                 collateral |-> Recorded.collateral,
                 loans |-> [Recorded.loans EXCEPT ![r] = 0]]
  <1> DEFINE o == Recorded
  <1>1. o = [collateral_accounts |-> o.collateral_accounts,
             loan_accounts |-> o.loan_accounts,
             collateral |-> o.collateral, loans |-> o.loans]
    BY RecordOf
  <1>2. RegisterCollateral(o, r) =
            [[o EXCEPT !.collateral_accounts = @ \union {r}]
                EXCEPT !.collateral = [o.collateral EXCEPT ![r] = 0]]
    BY DEF RegisterCollateral
  <1>3. RegisterLoan(o, r) =
            [[o EXCEPT !.loan_accounts = @ \union {r}]
                EXCEPT !.loans = [o.loans EXCEPT ![r] = 0]]
    BY DEF RegisterLoan
  <1> HIDE DEF o
  <1>4. RegisterCollateral(o, r) =
            [collateral_accounts |-> o.collateral_accounts \union {r},
             loan_accounts |-> o.loan_accounts,
             collateral |-> [o.collateral EXCEPT ![r] = 0], loans |-> o.loans]
    BY <1>1, <1>2
  <1>5. RegisterLoan(o, r) =
            [collateral_accounts |-> o.collateral_accounts,
             loan_accounts |-> o.loan_accounts \union {r},
             collateral |-> o.collateral, loans |-> [o.loans EXCEPT ![r] = 0]]
    BY <1>1, <1>3
  <1> QED BY <1>4, <1>5 DEF o

(* An account is only unregistered from an empty position. *)
LEMMA Unregistered ==
  ASSUME SlotInv, NEW r \in Reserves
  PROVE  /\ Recorded.collateral[r] = 0 =>
                UnregisterCollateral(Recorded, r) =
                    [collateral_accounts |-> Recorded.collateral_accounts \ {r},
                     loan_accounts |-> Recorded.loan_accounts,
                     collateral |-> [Recorded.collateral EXCEPT ![r] = 0],
                     loans |-> Recorded.loans]
         /\ Recorded.loans[r] = 0 =>
                UnregisterLoan(Recorded, r) =
                    [collateral_accounts |-> Recorded.collateral_accounts,
                     loan_accounts |-> Recorded.loan_accounts \ {r},
                     collateral |-> Recorded.collateral,
                     loans |-> [Recorded.loans EXCEPT ![r] = 0]]
  <1> DEFINE o == Recorded
  <1>1. o = [collateral_accounts |-> o.collateral_accounts,
             loan_accounts |-> o.loan_accounts,
             collateral |-> o.collateral, loans |-> o.loans]
        /\ o.collateral \in [Reserves -> Nat] /\ o.loans \in [Reserves -> Nat]
    BY RecordOf
  <1> HIDE DEF o
  <1>2. /\ o.collateral[r] = 0 => [o.collateral EXCEPT ![r] = 0] = o.collateral
        /\ o.loans[r] = 0 => [o.loans EXCEPT ![r] = 0] = o.loans
    BY <1>1
  <1>3. UnregisterCollateral(o, r) =
            [collateral_accounts |-> o.collateral_accounts \ {r},
             loan_accounts |-> o.loan_accounts,
             collateral |-> o.collateral, loans |-> o.loans]
    BY <1>1 DEF UnregisterCollateral
  <1>4. UnregisterLoan(o, r) =
            [collateral_accounts |-> o.collateral_accounts,
             loan_accounts |-> o.loan_accounts \ {r},
             collateral |-> o.collateral, loans |-> o.loans]
    BY <1>1 DEF UnregisterLoan
  <1> QED BY <1>2, <1>3, <1>4 DEF o

LEMMA RegisterImplements ==
  ASSUME SlotInv, SlotInv', NEW side \in Side, NEW r \in Reserves,
         RegisterPosition(side, r)
  PROVE  P!Next
  <1>1. PICK i \in Slots : positions[side][i].account = Unused
                           /\ Written(side, i, NewPosition(r))
    BY RegisterWrites
  <1>2. \A t \in Side : Accounts(t) = open[t] /\ Accounts(t)' = open'[t]
    BY DEF SlotInv, RecordedWhileOpen, Side
  <1>3. r \notin Accounts(side) /\ PositionCount(Recorded) < MaxPositions
    BY <1>2, SlotsCountAccounts DEF RegisterPosition
  <1>4. \A t \in Side :
            Accounts(t)' = IF t = side THEN Accounts(side) \union {r} ELSE Accounts(t)
    BY <1>2, RegisterWrites DEF SlotInv, TypeOK
  <1>5. \A t \in Side, x \in Reserves :
            AmountOf(t, x)' = IF t = side /\ x = r THEN 0 ELSE AmountOf(t, x)
    BY <1>1, WrittenAmounts, UnusedAssumption DEF NewPosition
  <1>6. Changes(side, Accounts(side) \union {r}, r, 0) BY <1>4, <1>5 DEF Changes
  <1>7. CASE side = "Collateral"
    <2>1. Recorded.collateral_accounts = Accounts(side) BY <1>7 DEF Recorded
    <2>2. Recorded' = [collateral_accounts |-> Recorded.collateral_accounts \union {r},
                          loan_accounts |-> Recorded.loan_accounts,
                          collateral |-> [Recorded.collateral EXCEPT ![r] = 0],
                          loans |-> Recorded.loans]
      BY <1>6, <1>7, <2>1, CollateralChanges
    <2>3. Recorded' = RegisterCollateral(Recorded, r)
      BY <2>1, <2>2, Registered
    <2> QED BY <1>3, <2>1, <2>3, SameCount DEF P!Next, P!OpenCollateral, P!RegisterCollateral, RegisterCollateral
  <1>8. CASE side = "Loan"
    <2>1. Recorded.loan_accounts = Accounts(side) BY <1>8 DEF Recorded
    <2>2. Recorded' = [collateral_accounts |-> Recorded.collateral_accounts,
                          loan_accounts |-> Recorded.loan_accounts \union {r},
                          collateral |-> Recorded.collateral,
                          loans |-> [Recorded.loans EXCEPT ![r] = 0]]
      BY <1>6, <1>8, <2>1, LoanChanges
    <2>3. Recorded' = RegisterLoan(Recorded, r)
      BY <2>1, <2>2, Registered
    <2> QED BY <1>3, <2>1, <2>3, SameCount DEF P!Next, P!OpenLoan, P!RegisterLoan, RegisterLoan
  <1> QED BY <1>7, <1>8 DEF Side

LEMMA UnregisterImplements ==
  ASSUME SlotInv, SlotInv', NEW side \in Side, NEW r \in Reserves,
         UnregisterPosition(side, r)
  PROVE  P!Next
  <1>1. PICK i \in Slots :
            /\ positions[side][i].account = r /\ positions[side][i].amount = 0
            /\ Written(side, i, [positions[side][i] EXCEPT !.account = Unused])
    BY UnregisterWrites
  <1>2. \A t \in Side : Accounts(t) = open[t] /\ Accounts(t)' = open'[t]
    BY DEF SlotInv, RecordedWhileOpen, Side
  <1>3. r \in Accounts(side) /\ AmountOf(side, r) = 0
    BY <1>1, <1>2, AmountFound DEF UnregisterPosition
  <1>4. \A t \in Side :
            Accounts(t)' = IF t = side THEN Accounts(side) \ {r} ELSE Accounts(t)
    BY <1>2, UnregisterWrites DEF SlotInv, TypeOK
  <1> DEFINE p == [positions[side][i] EXCEPT !.account = Unused]
  <1>5. Written(side, i, p) /\ p.account = Unused
    BY <1>1, SlotOf DEF SlotInv, Position
  <1> HIDE DEF p
  <1>6. \A t \in Side, x \in Reserves :
            AmountOf(t, x)' = IF t = side /\ x = r THEN 0 ELSE AmountOf(t, x)
    BY <1>1, <1>5, WrittenAmounts, UnusedAssumption
  <1>7. Changes(side, Accounts(side) \ {r}, r, 0) BY <1>4, <1>6 DEF Changes
  <1>8. CASE side = "Collateral"
    <2>1. Recorded.collateral_accounts = Accounts(side) /\ Recorded.collateral[r] = 0
      BY <1>3, <1>8 DEF Recorded
    <2>2. Recorded' = [collateral_accounts |-> Recorded.collateral_accounts \ {r},
                          loan_accounts |-> Recorded.loan_accounts,
                          collateral |-> [Recorded.collateral EXCEPT ![r] = 0],
                          loans |-> Recorded.loans]
      BY <1>7, <1>8, <2>1, CollateralChanges
    <2>3. Recorded' = UnregisterCollateral(Recorded, r)
      BY <2>1, <2>2, Unregistered
    <2> QED BY <1>3, <2>1, <2>3 DEF P!Next, P!CloseCollateral, P!UnregisterCollateral, UnregisterCollateral
  <1>9. CASE side = "Loan"
    <2>1. Recorded.loan_accounts = Accounts(side) /\ Recorded.loans[r] = 0
      BY <1>3, <1>9 DEF Recorded
    <2>2. Recorded' = [collateral_accounts |-> Recorded.collateral_accounts,
                          loan_accounts |-> Recorded.loan_accounts \ {r},
                          collateral |-> Recorded.collateral,
                          loans |-> [Recorded.loans EXCEPT ![r] = 0]]
      BY <1>7, <1>9, <2>1, LoanChanges
    <2>3. Recorded' = UnregisterLoan(Recorded, r)
      BY <2>1, <2>2, Unregistered
    <2> QED BY <1>3, <2>1, <2>3 DEF P!Next, P!CloseLoan, P!UnregisterLoan, UnregisterLoan
  <1> QED BY <1>8, <1>9 DEF Side

(* A position's amount is set: to what AddCollateral and the others do. *)
LEMMA Changed ==
  ASSUME SlotInv, NEW r \in Reserves, NEW amount
  PROVE  /\ [Recorded EXCEPT !.collateral[r] = amount] =
                [collateral_accounts |-> Recorded.collateral_accounts,
                 loan_accounts |-> Recorded.loan_accounts,
                 collateral |-> [Recorded.collateral EXCEPT ![r] = amount],
                 loans |-> Recorded.loans]
         /\ [Recorded EXCEPT !.loans[r] = amount] =
                [collateral_accounts |-> Recorded.collateral_accounts,
                 loan_accounts |-> Recorded.loan_accounts,
                 collateral |-> Recorded.collateral,
                 loans |-> [Recorded.loans EXCEPT ![r] = amount]]
  <1> DEFINE o == Recorded
  <1>1. o = [collateral_accounts |-> o.collateral_accounts,
             loan_accounts |-> o.loan_accounts,
             collateral |-> o.collateral, loans |-> o.loans]
    BY RecordOf
  <1> HIDE DEF o
  <1>2. [o EXCEPT !.collateral[r] = amount] =
            [o EXCEPT !.collateral = [o.collateral EXCEPT ![r] = amount]]
    OBVIOUS
  <1>3. [o EXCEPT !.loans[r] = amount] =
            [o EXCEPT !.loans = [o.loans EXCEPT ![r] = amount]]
    OBVIOUS
  <1>4. [o EXCEPT !.collateral[r] = amount] =
            [collateral_accounts |-> o.collateral_accounts,
             loan_accounts |-> o.loan_accounts,
             collateral |-> [o.collateral EXCEPT ![r] = amount], loans |-> o.loans]
    BY <1>1, <1>2
  <1>5. [o EXCEPT !.loans[r] = amount] =
            [collateral_accounts |-> o.collateral_accounts,
             loan_accounts |-> o.loan_accounts,
             collateral |-> o.collateral, loans |-> [o.loans EXCEPT ![r] = amount]]
    BY <1>1, <1>3
  <1> QED BY <1>4, <1>5 DEF o

LEMMA AmountChanges ==
  ASSUME SlotInv, SlotInv', NEW side \in Side, NEW r \in Reserves, NEW amount \in Nat,
         AmountWritten(side, r, amount)
  PROVE  /\ r \in Accounts(side)
         /\ side = "Collateral" => Recorded' = [Recorded EXCEPT !.collateral[r] = amount]
         /\ side = "Loan" => Recorded' = [Recorded EXCEPT !.loans[r] = amount]
  <1>1. PICK i \in Slots :
            /\ positions[side][i].account = r
            /\ Written(side, i, [positions[side][i] EXCEPT !.amount = amount])
    BY DEF AmountWritten
  <1>2. r \in Accounts(side) BY <1>1, UnusedAssumption DEF Accounts
  <1> DEFINE p == [positions[side][i] EXCEPT !.amount = amount]
  <1>3. Written(side, i, p) /\ p.account = r /\ p.amount = amount
    BY <1>1, SlotOf DEF SlotInv, Position
  <1> HIDE DEF p
  <1>4. \A t \in Side : Accounts(t)' = IF t = side THEN Accounts(side) ELSE Accounts(t)
    BY DEF SlotInv, RecordedWhileOpen, Side, AmountWritten
  <1>5. \A t \in Side, x \in Reserves :
            AmountOf(t, x)' = IF t = side /\ x = r THEN amount ELSE AmountOf(t, x)
    BY <1>1, <1>3, WrittenAmounts
  <1>6. Changes(side, Accounts(side), r, amount) BY <1>4, <1>5 DEF Changes
  <1>7. CASE side = "Collateral"
    <2>1. Recorded.collateral_accounts = Accounts(side) BY <1>7 DEF Recorded
    <2>2. Recorded' = [collateral_accounts |-> Recorded.collateral_accounts,
                       loan_accounts |-> Recorded.loan_accounts,
                       collateral |-> [Recorded.collateral EXCEPT ![r] = amount],
                       loans |-> Recorded.loans]
      BY <1>6, <1>7, <2>1, CollateralChanges
    <2>3. Recorded' = [Recorded EXCEPT !.collateral[r] = amount] BY <2>2, Changed
    <2> QED BY <1>2, <1>7, <2>3
  <1>8. CASE side = "Loan"
    <2>1. Recorded.loan_accounts = Accounts(side) BY <1>8 DEF Recorded
    <2>2. Recorded' = [collateral_accounts |-> Recorded.collateral_accounts,
                       loan_accounts |-> Recorded.loan_accounts,
                       collateral |-> Recorded.collateral,
                       loans |-> [Recorded.loans EXCEPT ![r] = amount]]
      BY <1>6, <1>8, <2>1, LoanChanges
    <2>3. Recorded' = [Recorded EXCEPT !.loans[r] = amount] BY <2>2, Changed
    <2> QED BY <1>2, <1>8, <2>3
  <1> QED BY <1>7, <1>8 DEF Side

LEMMA AmountImplements ==
  ASSUME SlotInv, SlotInv', NEW side \in Side, NEW r \in Reserves,
         NEW amount \in NoteAmounts,
         AddPosition(side, r, amount) \/ SubtractPosition(side, r, amount)
  PROVE  P!Next
  <1> DEFINE old == AmountOf(side, r)
  <1>1. PICK new \in Nat :
            /\ new = old + amount \/ new = SaturatingSub(old, amount)
            /\ AmountWritten(side, r, new)
    BY AddWrites, SubtractWrites, AmountFound
  <1>2. /\ r \in Accounts(side)
        /\ side = "Collateral" => Recorded' = [Recorded EXCEPT !.collateral[r] = new]
        /\ side = "Loan" => Recorded' = [Recorded EXCEPT !.loans[r] = new]
    BY <1>1, AmountChanges
  <1>3. CASE side = "Collateral"
    <2>1. r \in Recorded.collateral_accounts /\ Recorded.collateral[r] = old
      BY <1>2, <1>3 DEF Recorded
    <2>2. Recorded' = AddCollateral(Recorded, r, amount)
              \/ Recorded' = SubtractCollateral(Recorded, r, amount)
      BY <1>1, <1>2, <1>3, <2>1 DEF AddCollateral, SubtractCollateral
    <2> QED BY <2>1, <2>2 DEF P!Next, P!ChangeCollateral, P!AddCollateral, AddCollateral,
                              P!SubtractCollateral, SubtractCollateral,
                              P!SaturatingSub, SaturatingSub
  <1>4. CASE side = "Loan"
    <2>1. r \in Recorded.loan_accounts /\ Recorded.loans[r] = old
      BY <1>2, <1>4 DEF Recorded
    <2>2. Recorded' = AddLoan(Recorded, r, amount) \/ Recorded' = SubtractLoan(Recorded, r, amount)
      BY <1>1, <1>2, <1>4, <2>1 DEF AddLoan, SubtractLoan
    <2> QED BY <2>1, <2>2 DEF P!Next, P!ChangeLoan, P!AddLoan, AddLoan,
                              P!SubtractLoan, SubtractLoan, P!SaturatingSub, SaturatingSub
  <1> QED BY <1>3, <1>4 DEF Side

(* A liquidation leaves every amount but the two it writes. *)
LEMMA LiquidatedAmounts ==
  ASSUME SlotInv, SlotInv', NEW c \in Reserves, NEW r \in Reserves,
         NEW taken \in NoteAmounts, NEW repaid \in NoteAmounts,
         LiquidatePositions(c, r, taken, repaid)
  PROVE  /\ c \in Accounts("Collateral") /\ r \in Accounts("Loan")
         /\ \A x \in Reserves : AmountOf("Collateral", x)' =
                IF x = c THEN SaturatingSub(AmountOf("Collateral", c), taken)
                ELSE AmountOf("Collateral", x)
         /\ \A x \in Reserves : AmountOf("Loan", x)' =
                IF x = r THEN SaturatingSub(AmountOf("Loan", r), repaid)
                ELSE AmountOf("Loan", x)
  <1>0. PICK i \in Slots, j \in Slots : BothWritten(c, r, taken, repaid, i, j)
    BY LiquidateWrites
  <1>1. /\ positions["Collateral"][i].account = c
        /\ positions["Loan"][j].account = r
        /\ \A t \in Side, k \in Slots : positions'[t][k] =
               IF t = "Collateral" /\ k = i THEN Reduced(positions[t][k], taken)
               ELSE IF t = "Loan" /\ k = j THEN Reduced(positions[t][k], repaid)
               ELSE positions[t][k]
    BY <1>0 DEF BothWritten
  <1>2. "Collateral" \in Side /\ "Loan" \in Side BY DEF Side
  <1>3. c \in Accounts("Collateral") /\ r \in Accounts("Loan")
    BY <1>1, UnusedAssumption DEF Accounts
  <1>4. ASSUME NEW t \in Side, NEW h \in Slots, NEW x \in Reserves,
               positions[t][h].account = x, NEW amount,
               \/ t = "Collateral" /\ h = i /\ amount = taken
               \/ t = "Loan" /\ h = j /\ amount = repaid
        PROVE  AmountOf(t, x)' = SaturatingSub(AmountOf(t, x), amount)
    <2> DEFINE p == Reduced(positions[t][h], amount)
    <2>1. positions'[t][h] = p BY <1>1, <1>4
    <2>2. positions[t][h] \in Position BY SlotOf DEF SlotInv
    <2>3. p.account = x /\ p.amount = SaturatingSub(positions[t][h].amount, amount)
      BY <1>4, <2>2 DEF Position, Reduced
    <2> HIDE DEF p
    <2>4. AmountOf(t, x)' = p.amount BY <2>1, <2>3, AmountFoundNext
    <2>5. AmountOf(t, x) = positions[t][h].amount BY <1>4, AmountFound
    <2> QED BY <2>3, <2>4, <2>5
  <1>5. ASSUME NEW t \in Side, NEW x \in Reserves, NEW h \in Slots, NEW y \in Reserves,
               positions[t][h].account = y, x # y,
               \A k \in Slots : k # h => positions'[t][k] = positions[t][k],
               positions'[t][h].account = y
        PROVE  AmountOf(t, x)' = AmountOf(t, x)
    <2>1. CASE \E k \in Slots : positions[t][k].account = x
      <3>1. PICK k \in Slots : positions[t][k].account = x BY <2>1
      <3>2. positions'[t][k] = positions[t][k] BY <1>5, <3>1
      <3> QED BY <3>1, <3>2, AmountFound, AmountFoundNext
    <2>2. CASE \A k \in Slots : positions[t][k].account # x
      <3>1. \A k \in Slots : positions'[t][k].account # x BY <1>5, <2>2
      <3> QED BY <2>2, <3>1, NotFound
    <2> QED BY <2>1, <2>2
  <1>6. \A t \in Side, k \in Slots : positions'[t][k].account = positions[t][k].account
    BY LiquidateAccounts
  <1>7. \A x \in Reserves \ {c} : AmountOf("Collateral", x)' = AmountOf("Collateral", x)
    <2>1. \A k \in Slots : k # i => positions'["Collateral"][k] = positions["Collateral"][k]
      BY <1>1, <1>2
    <2> QED BY <1>1, <1>2, <1>5, <1>6, <2>1
  <1>8. \A x \in Reserves \ {r} : AmountOf("Loan", x)' = AmountOf("Loan", x)
    <2>1. \A k \in Slots : k # j => positions'["Loan"][k] = positions["Loan"][k]
      BY <1>1, <1>2
    <2> QED BY <1>1, <1>2, <1>5, <1>6, <2>1
  <1>9. AmountOf("Collateral", c)' = SaturatingSub(AmountOf("Collateral", c), taken)
    BY <1>1, <1>2, <1>4
  <1>10. AmountOf("Loan", r)' = SaturatingSub(AmountOf("Loan", r), repaid)
    BY <1>1, <1>2, <1>4
  <1> QED BY <1>3, <1>7, <1>8, <1>9, <1>10

(* A liquidation and a new obligation are steps of Positions.tla. *)
LEMMA LiquidateImplements ==
  ASSUME SlotInv, SlotInv', NEW c \in Reserves, NEW r \in Reserves,
         NEW taken \in NoteAmounts, NEW repaid \in NoteAmounts,
         LiquidatePositions(c, r, taken, repaid)
  PROVE  P!Next
  <1> DEFINE o == Recorded
             collateral == [o.collateral EXCEPT ![c] = SaturatingSub(@, taken)]
             loans == [o.loans EXCEPT ![r] = SaturatingSub(@, repaid)]
  <1>1. \A t \in Side : Accounts(t)' = Accounts(t)
    BY LiquidateWrites DEF SlotInv, RecordedWhileOpen, Side
  <1>2. Recorded' = [collateral_accounts |-> o.collateral_accounts,
                     loan_accounts |-> o.loan_accounts,
                     collateral |-> collateral, loans |-> loans]
    <2>1. [x \in Reserves |-> AmountOf("Collateral", x)'] = collateral
      <3>1. o.collateral = [x \in Reserves |-> AmountOf("Collateral", x)] BY DEF Recorded
      <3> HIDE DEF o
      <3> QED BY <3>1, LiquidatedAmounts
    <2>2. [x \in Reserves |-> AmountOf("Loan", x)'] = loans
      <3>1. o.loans = [x \in Reserves |-> AmountOf("Loan", x)] BY DEF Recorded
      <3> HIDE DEF o
      <3> QED BY <3>1, LiquidatedAmounts
    <2>3. Accounts("Collateral")' = o.collateral_accounts
          /\ Accounts("Loan")' = o.loan_accounts
      BY <1>1 DEF Recorded, Side
    <2> HIDE DEF collateral, loans, o
    <2> QED BY <2>1, <2>2, <2>3 DEF Recorded
  <1>3. o = [collateral_accounts |-> o.collateral_accounts,
             loan_accounts |-> o.loan_accounts,
             collateral |-> o.collateral, loans |-> o.loans]
    BY RecordOf
  <1>4. c \in o.collateral_accounts /\ r \in o.loan_accounts
    BY LiquidatedAmounts DEF Recorded
  <1> HIDE DEF o
  <1>5. SubtractLoan(SubtractCollateral(o, c, taken), r, repaid)
            = [collateral_accounts |-> o.collateral_accounts,
               loan_accounts |-> o.loan_accounts,
               collateral |-> collateral, loans |-> loans]
    <2>1. SubtractCollateral(o, c, taken) =
              [collateral_accounts |-> o.collateral_accounts,
               loan_accounts |-> o.loan_accounts,
               collateral |-> collateral, loans |-> o.loans]
      BY <1>3 DEF SubtractCollateral
    <2> QED BY <2>1 DEF SubtractLoan
  <1>6. Recorded' = SubtractLoan(SubtractCollateral(Recorded, c, taken), r, repaid)
    BY <1>2, <1>5 DEF o
  <1>7. P!Liquidate(c, r, taken, repaid)
    BY <1>4, <1>6 DEF o, P!Liquidate, P!SubtractLoan, SubtractLoan,
                      P!SubtractCollateral, SubtractCollateral,
                      P!SaturatingSub, SaturatingSub
  <1> QED BY <1>7 DEF P!Next

LEMMA RenewImplements ==
  ASSUME SlotInv, SlotInv', RenewObligation
  PROVE  P!Next
  <1>1. P!PositionCount(Recorded) = 0
    BY SlotsCountAccounts, SameCount DEF RenewObligation
  <1>2. \A t \in Side : Accounts(t)' = {}
    BY RenewInv DEF SlotInv, RecordedWhileOpen, Side
  <1>3. \A t \in Side, x \in Reserves : AmountOf(t, x)' = 0 BY <1>2 DEF AmountOf
  <1>4. Recorded' = NewObligation BY <1>2, <1>3 DEF Recorded, NewObligation, Side
  <1> QED BY <1>1, <1>4 DEF P!Next, P!Renew, P!NewObligation, NewObligation

(* However holes, reused slots and scans interleave, the arrays behave as  *)
(* the sets of positions the lending model reasons with.                   *)
THEOREM SlotsImplementPositions == Spec => ImplementsPositions
  <1>1. Init => P!Init
    <2> SUFFICES ASSUME Init PROVE Recorded = NewObligation
      BY DEF P!Init, P!NewObligation, NewObligation
    <2>1. SlotInv BY InitInv
    <2>2. \A t \in Side : Accounts(t) = {}
      BY <2>1 DEF Init, SlotInv, RecordedWhileOpen
    <2>3. \A t \in Side, x \in Reserves : AmountOf(t, x) = 0 BY <2>2 DEF AmountOf
    <2> QED BY <2>2, <2>3 DEF Recorded, NewObligation, Side
  <1>2. SlotInv /\ SlotInv' /\ [Next]_vars => [P!Next]_Recorded
    <2> SUFFICES ASSUME SlotInv, SlotInv', [Next]_vars PROVE [P!Next]_Recorded OBVIOUS
    <2>1. CASE UNCHANGED vars
      BY <2>1 DEF vars, Recorded, Accounts, AmountOf, Finds, Slots
    <2>2. CASE Next BY <2>2, RegisterImplements, UnregisterImplements, AmountImplements,
                              RenewImplements, LiquidateImplements DEF Next
    <2> QED BY <2>1, <2>2
  <1> QED BY <1>1, <1>2, SlotInvariant, PTL DEF Spec, ImplementsPositions, P!Spec
=============================================================================
