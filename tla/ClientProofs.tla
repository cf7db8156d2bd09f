---------------------------- MODULE ClientProofs ----------------------------
(***************************************************************************)
(* What the user is told of a trade, for every number of reserves and      *)
(* trades: a transaction is sent only when the one before has left the     *)
(* network, so the result of the last one is the result of the trade, and  *)
(* nothing but refreshes was sent when the wallet still asks.              *)
(***************************************************************************)
EXTENDS ClientTrade, TLAPS

Ours(tx) == tx.operation = operation

(* How many trades were reported. *)
Counted ==
    /\ ~Trading => Len(reported) = operation
    /\ Trading => operation > 0 /\ Len(reported) + 1 = operation

OpensNothing(tx) == tx.kind = "refresh" => tx.opens = {} /\ tx.wraps = FALSE
RefreshesOpenNothing == \A tx \in pending : OpensNothing(tx)

(* What is awaited is the first of what is left, and all there is of it.   *)
Waiting ==
    IF stage \in {"confirming", "confirming_refresh"}
    THEN /\ txs # <<>> /\ Ours(Head(txs))
         /\ \A tx \in pending : Ours(tx) => tx = Head(txs)
         /\ status # {} => \A tx \in pending : ~Ours(tx)
    ELSE /\ status = {}
         /\ Trading => \A tx \in pending : ~Ours(tx)

(* The trade itself is the last of the bundle. *)
BundleOK ==
    /\ stage \in {"rent", "signing"} => res = "Success"
    /\ stage \in {"signing", "sending", "confirming"} =>
           /\ res # "Cancelled"
           /\ txs # <<>> /\ \A i \in DOMAIN txs : Ours(txs[i]) /\ txs[i].kind # "refresh"
           /\ txs[Len(txs)].kind = "trade"
           /\ (operation \in wrapped \/ \E i \in DOMAIN txs : txs[i].wraps) => txs[Len(txs)].wraps
    /\ stage = "confirming" /\ FALSE \in status /\ Len(txs) = 1 =>
           operation \in done /\ operation \notin wrapped

(* Nothing of a trade reported as done is left on the network. *)
NothingLeft ==
    \A o \in DOMAIN reported : reported[o] = "Success" => \A tx \in pending : tx.operation # o

(* Before the bundle is sent there are but refreshes of this trade. *)
Untouched ==
    /\ stage = "confirming_refresh" => Head(txs).kind = "refresh"
    /\ stage \in {"refreshing", "confirming_refresh", "rent", "signing"} =>
           /\ operation \notin done \union wrapped
           /\ \A a \in Accounts : operation \notin openedBy[a]

Told ==
    /\ Counted /\ RefreshesOpenNothing /\ Waiting /\ BundleOK /\ Untouched
    /\ NothingLeft /\ SuccessMeansDone /\ CancelledSentNothing /\ OneInFlight

ClientInv == TypeOK /\ Told

-----------------------------------------------------------------------------
(* Types.                                                                  *)

LEMMA InitType == Init => TypeOK
  <1> SUFFICES ASSUME Init PROVE TypeOK OBVIOUS
  <1>1. now \in Nat /\ operation = 0 /\ until \in Nat BY TimesAssumption DEF Init
  <1>2. accruedUntil \in [Reserves -> 0..now] /\ market \in [Reserves -> 0..now]
    BY <1>1 DEF Init
  <1>3. openedBy \in [Accounts -> SUBSET (0..operation)] BY <1>1 DEF Init
  <1> QED BY <1>1, <1>2, <1>3 DEF Init, TypeOK, Open, Results, Reports, Stages

LEMMA UsesAccounts == \A a \in Actions : Uses(a) \subseteq Accounts
  BY DEF Accounts

LEMMA RefreshTxType ==
  ASSUME TypeOK, operation > 0 PROVE RefreshTx \in Txs
  <1>1. operation \in 1..operation /\ until \in Nat /\ {reserve} \subseteq Reserves BY DEF TypeOK
  <1>2. RefreshTx = [operation |-> operation, kind |-> "refresh", opens |-> {}, uses |-> {},
                     refreshes |-> {reserve}, wraps |-> FALSE, until |-> until]
    BY DEF RefreshTx, Tx
  <1> QED BY <1>1, <1>2 DEF Txs

LEMMA BundleType ==
  ASSUME TypeOK, Trading, operation > 0
  PROVE  /\ Bundle \in Seq(Txs) /\ Bundle # <<>>
         /\ \A i \in DOMAIN Bundle : Ours(Bundle[i]) /\ Bundle[i].kind # "refresh"
         /\ Bundle[Len(Bundle)].kind = "trade"
         /\ (\E i \in DOMAIN Bundle : Bundle[i].wraps) => Bundle[Len(Bundle)].wraps
  <1> DEFINE single(opens) == Tx("trade", opens, Needs, {trade.reserve}, FALSE)
             last == Tx("trade", {}, Needs, Reserves, IsNative)
             first == Tx("open", Missing, {}, {}, IsNative)
  <1>1. trade.action \in Actions /\ trade.reserve \in Reserves BY DEF TypeOK, Trading
  <1>2. Needs \subseteq Accounts /\ Missing \subseteq Accounts /\ IsNative \in BOOLEAN
    BY <1>1, UsesAccounts DEF Needs, Missing, IsNative
  <1>3. operation \in 1..operation /\ 0 \in Nat BY DEF TypeOK
  <1>4. ASSUME NEW opens \in SUBSET Accounts
        PROVE  /\ single(opens) \in Txs
               /\ single(opens).kind = "trade" /\ ~single(opens).wraps
               /\ Ours(single(opens))
    BY <1>1, <1>2, <1>3 DEF Tx, Txs, Ours
  <1>5. first \in Txs /\ Ours(first) /\ first.kind # "refresh" /\ first.wraps = IsNative
    BY <1>2, <1>3 DEF Tx, Txs, Ours
  <1>6. last \in Txs /\ Ours(last) /\ last.kind = "trade" /\ last.wraps = IsNative
    BY <1>2, <1>3 DEF Tx, Txs, Ours
  <1> HIDE DEF single, last, first
  <1>7. Bundle \in {<<single(Missing)>>, <<single({})>>, <<last>>, <<first, last>>}
    BY DEF Bundle, single, last, first
  <1>8. CASE Bundle = <<single(Missing)>>
    <2> DEFINE l == single(Missing)
    <2>1. l \in Txs /\ l.kind = "trade" /\ Ours(l) BY <1>2, <1>4
    <2> HIDE DEF l
    <2>2. Bundle = <<l>> BY <1>8 DEF l
    <2> QED BY <2>1, <2>2
  <1>9. CASE Bundle = <<single({})>>
    <2> DEFINE l == single({})
    <2>1. l \in Txs /\ l.kind = "trade" /\ Ours(l) BY <1>4
    <2> HIDE DEF l
    <2>2. Bundle = <<l>> BY <1>9 DEF l
    <2> QED BY <2>1, <2>2
  <1>10. CASE Bundle = <<last>> BY <1>6, <1>10
  <1>11. CASE Bundle = <<first, last>> BY <1>5, <1>6, <1>11
  <1> QED BY <1>7, <1>8, <1>9, <1>10, <1>11

LEMMA TypeNext == TypeOK /\ Told /\ [Next]_vars => TypeOK'
  <1> SUFFICES ASSUME TypeOK, Told, [Next]_vars PROVE TypeOK' OBVIOUS
  <1> USE DEF chain, network, view, loop, client, Trading
  <1>1. CASE Tick
    <2>1. now' \in Nat /\ 0..now \subseteq 0..now' BY <1>1 DEF Tick, TypeOK
    <2> QED BY <1>1, <2>1 DEF Tick, TypeOK, Txs
  <1>2. ASSUME NEW tx \in pending, Land(tx) PROVE TypeOK'
    <2>1. tx \in Txs BY DEF TypeOK
    <2>2. /\ pending' \subseteq pending /\ status' \subseteq BOOLEAN
          /\ UNCHANGED <<now, view, connected, native, client>>
      BY <1>2 DEF Land, Executed, TypeOK
    <2>3. /\ accruedUntil' \in [Reserves -> 0..now]
          /\ openedBy' \in [Accounts -> SUBSET (0..operation)]
          /\ wrapped' \subseteq 1..operation /\ done' \subseteq 1..operation
      <3>1. CASE UNCHANGED <<accruedUntil, openedBy, wrapped, done>> BY <3>1 DEF TypeOK
      <3>2. CASE Succeeds(tx)
        <4>1. \A r \in Reserves : Refreshed(r) \in 0..now BY DEF Refreshed, TypeOK
        <4>2. accruedUntil' \in [Reserves -> 0..now]
          BY <3>2, <4>1 DEF Succeeds, TypeOK
        <4>3. tx.operation \in 1..operation /\ 1..operation \subseteq 0..operation
          BY <2>1 DEF Txs, TypeOK
        <4>4. openedBy' \in [Accounts -> SUBSET (0..operation)]
          BY <3>2, <4>3 DEF Succeeds, TypeOK
        <4>5. wrapped' \subseteq 1..operation /\ done' \subseteq 1..operation
          BY <3>2, <4>3 DEF Succeeds, TypeOK
        <4> QED BY <4>2, <4>4, <4>5
      <3> QED BY <1>2, <3>1, <3>2 DEF Land
    <2> QED BY <2>2, <2>3 DEF TypeOK, Txs
  <1>3. ASSUME NEW tx \in pending, Lose(tx) PROVE TypeOK'
    BY <1>3 DEF Lose, TypeOK, Txs
  <1>4. CASE Notify BY <1>4 DEF Notify, TypeOK, Txs, Open
  <1>5. CASE DisconnectWallet BY <1>5 DEF DisconnectWallet, TypeOK, Txs
  <1>6. ASSUME NEW action \in Actions, NEW r \in Reserves, SubmitTrade(action, r)
        PROVE TypeOK'
    <2>1. operation' = operation + 1 /\ operation \in Nat BY <1>6 DEF SubmitTrade, TypeOK
    <2>2. Txs \subseteq Txs' BY <2>1 DEF Txs
    <2>3. 0..operation \subseteq 0..operation' /\ 1..operation \subseteq 1..operation' BY <2>1
    <2>4. openedBy \in [Accounts -> SUBSET (0..operation')] BY <2>3 DEF TypeOK
    <2>5. txs' \in Seq(Txs') BY <1>6 DEF SubmitTrade
    <2> QED BY <1>6, <2>1, <2>2, <2>3, <2>4, <2>5 DEF SubmitTrade, TypeOK, Stages, Results
  <1>7. ASSUME NEW r \in Reserves, NextReserve(r) PROVE TypeOK'
    BY <1>7 DEF NextReserve, TypeOK, Txs
  <1>8. ASSUME Trading, NEW result \in Results, Report(result) \/ Throw,
               UNCHANGED <<view, chain, connected, native>>,
               pending' \subseteq Txs, status' \subseteq BOOLEAN
        PROVE TypeOK'
    <2>1. /\ until' = FirstTime /\ FirstTime \in Nat /\ left' = {} /\ txs' = <<>>
          /\ res' = "Success" /\ UNCHANGED <<operation, reserve>>
      BY <1>8, TimesAssumption DEF Report, Throw, Forget
    <2>2. PICK told \in Reports : reported' = Append(reported, told)
      BY <1>8 DEF Report, Throw, Reports
    <2>3. reported' \in Seq(Reports) BY <2>2 DEF TypeOK
    <2>4. stage' \in Stages /\ (stage' # "idle" => trade' \in [action : Actions, reserve : Reserves])
      BY <1>8 DEF Report, Throw, Stages, TypeOK, Trading
    <2> QED BY <1>8, <2>1, <2>3, <2>4 DEF TypeOK, Txs, Results
  <1>9. ASSUME Trading, NEW result \in Results, NextRefresh(result),
               UNCHANGED <<view, chain, pending, connected, native>>, status' \subseteq BOOLEAN
        PROVE TypeOK'
    BY <1>9 DEF NextRefresh, Advance, TypeOK, Txs, Stages, Trading
  <1>10. CASE RefreshOldReserve
    <2>1. RefreshTx \in Txs /\ Trading BY <1>10, RefreshTxType DEF RefreshOldReserve, Told, Counted
    <2>2. CASE NextRefresh("Cancelled") /\ UNCHANGED <<chain, network, view, connected, native>>
      BY <1>9, <2>1, <2>2 DEF Results, TypeOK
    <2>3. CASE SendThrows(RefreshTx) /\ Report("Failed")
      BY <1>8, <2>1, <2>3 DEF SendThrows, Results, TypeOK
    <2>4. CASE /\ Sent(RefreshTx)
               /\ stage' = "confirming_refresh" /\ txs' = <<RefreshTx>>
               /\ UNCHANGED <<operation, trade, loop, res, reported>>
      <3>1. <<RefreshTx>> \in Seq(Txs) BY <2>1
      <3> QED BY <2>1, <2>4, <3>1 DEF Sent, TypeOK, Txs, Stages
    <2> QED BY <1>10, <2>2, <2>3, <2>4 DEF RefreshOldReserve
  <1>11. CASE ConfirmRefresh
    BY <1>11, <1>8, <1>9 DEF ConfirmRefresh, Results, TypeOK
  <1>12. ASSUME Trading, UNCHANGED <<chain, network, view, connected, native>>, BuildBundle
         PROVE  TypeOK'
    <2>1. Bundle \in Seq(Txs) BY <1>12, BundleType DEF Told, Counted
    <2> QED BY <1>12, <2>1 DEF BuildBundle, TypeOK, Txs, Stages
  <1>18. CASE StartTrade
    <2>1. Trading /\ UNCHANGED <<chain, network, view, connected, native>>
      BY <1>18 DEF StartTrade, Running, Trading
    <2>2. CASE Report(res) \/ Report("Failed") \/ Throw
      BY <1>8, <2>1, <2>2 DEF TypeOK, Results
    <2>3. CASE stage' = "rent" /\ UNCHANGED <<operation, trade, loop, res, txs, reported>>
      BY <2>1, <2>3 DEF TypeOK, Txs, Stages
    <2>4. CASE BuildBundle BY <1>12, <2>1, <2>4
    <2> QED BY <1>18, <2>2, <2>3, <2>4 DEF StartTrade
  <1>19. CASE AwaitRent
    <2>1. Trading /\ UNCHANGED <<chain, network, view, connected, native>>
      BY <1>19 DEF AwaitRent, Trading
    <2>2. CASE Throw BY <1>8, <2>1, <2>2 DEF TypeOK, Results
    <2>3. CASE BuildBundle BY <1>12, <2>1, <2>3
    <2> QED BY <1>19, <2>2, <2>3 DEF AwaitRent
  <1>13. CASE WalletRefuses BY <1>13, <1>8 DEF WalletRefuses, Signing, Results, TypeOK
  <1>14. CASE SignAll BY <1>14 DEF SignAll, TypeOK, Txs, Stages
  <1>15. CASE Send
    <2>1. Head(txs) \in Txs /\ Trading BY <1>15 DEF Send, Told, BundleOK, TypeOK
    <2>2. CASE SendThrows(Head(txs)) /\ Report("Failed")
      BY <1>8, <2>1, <2>2 DEF SendThrows, Results, TypeOK
    <2>3. CASE Sent(Head(txs)) /\ stage' = "confirming"
               /\ UNCHANGED <<operation, trade, loop, res, txs, reported>>
      BY <2>1, <2>3 DEF Sent, TypeOK, Txs, Stages
    <2> QED BY <1>15, <2>2, <2>3 DEF Send
  <1>16. CASE Confirm
    <2>1. Trading /\ UNCHANGED <<chain, pending, view, connected, native>> /\ status' = {}
      BY <1>16 DEF Confirm
    <2>2. ASSUME NEW err \in BOOLEAN, Proceed(ResultWith(err)) PROVE TypeOK'
      <3>1. ResultWith(err) \in Results BY DEF ResultWith, Results, TypeOK
      <3>2. CASE Report(ResultWith(err)) BY <1>8, <2>1, <3>1, <3>2 DEF TypeOK
      <3>3. CASE ~Report(ResultWith(err))
        <4>1. Tail(txs) \in Seq(Txs) BY <1>16 DEF Confirm, Told, BundleOK, TypeOK
        <4> QED BY <2>1, <2>2, <3>1, <3>3, <4>1 DEF Proceed, TypeOK, Txs, Stages
      <3> QED BY <3>2, <3>3
    <2>3. CASE ConfirmTimesOut BY <1>8, <2>1, <2>3 DEF ConfirmTimesOut, Results, TypeOK
    <2> QED BY <1>16, <2>2, <2>3 DEF Confirm
  <1>17. CASE UNCHANGED vars BY <1>17 DEF vars, TypeOK, Txs
  <1> QED
    BY <1>1, <1>2, <1>3, <1>4, <1>5, <1>6, <1>7, <1>10, <1>11, <1>13, <1>14, <1>15,
       <1>16, <1>17, <1>18, <1>19 DEF Next, ClientStep

-----------------------------------------------------------------------------
(* What the user is told.                                                  *)

told_vars == <<stage, operation, txs, res, reported, pending, status, openedBy, wrapped, done>>

(* A step that moves none of these, whatever else it moves. *)
LEMMA Unmoved == Told /\ UNCHANGED told_vars => Told'
  <1> SUFFICES ASSUME Told, UNCHANGED told_vars PROVE Told' OBVIOUS
  <1> USE DEF Told, told_vars
  <1>1. Counted' /\ RefreshesOpenNothing' BY DEF Counted, RefreshesOpenNothing, Trading
  <1> USE DEF Trading
  <1>2. Waiting' BY DEF Waiting, Ours
  <1>3. BundleOK' BY DEF BundleOK, Ours
  <1>4. Untouched' /\ NothingLeft' BY DEF Untouched, NothingLeft
  <1>5. SuccessMeansDone' BY DEF SuccessMeansDone
  <1>6. CancelledSentNothing' BY DEF CancelledSentNothing
  <1>7. OneInFlight' BY DEF OneInFlight
  <1> QED BY <1>1, <1>2, <1>3, <1>4, <1>5, <1>6, <1>7

(* Only a trade trades, and only what is no refresh opens accounts.        *)
LEMMA LandEffect ==
  ASSUME TypeOK, Told, NEW tx \in pending, Land(tx)
  PROVE  /\ done \subseteq done'
         /\ \A o \in done' \ done : o = tx.operation /\ tx.kind = "trade"
         /\ \A a \in Accounts : \A o \in openedBy'[a] \ openedBy[a] :
                o = tx.operation /\ tx.kind # "refresh"
         /\ \A o \in wrapped' \ wrapped : o = tx.operation /\ tx.kind # "refresh" /\ tx.wraps
         /\ pending' = pending \ {tx}
         /\ Awaited(tx) => status' # {} /\ (FALSE \in status' /\ tx.kind = "trade"
                                             => /\ tx.operation \in done'
                                                /\ tx.wraps => tx.operation \notin wrapped'
                                                /\ ~tx.wraps => wrapped' = wrapped)
         /\ ~Awaited(tx) => status' = status
         /\ UNCHANGED <<stage, operation, txs, res, reported>>
  <1>1. tx.kind = "refresh" => tx.opens = {} /\ ~tx.wraps
    BY DEF Told, RefreshesOpenNothing, OpensNothing
  <1>2. CASE Succeeds(tx) /\ Executed(tx, FALSE)
    BY <1>1, <1>2 DEF Succeeds, Executed, client
  <1>3. CASE UNCHANGED <<accruedUntil, openedBy, wrapped, done>> /\ Executed(tx, TRUE)
    BY <1>3 DEF Executed, client
  <1> QED BY <1>2, <1>3 DEF Land

LEMMA LandTold ==
  ASSUME TypeOK, Told, NEW tx \in pending, Land(tx)
  PROVE  Told'
  <1> USE LandEffect
  <1> USE DEF Trading
  <1>1. Counted' /\ RefreshesOpenNothing' BY DEF Told, Counted, RefreshesOpenNothing
  <1>2. Waiting'
    <2>1. CASE Awaited(tx) BY <2>1 DEF Told, Waiting, Awaited, Ours
    <2>2. CASE ~Awaited(tx) BY <2>2 DEF Told, Waiting, Ours
    <2> QED BY <2>1, <2>2
  <1>3. BundleOK'
    <2>1. ASSUME stage = "confirming", FALSE \in status', Len(txs) = 1
          PROVE operation \in done' /\ operation \notin wrapped'
      <3>1. CASE Awaited(tx)
        <4>1. tx = txs[1] /\ Ours(tx) /\ tx.kind = "trade" /\ (operation \in wrapped => tx.wraps)
          BY <2>1, <3>1 DEF Awaited, Told, BundleOK, TypeOK, Waiting
        <4> QED BY <2>1, <3>1, <4>1 DEF Ours
      <3>2. CASE ~Awaited(tx)
        <4>1. ~Ours(tx) BY <2>1, <3>2 DEF Told, Waiting
        <4> QED BY <2>1, <3>2, <4>1 DEF Told, BundleOK, Ours
      <3> QED BY <3>1, <3>2
    <2>2. ASSUME stage \in {"signing", "sending", "confirming"}, operation \in wrapped' \ wrapped
          PROVE txs[Len(txs)].wraps
      <3>1. stage = "confirming" /\ Ours(tx) /\ tx.wraps /\ tx = Head(txs) /\ txs # <<>>
        BY <2>2 DEF Told, Waiting, Ours
      <3>2. 1 \in DOMAIN txs /\ txs[1].wraps BY <3>1 DEF TypeOK
      <3> QED BY <2>2, <3>2 DEF Told, BundleOK
    <2> QED BY <2>1, <2>2 DEF Told, BundleOK, Ours
  <1>4. Untouched'
    <2>1. UNCHANGED <<stage, operation, txs>> OBVIOUS
    <2>2. ASSUME stage \in {"refreshing", "confirming_refresh", "rent", "signing"}
          PROVE  /\ operation \notin done' \union wrapped'
                 /\ \A a \in Accounts : operation \notin openedBy'[a]
      <3>1. Ours(tx) => tx.kind = "refresh" BY <2>2 DEF Told, Waiting, Untouched
      <3>2. operation \notin done \union wrapped /\ \A a \in Accounts : operation \notin openedBy[a]
        BY <2>2 DEF Told, Untouched
      <3> QED BY <3>1, <3>2 DEF Ours
    <2>3. Untouched BY DEF Told
    <2> QED BY <2>1, <2>2, <2>3 DEF Untouched
  <1>5. SuccessMeansDone' /\ NothingLeft' BY DEF Told, SuccessMeansDone, NothingLeft
  <1>6. CancelledSentNothing' BY DEF Told, CancelledSentNothing
  <1>7. OneInFlight' BY DEF Told, OneInFlight
  <1> QED BY <1>1, <1>2, <1>3, <1>4, <1>5, <1>6, <1>7 DEF Told

(* A report, or none, ends a trade; nothing but this trade may have gone   *)
(* out.                                                                    *)
LEMMA ReportTold ==
  ASSUME TypeOK, Told, Trading, NEW result \in Results, Report(result) \/ Throw,
         UNCHANGED <<openedBy, wrapped, done>>, status' = {},
         \A tx \in pending' \ pending : Ours(tx) /\ OpensNothing(tx),
         OneInFlight',
         result = "Success" => /\ operation \in done /\ operation \notin wrapped
                               /\ \A tx \in pending' : ~Ours(tx),
         result = "Cancelled" =>
             /\ operation \notin done \union wrapped
             /\ \A a \in Accounts : operation \notin openedBy[a]
             /\ \A tx \in pending' : Ours(tx) => tx.kind = "refresh"
  PROVE  Told'
  <1>1. stage' \in {"idle", "thrown"} /\ operation' = operation
    BY DEF Report, Throw
  <1>2. reported \in Seq(Reports) /\ operation \in Nat /\ Len(reported) + 1 = operation
    BY DEF TypeOK, Told, Counted
  <1>. PICK told \in {result, "Silent"} : reported' = Append(reported, told)
    BY DEF Report, Throw
  <1>3. /\ Len(reported') = operation /\ DOMAIN reported' = 1..operation
        /\ reported'[operation] = told
        /\ \A o \in DOMAIN reported : o # operation /\ reported'[o] = reported[o]
        /\ \A o \in DOMAIN reported' : o = operation \/ o \in DOMAIN reported
    BY <1>1, <1>2 DEF Results, Reports
  <1>4. Counted' BY <1>1, <1>3 DEF Counted, Trading
  <1>5. RefreshesOpenNothing' BY DEF Told, RefreshesOpenNothing
  <1>6. Waiting' /\ BundleOK' /\ Untouched' BY <1>1 DEF Waiting, BundleOK, Untouched, Trading
  <1>7. SuccessMeansDone' BY <1>3 DEF Told, SuccessMeansDone
  <1>9. NothingLeft' BY <1>1, <1>3 DEF Told, NothingLeft, Ours
  <1>8. CancelledSentNothing'
    <2> SUFFICES ASSUME NEW o \in DOMAIN reported', reported'[o] = "Cancelled"
                 PROVE  /\ o \notin done \union wrapped
                        /\ \A a \in Accounts : o \notin openedBy[a]
                        /\ \A tx \in pending' : tx.operation = o => tx.kind = "refresh"
      BY DEF CancelledSentNothing
    <2>1. CASE o = operation BY <1>3, <2>1 DEF Ours
    <2>2. CASE o # operation
      <3>1. o \in DOMAIN reported /\ reported[o] = "Cancelled" BY <1>3, <2>2
      <3>2. \A tx \in pending' : tx.operation = o => tx \in pending BY <2>2 DEF Ours
      <3> QED BY <3>1, <3>2 DEF Told, CancelledSentNothing
    <2> QED BY <2>1, <2>2
  <1> QED BY <1>4, <1>5, <1>6, <1>7, <1>8, <1>9 DEF Told

(* One more transaction of a trade none of whose transactions is pending.  *)
LEMMA SentOne ==
  ASSUME Told, NEW tx, Ours(tx), \A t \in pending : ~Ours(t), OpensNothing(tx),
         pending' \in {pending, pending \union {tx}}
  PROVE  /\ OneInFlight' /\ RefreshesOpenNothing'
         /\ \A t \in pending' \ pending : t = tx
  BY DEF Told, OneInFlight, RefreshesOpenNothing, Ours

LEMMA RefreshTxIs == Ours(RefreshTx) /\ RefreshTx.kind = "refresh" /\ OpensNothing(RefreshTx)
  BY DEF RefreshTx, Tx, Ours, OpensNothing

(* Awaiting the first of what is left, just sent. *)
LEMMA SentTold ==
  ASSUME TypeOK, Told, NEW tx, Ours(tx), OpensNothing(tx),
         stage \in {"refreshing", "sending"},
         Sent(tx), UNCHANGED <<operation, res, reported>>,
         txs' # <<>>, Head(txs') = tx,
         stage' = IF stage = "sending" THEN "confirming" ELSE "confirming_refresh",
         stage = "sending" => txs' = txs,
         stage = "refreshing" => tx.kind = "refresh"
  PROVE  Told'
  <1>1. /\ pending' = pending \union {tx}
        /\ status' = status /\ UNCHANGED <<openedBy, wrapped, done>>
    BY DEF Sent, chain
  <1>2. status = {} /\ \A t \in pending : ~Ours(t) BY DEF Told, Waiting, Trading
  <1>3. OneInFlight' /\ RefreshesOpenNothing' BY <1>1, <1>2, SentOne
  <1>4. Counted' BY DEF Told, Counted, Trading
  <1>5. Waiting' BY <1>1, <1>2 DEF Waiting, Ours, Told
  <1>6. BundleOK'
    <2>1. FALSE \notin status' BY <1>1, <1>2
    <2>2. CASE stage = "refreshing" BY <2>2 DEF BundleOK
    <2>3. CASE stage = "sending"
      <3>1. BundleOK /\ txs' = txs /\ wrapped' = wrapped /\ operation' = operation BY <1>1, <2>3 DEF Told
      <3> QED BY <2>1, <2>3, <3>1 DEF BundleOK, Ours
    <2> QED BY <2>2, <2>3
  <1>7. Untouched' BY <1>1 DEF Told, Untouched
  <1>8. \A o \in DOMAIN reported : o # operation BY DEF Told, Counted, Trading, TypeOK
  <1>9. SuccessMeansDone' /\ NothingLeft'
    BY <1>1, <1>8 DEF Told, SuccessMeansDone, NothingLeft, Ours
  <1>10. CancelledSentNothing' BY <1>1, <1>8 DEF Told, CancelledSentNothing, Ours
  <1> QED BY <1>3, <1>4, <1>5, <1>6, <1>7, <1>9, <1>10 DEF Told

(* Back to the loop of refreshes. *)
LEMMA NextRefreshTold ==
  ASSUME TypeOK, Told, stage \in {"refreshing", "confirming_refresh"}, NEW result \in Results,
         NextRefresh(result), UNCHANGED <<openedBy, wrapped, done, pending>>, status' = {},
         \A tx \in pending : ~Ours(tx)
  PROVE  Told'
  <1>1. stage' = "refreshing" /\ UNCHANGED <<operation, txs, reported>> BY DEF NextRefresh
  <1> USE DEF Trading
  <1>2. Counted' /\ RefreshesOpenNothing' BY <1>1 DEF Told, Counted, RefreshesOpenNothing
  <1>3. Waiting' BY <1>1 DEF Waiting, Ours
  <1>4. BundleOK' BY <1>1 DEF BundleOK
  <1>5. Untouched' BY <1>1 DEF Told, Untouched
  <1>6. SuccessMeansDone' /\ NothingLeft' /\ OneInFlight' BY <1>1 DEF Told, SuccessMeansDone, NothingLeft, OneInFlight
  <1>7. CancelledSentNothing' BY <1>1 DEF Told, CancelledSentNothing
  <1> QED BY <1>2, <1>3, <1>4, <1>5, <1>6, <1>7 DEF Told

(* The end of a trade with nothing sent in the same step. *)
LEMMA JustReport ==
  ASSUME TypeOK, Told, Trading, NEW result \in Results, Report(result) \/ Throw,
         UNCHANGED <<openedBy, wrapped, done, pending>>, status' = {},
         result = "Success" => /\ operation \in done /\ operation \notin wrapped
                               /\ \A tx \in pending : ~Ours(tx),
         result = "Cancelled" => stage \in {"refreshing", "signing"}
  PROVE  Told'
  <1>1. OneInFlight' BY DEF Told, OneInFlight
  <1>2. result = "Cancelled" => \A tx \in pending' : ~Ours(tx) BY DEF Told, Waiting, Trading
  <1>3. result = "Cancelled" =>
            /\ operation \notin done \union wrapped
            /\ \A a \in Accounts : operation \notin openedBy[a]
    BY DEF Told, Untouched
  <1>4. \A tx \in pending' \ pending : FALSE OBVIOUS
  <1> QED BY <1>1, <1>2, <1>3, <1>4, ReportTold

(* A call that throws is a failure, with its transaction sent or not.      *)
LEMMA ThrowTold ==
  ASSUME TypeOK, Told, stage \in {"refreshing", "sending"}, NEW tx, Ours(tx),
         OpensNothing(tx),
         SendThrows(tx), Report("Failed")
  PROVE  Told'
  <1>1. Trading /\ status = {} /\ \A t \in pending : ~Ours(t) BY DEF Told, Waiting, Trading
  <1>2. UNCHANGED <<status, openedBy, wrapped, done>> BY DEF SendThrows, chain
  <1>3. OneInFlight' /\ \A t \in pending' \ pending : t = tx
    BY <1>1, SentOne DEF SendThrows
  <1> QED BY <1>1, <1>2, <1>3, ReportTold DEF Results

LEMMA ToldNext == TypeOK /\ Told /\ [Next]_vars => Told'
  <1> SUFFICES ASSUME TypeOK, Told, [Next]_vars PROVE Told' OBVIOUS
  <1> USE DEF chain, network, view, loop, client, Trading
  <1>1. CASE Tick BY <1>1, Unmoved DEF Tick, told_vars
  <1>2. ASSUME NEW tx \in pending, Land(tx) PROVE Told' BY <1>2, LandTold
  <1>3. ASSUME NEW tx \in pending, Lose(tx) PROVE Told'
    <2>1. pending' \subseteq pending
          /\ UNCHANGED <<stage, operation, txs, res, reported, status, openedBy, wrapped, done>>
      BY <1>3 DEF Lose
    <2>2. Counted' /\ RefreshesOpenNothing' BY <2>1 DEF Told, Counted, RefreshesOpenNothing
    <2>3. Waiting' BY <2>1 DEF Told, Waiting, Ours
    <2>4. BundleOK' BY <2>1 DEF Told, BundleOK, Ours
    <2>5. Untouched' BY <2>1 DEF Told, Untouched
    <2>6. SuccessMeansDone' /\ NothingLeft' /\ OneInFlight' BY <2>1 DEF Told, SuccessMeansDone, NothingLeft, OneInFlight
    <2>7. CancelledSentNothing' BY <2>1 DEF Told, CancelledSentNothing
    <2> QED BY <2>2, <2>3, <2>4, <2>5, <2>6, <2>7 DEF Told
  <1>4. CASE Notify BY <1>4, Unmoved DEF Notify, told_vars
  <1>5. CASE DisconnectWallet BY <1>5, Unmoved DEF DisconnectWallet, told_vars
  <1>6. ASSUME NEW action \in Actions, NEW r \in Reserves, SubmitTrade(action, r)
        PROVE Told'
    <2>1. /\ stage \in {"idle", "thrown"} /\ stage' = "refreshing" /\ operation' = operation + 1
          /\ UNCHANGED <<pending, status, openedBy, wrapped, done, reported>>
      BY <1>6 DEF SubmitTrade
    <2>2. operation \in Nat /\ Len(reported) = operation BY <2>1 DEF TypeOK, Told, Counted
    <2>3. \A tx \in pending : tx.operation # operation' BY <2>1, <2>2 DEF TypeOK, Txs
    <2>4. Counted' BY <2>1, <2>2 DEF Counted
    <2>5. RefreshesOpenNothing' /\ SuccessMeansDone' /\ NothingLeft' /\ OneInFlight'
      BY <2>1 DEF Told, RefreshesOpenNothing, SuccessMeansDone, NothingLeft, OneInFlight
    <2>6. CancelledSentNothing' BY <2>1 DEF Told, CancelledSentNothing
    <2>7. Waiting' BY <2>1, <2>3 DEF Told, Waiting, Ours
    <2>8. BundleOK' BY <2>1 DEF BundleOK
    <2>9. Untouched'
      <3>1. operation' \notin 1..operation /\ operation' \notin 0..operation BY <2>1, <2>2
      <3>2. operation' \notin done \union wrapped BY <3>1 DEF TypeOK
      <3>3. \A a \in Accounts : operation' \notin openedBy[a] BY <3>1 DEF TypeOK
      <3> QED BY <2>1, <3>2, <3>3 DEF Untouched
    <2> QED BY <2>4, <2>5, <2>6, <2>7, <2>8, <2>9 DEF Told
  <1>7. ASSUME NEW r \in Reserves, NextReserve(r) PROVE Told'
    BY <1>7, Unmoved DEF NextReserve, told_vars
  <1>10. CASE RefreshOldReserve
    <2>1. stage = "refreshing" /\ status = {} /\ \A tx \in pending : ~Ours(tx)
      BY <1>10 DEF RefreshOldReserve, Told, Waiting
    <2>2. CASE NextRefresh("Cancelled") /\ UNCHANGED <<chain, network, view, connected, native>>
      BY <2>1, <2>2, NextRefreshTold DEF Results
    <2>3. CASE SendThrows(RefreshTx) /\ Report("Failed")
      BY <2>1, <2>3, RefreshTxIs, ThrowTold
    <2>4. CASE /\ Sent(RefreshTx)
               /\ stage' = "confirming_refresh" /\ txs' = <<RefreshTx>>
               /\ UNCHANGED <<operation, trade, loop, res, reported>>
      <3>1. txs' # <<>> /\ Head(txs') = RefreshTx BY <2>4
      <3> QED BY <2>1, <2>4, <3>1, RefreshTxIs, SentTold
    <2> QED BY <1>10, <2>2, <2>3, <2>4 DEF RefreshOldReserve
  <1>11. CASE ConfirmRefresh
    <2>1. stage = "confirming_refresh" /\ status' = {} /\ UNCHANGED <<openedBy, wrapped, done, pending>>
      BY <1>11 DEF ConfirmRefresh
    <2>2. ASSUME NEW err \in BOOLEAN, NEW result \in Results, Status(err), NextRefresh(result)
          PROVE Told'
      <3>1. \A tx \in pending : ~Ours(tx) BY <2>1, <2>2 DEF Told, Waiting, Status
      <3> QED BY <2>1, <2>2, <3>1, NextRefreshTold
    <2>3. CASE Report("Failed") BY <2>1, <2>3, JustReport DEF Results
    <2> QED BY <1>11, <2>2, <2>3 DEF ConfirmRefresh, Results
  <1>12. ASSUME stage \in {"refreshing", "rent"}, status' = status, res = "Success",
                UNCHANGED <<openedBy, wrapped, done, pending>>, BuildBundle
         PROVE  Told'
    <2>1. status = {} /\ \A tx \in pending : ~Ours(tx) BY <1>12 DEF Told, Waiting
    <2>2. /\ txs' = Bundle /\ stage' = "signing"
          /\ UNCHANGED <<operation, trade, loop, res, reported>>
      BY <1>12 DEF BuildBundle
    <2>3. Counted' /\ RefreshesOpenNothing'
      BY <1>12, <2>2 DEF Told, Counted, RefreshesOpenNothing
    <2>4. Waiting' BY <1>12, <2>1, <2>2 DEF Waiting, Ours
    <2>5. operation > 0 /\ operation \notin wrapped BY <1>12 DEF Told, Counted, Untouched
    <2>6. BundleOK' BY <1>12, <2>2, <2>5, BundleType DEF BundleOK, Ours
    <2>7. Untouched' BY <1>12, <2>2 DEF Told, Untouched
    <2>8. SuccessMeansDone' /\ NothingLeft' /\ OneInFlight'
      BY <1>12, <2>2 DEF Told, SuccessMeansDone, NothingLeft, OneInFlight
    <2>9. CancelledSentNothing' BY <1>12, <2>2 DEF Told, CancelledSentNothing
    <2> QED BY <2>3, <2>4, <2>6, <2>7, <2>8, <2>9 DEF Told
  <1>18. CASE StartTrade
    <2>1. /\ stage = "refreshing" /\ UNCHANGED <<openedBy, wrapped, done, pending, status>>
          /\ status = {} /\ \A tx \in pending : ~Ours(tx)
      BY <1>18 DEF StartTrade, Running, Told, Waiting
    <2>2. CASE (Report(res) /\ res # "Success") \/ Throw \/ Report("Failed")
      <3>3. CASE Report("Failed") BY <2>1, <3>3, JustReport DEF Results
      <3>1. CASE Report(res) /\ res # "Success" BY <2>1, <3>1, JustReport DEF TypeOK
      <3>2. CASE Throw BY <2>1, <3>2, JustReport DEF Results
      <3> QED BY <2>2, <3>1, <3>2, <3>3
    <2>3. CASE res = "Success" /\ stage' = "rent"
               /\ UNCHANGED <<operation, trade, loop, res, txs, reported>>
      <3>1. Counted' /\ RefreshesOpenNothing'
        BY <2>1, <2>3 DEF Told, Counted, RefreshesOpenNothing
      <3>2. Waiting' /\ BundleOK' BY <2>1, <2>3 DEF Waiting, BundleOK, Ours
      <3>3. Untouched' BY <2>1, <2>3 DEF Told, Untouched
      <3>4. SuccessMeansDone' /\ NothingLeft' /\ OneInFlight'
        BY <2>1, <2>3 DEF Told, SuccessMeansDone, NothingLeft, OneInFlight
      <3>5. CancelledSentNothing' BY <2>1, <2>3 DEF Told, CancelledSentNothing
      <3> QED BY <3>1, <3>2, <3>3, <3>4, <3>5 DEF Told
    <2>4. CASE res = "Success" /\ BuildBundle BY <1>12, <2>1, <2>4
    <2> QED BY <1>18, <2>2, <2>3, <2>4 DEF StartTrade
  <1>19. CASE AwaitRent
    <2>1. /\ stage = "rent" /\ UNCHANGED <<openedBy, wrapped, done, pending, status>>
          /\ status = {} /\ res = "Success"
      BY <1>19 DEF AwaitRent, Told, Waiting, BundleOK
    <2>2. CASE Throw BY <2>1, <2>2, JustReport DEF Results
    <2>3. CASE BuildBundle BY <1>12, <2>1, <2>3
    <2> QED BY <1>19, <2>2, <2>3 DEF AwaitRent
  <1>13. CASE WalletRefuses
    <2>1. stage = "signing" /\ Report("Cancelled") /\ UNCHANGED <<openedBy, wrapped, done, pending, status>>
      BY <1>13 DEF WalletRefuses, Signing
    <2>2. status' = {} BY <2>1 DEF Told, Waiting
    <2> QED BY <2>1, <2>2, JustReport DEF Results
  <1>14. CASE SignAll
    <2>1. /\ stage = "signing" /\ stage' = "sending"
          /\ UNCHANGED <<operation, txs, res, reported, pending, status, openedBy, wrapped, done>>
      BY <1>14 DEF SignAll
    <2>2. Counted' /\ RefreshesOpenNothing' BY <2>1 DEF Told, Counted, RefreshesOpenNothing
    <2>3. Waiting' BY <2>1 DEF Told, Waiting, Ours
    <2>4. BundleOK' BY <2>1 DEF Told, BundleOK, Ours
    <2>5. Untouched' BY <2>1 DEF Untouched
    <2>6. SuccessMeansDone' /\ NothingLeft' /\ OneInFlight' BY <2>1 DEF Told, SuccessMeansDone, NothingLeft, OneInFlight
    <2>7. CancelledSentNothing' BY <2>1 DEF Told, CancelledSentNothing
    <2> QED BY <2>2, <2>3, <2>4, <2>5, <2>6, <2>7 DEF Told
  <1>15. CASE Send
    <2>1. /\ stage = "sending" /\ txs # <<>> /\ Ours(Head(txs)) /\ Head(txs).kind # "refresh"
          /\ OpensNothing(Head(txs))
      BY <1>15 DEF Send, Told, BundleOK, TypeOK, OpensNothing
    <2>2. CASE SendThrows(Head(txs)) /\ Report("Failed") BY <2>1, <2>2, ThrowTold
    <2>3. CASE Sent(Head(txs)) /\ stage' = "confirming"
               /\ UNCHANGED <<operation, trade, loop, res, txs, reported>>
      BY <2>1, <2>3, SentTold
    <2> QED BY <1>15, <2>2, <2>3 DEF Send
  <1>16. CASE Confirm
    <2>1. stage = "confirming" /\ UNCHANGED <<openedBy, wrapped, done, pending>> /\ status' = {}
      BY <1>16 DEF Confirm
    <2>2. CASE ConfirmTimesOut BY <2>1, <2>2, JustReport DEF ConfirmTimesOut, Results
    <2>3. ASSUME NEW err \in BOOLEAN, Status(err), Proceed(ResultWith(err)) PROVE Told'
      <3> DEFINE result == ResultWith(err)
      <3>1. result \in Results /\ result # "Cancelled" /\ (result = "Success" => err = FALSE)
        BY <2>1 DEF ResultWith, Results, TypeOK, Told, BundleOK
      <3>2. CASE Len(txs) = 1
        <4>1. result = "Success" => /\ operation \in done /\ operation \notin wrapped
                                    /\ \A tx \in pending : ~Ours(tx)
          BY <2>1, <2>3, <3>1, <3>2 DEF Status, Told, BundleOK, Waiting
        <4>2. Report(result) BY <2>3, <3>2 DEF Proceed
        <4> QED BY <2>1, <3>1, <4>1, <4>2, JustReport
      <3>3. CASE Len(txs) # 1
        <4>1. /\ res' = result /\ txs' = Tail(txs) /\ stage' = "sending"
              /\ operation' = operation /\ reported' = reported
          BY <2>3, <3>3 DEF Proceed
        <4>2. \A tx \in pending : ~Ours(tx) BY <2>1, <2>3 DEF Status, Told, Waiting
        <4>3. Counted' /\ RefreshesOpenNothing'
          BY <2>1, <4>1 DEF Told, Counted, RefreshesOpenNothing
        <4>4. Waiting' BY <2>1, <4>1, <4>2 DEF Waiting, Ours
        <4>5. BundleOK'
          <5>1. /\ txs \in Seq(Txs) /\ txs # <<>>
                /\ \A i \in DOMAIN txs : Ours(txs[i]) /\ txs[i].kind # "refresh"
                /\ txs[Len(txs)].kind = "trade"
                /\ (operation \in wrapped \/ \E i \in DOMAIN txs : txs[i].wraps)
                       => txs[Len(txs)].wraps
            BY <2>1 DEF TypeOK, Told, BundleOK
          <5>2. Len(txs) \in Nat /\ Len(txs) > 1 /\ DOMAIN txs = 1..Len(txs)
            <6>1. Len(txs) \in Nat /\ Len(txs) # 0 /\ DOMAIN txs = 1..Len(txs) BY <5>1
            <6>2. Len(txs) # 1 BY <3>3
            <6> QED BY <6>1, <6>2
          <5>3. /\ Len(txs') = Len(txs) - 1 /\ DOMAIN txs' = 1..(Len(txs) - 1)
                /\ \A i \in DOMAIN txs' : txs'[i] = txs[i + 1] /\ i + 1 \in DOMAIN txs
            BY <4>1, <5>1, <5>2
          <5>4. txs' # <<>> /\ txs'[Len(txs')] = txs[Len(txs)] BY <5>2, <5>3
          <5> QED BY <2>1, <3>1, <4>1, <5>1, <5>3, <5>4 DEF BundleOK, Ours
        <4>6. Untouched' BY <4>1 DEF Untouched
        <4>7. SuccessMeansDone' /\ NothingLeft' /\ OneInFlight'
          BY <2>1, <4>1 DEF Told, SuccessMeansDone, NothingLeft, OneInFlight
        <4>8. CancelledSentNothing' BY <2>1, <4>1 DEF Told, CancelledSentNothing
        <4> QED BY <4>3, <4>4, <4>5, <4>6, <4>7, <4>8 DEF Told
      <3> QED BY <3>2, <3>3
    <2> QED BY <1>16, <2>2, <2>3 DEF Confirm
  <1>17. CASE UNCHANGED vars BY <1>17, Unmoved DEF vars, told_vars
  <1> QED
    BY <1>1, <1>2, <1>3, <1>4, <1>5, <1>6, <1>7, <1>10, <1>11, <1>13, <1>14, <1>15,
       <1>16, <1>17, <1>18, <1>19 DEF Next, ClientStep

LEMMA InitTold == Init => Told
  <1> SUFFICES ASSUME Init PROVE Told OBVIOUS
  <1> QED
    BY DEF Init, Told, Counted, RefreshesOpenNothing, Waiting, BundleOK, Untouched, Trading,
           NothingLeft, SuccessMeansDone, CancelledSentNothing, OneInFlight

LEMMA ClientInvariant == Spec => []ClientInv
  <1>1. Init => ClientInv BY InitType, InitTold DEF ClientInv
  <1>2. ClientInv /\ [Next]_vars => ClientInv' BY TypeNext, ToldNext DEF ClientInv
  <1> QED BY <1>1, <1>2, PTL DEF Spec

(* No reserve is accrued beyond the clock in the client's eyes, and no     *)
(* transaction is of a trade that was not submitted.                       *)
THEOREM ClientTypeCorrect == Spec => []TypeOK
  <1>1. ClientInv => TypeOK BY DEF ClientInv
  <1> QED BY <1>1, ClientInvariant, PTL

(* submitTrade reports Success only for a trade that was made.             *)
THEOREM SuccessIsTrue == Spec => []SuccessMeansDone
  <1>1. ClientInv => SuccessMeansDone BY DEF ClientInv, Told
  <1> QED BY <1>1, ClientInvariant, PTL

(* A trade reported as Cancelled never has an effect.                      *)
THEOREM CancelledIsTrue == Spec => []CancelledSentNothing
  <1>1. ClientInv => CancelledSentNothing BY DEF ClientInv, Told
  <1> QED BY <1>1, ClientInvariant, PTL

(* sendAllTransactions never has two transactions of a trade in flight.    *)
THEOREM OneAtATime == Spec => []OneInFlight
  <1>1. ClientInv => OneInFlight BY DEF ClientInv, Told
  <1> QED BY <1>1, ClientInvariant, PTL
=============================================================================
