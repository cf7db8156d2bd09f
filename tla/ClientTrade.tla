---------------------------- MODULE ClientTrade ----------------------------
(***************************************************************************)
(* A user deposits, withdraws, borrows or repays in the web client:        *)
(* reserves that are far behind are refreshed by transactions of their     *)
(* own, then one transaction, or two of which the first opens accounts,    *)
(* make the trade.  Each is sent when the one before was confirmed.  The   *)
(* client decides by what its subscriptions showed it last; a transaction  *)
(* may fail, be lost, or be answered for too late, and the user may        *)
(* disconnect the wallet.  A trade of native SOL goes through an account   *)
(* that wraps it, whose rent the client asks the network for first.        *)
(*                                                                         *)
(* Time is counted in MAX_ACCRUAL_SECONDS, and everything of the program   *)
(* that the client does not look at is whether a transaction fails.        *)
(***************************************************************************)
EXTENDS Naturals, Sequences

CONSTANTS
    Reserves,
    Actions,         \* of "deposit", "withdraw", "borrow" and "repay"
    MaxOperations,   \* bound: how often the user trades
    FirstTime,       \* when the user comes, the reserves are at 0
    MaxTime          \* bound: the last moment of the model

ASSUME ActionsAssumption == Actions \subseteq {"deposit", "withdraw", "borrow", "repay"}
ASSUME TimesAssumption ==
    /\ MaxOperations \in Nat /\ FirstTime \in Nat /\ MaxTime \in Nat
    /\ FirstTime <= MaxTime

VARIABLES
    now,                    \* the time on chain and in the client
    accruedUntil,           \* of every reserve, on chain
    openedBy,               \* of every account on chain: {}, or the operation
                            \*   that opened it
    wrapped,                \* the operations whose wrapped account is open
    done,                   \* the operations whose trade was made, on chain
    pending,                \* transactions on the network
    status,                 \* of the one the client waits for, if it was executed
    market,                 \* market.reserves: accruedUntil, as subscribed
    exists,                 \* user.assets: the accounts that exist, as subscribed
    connected,              \* user.assets # null
    native,                 \* the reserves of native SOL
    operation, trade,       \* the trade under way: its number, action and reserve
    stage,                  \* where submitTrade is
    left, reserve, until,   \* refreshOldReserves: reserves to visit, the one it is
                            \*   at, and its own accruedUntil for it
    res, txs,               \* the result so far, transactions left to send
    reported                \* what the user was told of each operation

chain == <<now, accruedUntil, openedBy, wrapped, done>>
network == <<pending, status>>
view == <<market, exists>>
loop == <<left, reserve, until>>
client == <<operation, trade, stage, loop, res, txs, reported>>
vars == <<chain, network, view, connected, native, client>>

(* The accounts a trade is made with; all but a repayment open those that  *)
(* do not exist.                                                           *)
Uses(action) ==
    CASE action = "deposit"  -> {"deposit"}
      [] action = "withdraw" -> {"wallet"}
      [] action = "borrow"   -> {"wallet", "loan"}
      [] action = "repay"    -> {"wallet"}

Accounts == UNION {Uses(action) : action \in Actions}
(* The app ignores what wrapped SOL the wallet has, and wraps afresh. *)
IsNative == trade.reserve \in native
Needs == IF IsNative THEN Uses(trade.action) \ {"wallet"} ELSE Uses(trade.action)

Open == {a \in Accounts : openedBy[a] # {}}

(* What the instructions of a transaction open, use and refresh; one that  *)
(* wraps opens an account of its own to the trade, or uses and closes it.  *)
(* The refreshes of a reserve differ by how far they should bring it.      *)
Tx(kind, opens, uses, refreshes, wraps) ==
    [operation |-> operation, kind |-> kind, opens |-> opens, uses |-> uses,
     refreshes |-> refreshes, wraps |-> wraps,
     until |-> IF kind = "refresh" THEN until ELSE 0]

RefreshTx == Tx("refresh", {}, {}, {reserve}, FALSE)

Init ==
    /\ now = FirstTime
    /\ accruedUntil = [r \in Reserves |-> 0] /\ market = accruedUntil
    /\ openedBy \in [Accounts -> {{}, {0}}] /\ exists = Open
    /\ wrapped = {} /\ done = {} /\ pending = {} /\ status = {}
    /\ connected = TRUE /\ native \in SUBSET Reserves
    /\ operation = 0 /\ stage = "idle" /\ trade = <<>>
    /\ left = {} /\ reserve \in Reserves /\ until = FirstTime
    /\ res = "Success" /\ txs = <<>> /\ reported = <<>>

-----------------------------------------------------------------------------
(* The chain, the network, the subscriptions and the wallet.               *)

IsOld == until + 1 < now

(* Between two awaits nothing else happens in the page. *)
Running == stage = "refreshing" /\ ~IsOld

Tick ==
    /\ ~Running /\ now < MaxTime
    /\ now' = now + 1
    /\ UNCHANGED <<accruedUntil, openedBy, wrapped, done>>
    /\ UNCHANGED <<network, view, connected, native, client>>

AlwaysAccrues(r) == accruedUntil[r] + 1   \* mutant
(* refresh_reserve: one accrual at most, and none beyond the clock. *)
Refreshed(r) == IF accruedUntil[r] < now THEN accruedUntil[r] + 1 ELSE accruedUntil[r]

Awaited(tx) == stage \in {"confirming", "confirming_refresh"} /\ tx = Head(txs)

Executed(tx, err) ==
    /\ pending' = pending \ {tx}
    /\ status' = IF Awaited(tx) THEN {err} ELSE status
    /\ UNCHANGED <<now, view, connected, native, client>>

(* A trade is of refreshed reserves and with its accounts, and no account  *)
(* is opened twice.                                                        *)
Succeeds(tx) ==
    /\ tx.opens \intersect Open = {}
    /\ tx.uses \subseteq Open \union tx.opens
    /\ tx.kind = "trade" /\ tx.wraps => tx.operation \in wrapped
    /\ tx.kind = "trade" => \A r \in tx.refreshes : Refreshed(r) = now
    /\ openedBy' = [a \in Accounts |-> IF a \in tx.opens THEN {tx.operation} ELSE openedBy[a]]
    /\ accruedUntil' = [r \in Reserves |->
           IF r \in tx.refreshes THEN Refreshed(r) ELSE accruedUntil[r]]
    /\ wrapped' = IF ~tx.wraps THEN wrapped
                  ELSE IF tx.kind = "open" THEN wrapped \union {tx.operation}
                  ELSE wrapped \ {tx.operation}
    /\ done' = IF tx.kind = "trade" THEN done \union {tx.operation} ELSE done

(* A price that the program refuses, or too little collateral, can make    *)
(* any of them fail.                                                       *)
Land(tx) ==
    /\ tx \in pending
    /\ \/ Succeeds(tx) /\ Executed(tx, FALSE)
       \/ UNCHANGED <<accruedUntil, openedBy, wrapped, done>> /\ Executed(tx, TRUE)

Lose(tx) ==
    /\ tx \in pending
    /\ pending' = pending \ {tx}
    /\ UNCHANGED <<chain, status, view, connected, native, client>>

Notify ==
    /\ ~Running
    /\ market' = accruedUntil /\ exists' = Open
    /\ view' # view
    /\ UNCHANGED <<chain, network, connected, native, client>>

DisconnectWallet ==
    /\ connected /\ ~Running
    /\ connected' = FALSE
    /\ UNCHANGED <<chain, network, view, native, client>>

-----------------------------------------------------------------------------
(* Sending and confirming, of sendTransaction and sendAllTransactions.     *)

(* The network may have it although the call throws. *)
SendThrows(tx) ==
    /\ pending' \in {pending, pending \union {tx}}
    /\ UNCHANGED <<chain, status, view, connected, native>>

Sent(tx) ==
    /\ pending' = pending \union {tx}
    /\ UNCHANGED <<chain, status, view, connected, native>>

(* confirmTransaction: the status, if it comes before the time is up. *)
Status(err) == err \in status

(* What a call kept for itself is gone with it. *)
Forget == left' = {} /\ until' = FirstTime /\ res' = "Success" /\ txs' = <<>>

(* The end of submitTrade.  An error of the input is set whenever an input *)
(* is refused, be it while the trade is under way, and cleared whenever    *)
(* the user picks another reserve; if one is there, the result, whatever   *)
(* it is, is not told.                                                     *)
Report(result) ==
    /\ \E inputError \in BOOLEAN :
           reported' = Append(reported, IF inputError THEN "Silent" ELSE result)
    /\ stage' = "idle" /\ trade' = <<>> /\ Forget
    /\ UNCHANGED <<operation, reserve>>

(* An exception that nobody catches: nothing is said, and sendingTrade     *)
(* remains true.                                                           *)
Throw ==
    /\ reported' = Append(reported, "Silent")
    /\ stage' = "thrown" /\ Forget
    /\ UNCHANGED <<operation, trade, reserve>>

-----------------------------------------------------------------------------
(* submitTrade, up to the loop of refreshOldReserves.  While sendingTrade  *)
(* is true the action cannot be chosen.                                    *)
SubmitTrade(action, r) ==
    /\ stage = "idle" \/ (stage = "thrown" /\ action = trade.action)
    /\ operation < MaxOperations
    /\ connected
    /\ operation' = operation + 1 /\ trade' = [action |-> action, reserve |-> r]
    /\ stage' = "refreshing"
    /\ left' = Reserves /\ until' = now
    /\ res' = "Success" /\ txs' = <<>>
    /\ UNCHANGED <<chain, network, view, connected, native, reserve, reported>>

(* The next reserve of the loop, at what the subscription shows by now. *)
NextReserve(r) ==
    /\ Running
    /\ r \in left
    /\ reserve' = r /\ left' = left \ {r} /\ until' = market[r]
    /\ UNCHANGED <<chain, network, view, connected, native>>
    /\ UNCHANGED <<operation, trade, stage, res, txs, reported>>

AdvanceIfSucceeded(result) == IF result = "Success" THEN until + 1 ELSE until   \* mutant
(* A refresh counts whatever became of it. *)
Advance(result) == until + 1

(* Back to the head of the loop, with the result of this refresh. *)
NextRefresh(result) ==
    /\ until' = Advance(result)
    /\ res' = result /\ stage' = "refreshing"
    /\ UNCHANGED <<operation, trade, left, reserve, txs, reported>>

RefreshOldReserve ==
    /\ stage = "refreshing" /\ IsOld
    /\ \/ /\ NextRefresh("Cancelled")
          /\ UNCHANGED <<chain, network, view, connected, native>>
       \/ SendThrows(RefreshTx) /\ Report("Failed")
       \/ /\ Sent(RefreshTx)
          /\ stage' = "confirming_refresh" /\ txs' = <<RefreshTx>>
          /\ UNCHANGED <<operation, trade, loop, res, reported>>

ConfirmRefresh ==
    /\ stage = "confirming_refresh"
    /\ \/ Status(FALSE) /\ NextRefresh("Success")
       \/ Status(TRUE) /\ NextRefresh("Failed")
       \/ Report("Failed")
    /\ status' = {}
    /\ UNCHANGED <<chain, pending, view, connected, native>>

-----------------------------------------------------------------------------
(* deposit, withdraw, borrow and repay.                                    *)

Missing == Needs \ exists

(* A deposit and a repayment are one transaction, which wraps and unwraps  *)
(* by itself, and refresh one reserve; the others open accounts ahead and  *)
(* refresh them all.                                                       *)
Bundle ==
    LET single(opens) == Tx("trade", opens, Needs, {trade.reserve}, FALSE)
        last == Tx("trade", {}, Needs, Reserves, IsNative)
    IN  CASE trade.action = "deposit" -> <<single(Missing)>>
          [] trade.action = "repay"   -> <<single({})>>
          [] OTHER -> IF Missing = {} /\ ~IsNative THEN <<last>>
                      ELSE <<Tx("open", Missing, {}, {}, IsNative), last>>

BuildBundle ==
    /\ txs' = Bundle /\ stage' = "signing"
    /\ UNCHANGED <<operation, trade, loop, res, reported>>

(* The reserves are refreshed.  Without a wallet, the look at user.assets  *)
(* throws; for native SOL the rent is asked for.                           *)
StartTrade ==
    /\ Running /\ left = {}
    /\ IF res # "Success" THEN Report(res)
       ELSE IF ~connected THEN Throw
       ELSE IF IsNative THEN
            stage' = "rent" /\ UNCHANGED <<operation, trade, loop, res, txs, reported>>
       ELSE IF trade.action = "repay" /\ Missing # {} THEN Report("Failed")
       ELSE BuildBundle
    /\ UNCHANGED <<chain, network, view, connected, native>>

(* The query is made outside any try, and there may be no wallet any more. *)
AwaitRent ==
    /\ stage = "rent"
    /\ Throw \/ (connected /\ BuildBundle)
    /\ UNCHANGED <<chain, network, view, connected, native>>

SignEachBeforeSending == stage \in {"signing", "sending"}   \* mutant
(* All are signed before any is sent. *)
Signing == stage = "signing"

WalletRefuses ==
    /\ Signing
    /\ Report("Cancelled")
    /\ UNCHANGED <<chain, network, view, connected, native>>

SignAll ==
    /\ stage = "signing"
    /\ stage' = "sending"
    /\ UNCHANGED <<chain, network, view, connected, native>>
    /\ UNCHANGED <<operation, trade, loop, res, txs, reported>>

Send ==
    /\ stage = "sending"
    /\ \/ SendThrows(Head(txs)) /\ Report("Failed")
       \/ Sent(Head(txs)) /\ stage' = "confirming"
          /\ UNCHANGED <<operation, trade, loop, res, txs, reported>>

IgnoresStatus(err) == res   \* mutant
ResultWith(err) == IF err THEN "Failed" ELSE res

(* The rest of the bundle is sent even if this one failed. *)
Proceed(result) ==
    IF Len(txs) = 1 THEN Report(result)
    ELSE /\ res' = result /\ txs' = Tail(txs) /\ stage' = "sending"
         /\ UNCHANGED <<operation, trade, loop, reported>>

TimeoutProceeds == Proceed("Failed")   \* mutant
(* confirmTransaction throws, and what is left of the bundle is not sent. *)
ConfirmTimesOut == Report("Failed")

Confirm ==
    /\ stage = "confirming"
    /\ \/ \E err \in BOOLEAN : Status(err) /\ Proceed(ResultWith(err))
       \/ ConfirmTimesOut
    /\ status' = {}
    /\ UNCHANGED <<chain, pending, view, connected, native>>

ClientStep ==
    \/ \E r \in Reserves : NextReserve(r)
    \/ RefreshOldReserve \/ ConfirmRefresh \/ StartTrade \/ AwaitRent
    \/ WalletRefuses \/ SignAll \/ Send \/ Confirm

Next ==
    \/ Tick \/ \E tx \in pending : Land(tx) \/ Lose(tx)
    \/ Notify \/ DisconnectWallet
    \/ \E action \in Actions, r \in Reserves : SubmitTrade(action, r)
    \/ ClientStep

(* The client runs on: calls return or throw, and the user answers the     *)
(* wallet.                                                                 *)
Spec == Init /\ [][Next]_vars /\ WF_vars(ClientStep)

-----------------------------------------------------------------------------
Results == {"Success", "Cancelled", "Failed"}
Reports == Results \union {"Silent"}
Stages ==
    {"idle", "refreshing", "confirming_refresh", "rent", "signing", "sending",
     "confirming", "thrown"}
Txs ==
    [operation : 1..operation, kind : {"refresh", "open", "trade"},
     opens : SUBSET Accounts, uses : SUBSET Accounts, refreshes : SUBSET Reserves,
     wraps : BOOLEAN, until : Nat]

(* No reserve is accrued beyond the clock, and nothing is of a trade that  *)
(* was not submitted.                                                      *)
TypeOK ==
    /\ now \in Nat
    /\ accruedUntil \in [Reserves -> 0..now] /\ market \in [Reserves -> 0..now]
    /\ openedBy \in [Accounts -> SUBSET (0..operation)] /\ exists \subseteq Accounts
    /\ wrapped \subseteq 1..operation /\ done \subseteq 1..operation
    /\ pending \subseteq Txs /\ status \subseteq BOOLEAN
    /\ connected \in BOOLEAN /\ native \subseteq Reserves
    /\ operation \in Nat /\ stage \in Stages
    /\ stage # "idle" => trade \in [action : Actions, reserve : Reserves]
    /\ left \subseteq Reserves /\ reserve \in Reserves /\ until \in Nat
    /\ res \in Results /\ txs \in Seq(Txs)
    /\ reported \in Seq(Reports)

(* What is reported as done is done, through every mix of failures, late   *)
(* answers and retries: the trade of this very operation was made, and the *)
(* account that wrapped SOL for it is closed for good.                     *)
SuccessMeansDone ==
    \A o \in DOMAIN reported : reported[o] = "Success" => o \in done /\ o \notin wrapped

(* What the user cancelled in the wallet has no effect but refreshes, then *)
(* or later: no trade, and no account opened for it either.                *)
CancelledSentNothing ==
    \A o \in DOMAIN reported :
        reported[o] = "Cancelled" =>
            /\ o \notin done \union wrapped /\ \A a \in Accounts : o \notin openedBy[a]
            /\ \A tx \in pending : tx.operation = o => tx.kind = "refresh"

(* A bundle's transactions cannot overtake each other: the network never   *)
(* holds two of an operation.                                              *)
OneInFlight ==
    \A tx1, tx2 \in pending : tx1.operation = tx2.operation => tx1 = tx2

(* submitTrade comes to its end whatever becomes of each refresh ahead and *)
(* each transaction of the bundle.  Two things alone may stop it with      *)
(* sendingTrade true, by an exception nobody catches: the wallet is gone,  *)
(* or, for native SOL, the query of the rent failed.                       *)
Trading == stage \notin {"idle", "thrown"}
Answered ==
    Trading ~> stage = "idle" \/ (stage = "thrown" /\ (~connected \/ IsNative))
=============================================================================
