------------------------- MODULE SubscriptionProofs -------------------------
(***************************************************************************)
(* The subscription of AccountSubscription.tla implements the view of      *)
(* AccountView.tla: every message under way carries the account's state in *)
(* its slot, and what the page uses is no older than what it shows.        *)
(*                                                                         *)
(* And the wallets whose accounts a page subscribes to, of                 *)
(* WalletSession.tla: disconnecting one clears what it displayed for good. *)
(***************************************************************************)
EXTENDS AccountSubscription, WalletSession, TLAPS

HistoryOK == slot \in Nat /\ history \in [0..slot -> Nat]

TrueContext(c) == c.slot \in 0..slot /\ c.state = history[c.slot]

ContextsTrue ==
    /\ \A n \in notifications : TrueContext(n)
    /\ fetch # "asked" => TrueContext(response)

SubscriptionInv == HistoryOK /\ ContextsTrue

(* One state, and no message yet. *)
LEMMA InitInv == Init => SubscriptionInv
  <1> SUFFICES ASSUME Init PROVE SubscriptionInv OBVIOUS
  <1>1. slot = 0 /\ history \in [0..0 -> {0, 1}] BY DEF Init, View!Init
  <1>2. HistoryOK BY <1>1 DEF HistoryOK
  <1> QED BY <1>2 DEF SubscriptionInv, ContextsTrue, Init

(* The past does not change. *)
LEMMA PastKept ==
  ASSUME HistoryOK, View!NextSlot
  PROVE  /\ HistoryOK'
         /\ slot' = slot + 1
         /\ \A s \in 0..slot : history'[s] = history[s]
  <1>1. slot \in Nat /\ slot' = slot + 1 BY DEF HistoryOK, View!NextSlot
  <1>2. PICK state \in {history[slot], history[slot] + 1} :
            history' = [s \in 0..(slot + 1) |-> IF s <= slot THEN history[s] ELSE state]
    BY DEF View!NextSlot
  <1>3. state \in Nat BY <1>1, <1>2 DEF HistoryOK
  <1>4. \A s \in 0..slot : history'[s] = history[s] BY <1>1, <1>2
  <1>5. history' \in [0..slot' -> Nat]
    <2> SUFFICES ASSUME NEW s \in 0..(slot + 1)
                 PROVE  (IF s <= slot THEN history[s] ELSE state) \in Nat
      BY <1>1, <1>2
    <2>1. CASE s <= slot BY <2>1, <1>1 DEF HistoryOK
    <2>2. CASE ~(s <= slot) BY <2>2, <1>3
    <2> QED BY <2>1, <2>2
  <1> QED BY <1>1, <1>4, <1>5 DEF HistoryOK

(* So what was true of a slot stays true of it. *)
LEMMA StillTrue ==
  ASSUME HistoryOK, View!NextSlot, NEW c, TrueContext(c)
  PROVE  c.slot \in 0..slot' /\ c.state = history'[c.slot]
  BY PastKept DEF TrueContext, HistoryOK

(* The node only sends what the account was. *)
LEMMA NextInv == SubscriptionInv /\ [Next]_vars => SubscriptionInv'
  <1> SUFFICES ASSUME SubscriptionInv, [Next]_vars PROVE SubscriptionInv' OBVIOUS
  <1> USE DEF SubscriptionInv
  <1>1. CASE NextSlot
    <2>1. View!NextSlot /\ fetch' = fetch /\ response' = response BY <1>1 DEF NextSlot
    <2>2. HistoryOK' /\ slot' \in 0..slot' BY <2>1, PastKept DEF HistoryOK
    <2>3. ASSUME NEW n \in notifications' PROVE TrueContext(n)'
      <3>1. CASE n \in notifications
        BY <2>1, <3>1, StillTrue DEF ContextsTrue, TrueContext
      <3>2. CASE n \notin notifications
        <4>1. n = Context(slot', history'[slot']) BY <1>1, <3>2 DEF NextSlot
        <4> QED BY <4>1, <2>2 DEF Context, TrueContext
      <3> QED BY <3>1, <3>2
    <2>4. fetch' # "asked" => TrueContext(response)'
      BY <2>1, StillTrue DEF ContextsTrue, TrueContext
    <2> QED BY <2>2, <2>3, <2>4 DEF ContextsTrue
  <1>2. CASE Register
    BY <1>2 DEF Register, chain, HistoryOK, ContextsTrue, TrueContext
  <1>3. CASE Answer
    <2>1. slot' = slot /\ history' = history /\ notifications' = notifications
          /\ response' = Context(slot, history[slot])
      BY <1>3 DEF Answer, chain
    <2>2. TrueContext(response)' BY <2>1 DEF TrueContext, Context, HistoryOK
    <2> QED BY <2>1, <2>2 DEF HistoryOK, ContextsTrue, TrueContext
  <1>4. CASE Page
    <2>1. /\ slot' = slot /\ history' = history /\ response' = response
          /\ notifications' \subseteq notifications
          /\ fetch' # "asked" => fetch # "asked"
      BY <1>4 DEF Page, OnResponse, OnAccountChange, chain
    <2> QED BY <2>1 DEF HistoryOK, ContextsTrue, TrueContext
  <1>5. CASE UNCHANGED vars
    BY <1>5 DEF vars, HistoryOK, ContextsTrue, TrueContext
  <1> QED BY <1>1, <1>2, <1>3, <1>4, <1>5 DEF Next

(* Using a true context no older than what is shown is a step of the view. *)
LEMMA UseShows ==
  ASSUME NEW c, TrueContext(c), c.slot >= latestSlot, Use(c), UNCHANGED chain
  PROVE  \E s \in 0..slot : View!Show(s)
  BY DEF Use, View!Show, TrueContext, chain

(* The page's callbacks are steps of the view, and nothing else moves it. *)
LEMMA StepRefines == SubscriptionInv /\ [Next]_vars => [View!Next]_(View!view_vars)
  <1> SUFFICES ASSUME SubscriptionInv, [Next]_vars
               PROVE  View!Next \/ UNCHANGED View!view_vars
    OBVIOUS
  <1> USE DEF SubscriptionInv
  <1>1. CASE NextSlot
    BY <1>1 DEF NextSlot, View!Next, View!ChainMoves
  <1>2. CASE Register \/ Answer \/ UNCHANGED vars
    BY <1>2 DEF Register, Answer, vars, chain, View!view_vars
  <1>3. CASE OnResponse
    <2>1. UNCHANGED chain /\ TrueContext(response)
      BY <1>3 DEF OnResponse, ContextsTrue, chain
    <2>2. CASE FetchedLatest(response)
      BY <1>3, <2>1, <2>2, UseShows DEF OnResponse, FetchedLatest, View!Next
    <2>3. CASE ~FetchedLatest(response)
      BY <1>3, <2>1, <2>3 DEF OnResponse, Drop, chain, View!view_vars
    <2> QED BY <2>2, <2>3
  <1>4. ASSUME NEW n \in notifications, OnAccountChange(n)
        PROVE  View!Next \/ UNCHANGED View!view_vars
    <2>1. UNCHANGED chain /\ TrueContext(n)
      BY <1>4 DEF OnAccountChange, ContextsTrue, chain
    <2>2. CASE NotifiedLatest(n)
      BY <1>4, <2>1, <2>2, UseShows DEF OnAccountChange, NotifiedLatest, View!Next
    <2>3. CASE ~NotifiedLatest(n)
      BY <1>4, <2>1, <2>3 DEF OnAccountChange, Drop, chain, View!view_vars
    <2> QED BY <2>2, <2>3
  <1> QED BY <1>1, <1>2, <1>3, <1>4 DEF Next, Page

(* What getAccountInfoAndSubscribe passes to its callback is always a      *)
(* state the account was in, and never one of an earlier slot than before, *)
(* however long the page lives and whatever overtakes what.                *)
THEOREM SubscriptionImplementsView == Spec => ImplementsView
  <1>1. Init => View!Init BY DEF Init
  <1>2. Spec => []SubscriptionInv
    BY InitInv, NextInv, PTL DEF Spec
  <1> QED BY <1>1, <1>2, StepRefines, PTL DEF Spec, ImplementsView, View!Spec

-----------------------------------------------------------------------------
(* The wallets of a page, whose accounts are subscribed to.                *)

(* The connect handlers, each with what it is still fetching. *)
Handlers == [wallet : Wallets, fetching : SUBSET Accounts]

SessionTypeOK ==
    /\ choices \subseteq Wallets /\ wallet \in Wallets \union {None}
    /\ walletInit \in BOOLEAN
    /\ assets # NoAssets => assets \in [Accounts -> Wallets \union {None}]
    /\ connections \in Seq(Handlers)

(* The only handler there was serves the wallet that is connected, and     *)
(* what it has fetched is displayed.                                       *)
OnlyHandler ==
    Len(connections) = 1 /\ wallet # None =>
        /\ wallet = connections[1].wallet
        /\ assets \in [Accounts -> {None, wallet}]
        /\ \A a \in Accounts \ connections[1].fetching : assets[a] = wallet
        /\ walletInit => connections[1].fetching = {}

(* Before the first handler nothing is displayed. *)
NoHandler == Len(connections) = 0 => wallet = None /\ ~walletInit

SessionInv == SessionTypeOK /\ NothingWithoutWallet /\ NoHandler /\ OnlyHandler

(* A page without a wallet. *)
LEMMA InitSession == SessionInit => SessionInv
  <1> SUFFICES ASSUME SessionInit PROVE SessionInv OBVIOUS
  <1>1. connections = <<>> /\ wallet = None /\ ~walletInit /\ choices = {}
        /\ assets = NoAssets /\ walletInit \in BOOLEAN
    BY DEF SessionInit
  <1>2. /\ Len(connections) = 0
        /\ connections \in Seq(Handlers)
    BY <1>1
  <1> QED
    BY <1>1, <1>2 DEF SessionInv, SessionTypeOK, NothingWithoutWallet, NoHandler,
                      OnlyHandler

(* What a callback makes of the assets is of the same type. *)
LEMMA ShowTyped ==
  ASSUME SessionInv, NEW i \in DOMAIN connections, NEW a \in Accounts,
         assets' = Show(connections[i].wallet, a)
  PROVE  /\ connections[i] \in Handlers
         /\ \/ assets = NoAssets /\ assets' = assets
            \/ /\ assets # NoAssets
               /\ assets \in [Accounts -> Wallets \union {None}]
               /\ assets' = [assets EXCEPT ![a] = connections[i].wallet]
               /\ assets' \in [Accounts -> Wallets \union {None}]
  <1>1. connections[i] \in Handlers
    <2>1. connections \in Seq(Handlers)
      BY DEF SessionInv, SessionTypeOK
    <2> QED BY <2>1
  <1>2. connections[i].wallet \in Wallets BY <1>1 DEF Handlers
  <1>3. assets # NoAssets => assets \in [Accounts -> Wallets \union {None}]
    BY DEF SessionInv, SessionTypeOK
  <1> QED BY <1>1, <1>2, <1>3 DEF Show

(* The only handler's wallet is the one shown. *)
LEMMA OnlyShows ==
  ASSUME SessionInv, NEW i \in DOMAIN connections, NEW a \in Accounts,
         assets' = Show(connections[i].wallet, a),
         Len(connections) = 1, wallet # None
  PROVE  /\ i = 1 /\ wallet = connections[1].wallet
         /\ assets \in [Accounts -> {None, wallet}]
         /\ assets' = [assets EXCEPT ![a] = wallet]
         /\ assets' \in [Accounts -> {None, wallet}]
  <1>1. i = 1
    <2>1. connections \in Seq(Handlers)
      BY DEF SessionInv, SessionTypeOK
    <2>2. DOMAIN connections = 1..Len(connections) BY <2>1
    <2> QED BY <2>2
  <1>2. wallet = connections[1].wallet /\ assets \in [Accounts -> {None, wallet}]
    BY <1>1 DEF SessionInv, OnlyHandler
  <1>3. assets # NoAssets
    <2>1. DOMAIN assets # {} BY <1>2
    <2>2. DOMAIN NoAssets = {} BY DEF NoAssets
    <2> QED BY <2>1, <2>2
  <1> QED BY <1>1, <1>2, <1>3 DEF Show

(* No order of fetches, notifications and choices breaks it. *)
LEMMA NextSession ==
  ASSUME SessionInv, [SessionNext]_session_vars
  PROVE  SessionInv'
  <1>1. ASSUME NEW w \in Wallets, Choose(w) PROVE SessionInv'
    BY <1>1 DEF Choose, SessionInv, SessionTypeOK, NothingWithoutWallet,
                NoHandler, OnlyHandler
  <1>2. ASSUME NEW w \in Wallets, Connect(w) PROVE SessionInv'
    <2> DEFINE new == [wallet |-> w, fetching |-> Accounts]
    <2>1. /\ choices' = choices \ {w} /\ wallet' = w /\ walletInit' = walletInit
          /\ assets' = [a \in Accounts |-> None]
          /\ connections' = Append(connections, new)
      BY <1>2 DEF Connect, EmptyAssets, SubscribeToAssets,
                  Connection
    <2>2. new \in Handlers BY DEF Handlers
    <2>3. connections \in Seq(Handlers) BY DEF SessionInv, SessionTypeOK
    <2> HIDE DEF new
    <2>4. /\ connections' \in Seq(Handlers) /\ Len(connections') = Len(connections) + 1
          /\ Len(connections) \in Nat
          /\ Len(connections) = 0 => connections'[1] = new
      BY <2>1, <2>2, <2>3
    <2>5. SessionTypeOK'
      BY <2>1, <2>4 DEF SessionInv, SessionTypeOK
    <2>6. NothingWithoutWallet' /\ NoHandler'
      BY <2>1, <2>4, WalletsAssumption DEF NothingWithoutWallet, NoHandler
    <2>7. OnlyHandler'
      <3> SUFFICES ASSUME Len(connections') = 1
                   PROVE  /\ wallet' = connections'[1].wallet
                          /\ assets' \in [Accounts -> {None, wallet'}]
                          /\ Accounts \ connections'[1].fetching = {}
                          /\ ~walletInit'
        BY DEF OnlyHandler
      <3>1. Len(connections) = 0 BY <2>4
      <3>2. connections'[1] = new BY <2>4, <3>1
      <3>3. ~walletInit BY <3>1 DEF SessionInv, NoHandler
      <3> QED BY <2>1, <3>2, <3>3 DEF new
    <2> QED BY <2>5, <2>6, <2>7 DEF SessionInv
  <1>3. CASE DisconnectWallet
    BY <1>3, WalletsAssumption DEF DisconnectWallet, SessionInv, SessionTypeOK,
                NothingWithoutWallet, NoHandler, OnlyHandler
  <1>4. ASSUME NEW i \in DOMAIN connections, NEW a \in Accounts,
               assets' = Show(connections[i].wallet, a)
        PROVE  /\ assets' # NoAssets => assets' \in [Accounts -> Wallets \union {None}]
               /\ wallet = None => assets' = NoAssets
    <2>1. wallet = None => assets = NoAssets
      BY DEF SessionInv, NothingWithoutWallet
    <2> QED BY <1>4, <2>1, ShowTyped
  <1>5. ASSUME NEW i \in DOMAIN connections, NEW a \in Accounts, FirstFetch(i, a)
        PROVE  SessionInv'
    <2> DEFINE new == [connections[i] EXCEPT !.fetching = @ \ {a}]
    <2>1. /\ assets' = Show(connections[i].wallet, a)
          /\ UNCHANGED <<choices, wallet>>
          /\ walletInit' = (walletInit \/ connections[i].fetching = {a})
          /\ connections' = [connections EXCEPT ![i] = new]
      BY <1>5 DEF FirstFetch, AllFetched
    <2>2. connections \in Seq(Handlers)
          /\ connections[i] \in Handlers
      <3>1. connections \in Seq(Handlers) BY DEF SessionInv, SessionTypeOK
      <3> QED BY <3>1
    <2>3. /\ new \in Handlers
          /\ new.wallet = connections[i].wallet
          /\ new.fetching = connections[i].fetching \ {a}
      BY <2>2 DEF Handlers
    <2> HIDE DEF new
    <2>4. /\ connections' \in Seq(Handlers) /\ Len(connections') = Len(connections)
          /\ connections'[i] = new /\ Len(connections) \in Nat /\ i \in 1..Len(connections)
      BY <2>1, <2>2, <2>3
    <2>5. SessionTypeOK'
      <3>1. walletInit' \in BOOLEAN BY <2>1 DEF SessionInv, SessionTypeOK
      <3> QED BY <1>4, <2>1, <2>4, <3>1 DEF SessionInv, SessionTypeOK
    <2>6. NothingWithoutWallet' /\ NoHandler'
      BY <1>4, <2>1, <2>4 DEF NothingWithoutWallet, NoHandler
    <2>7. OnlyHandler'
      <3> SUFFICES ASSUME Len(connections') = 1, wallet' # None
                   PROVE  /\ wallet' = connections'[1].wallet
                          /\ assets' \in [Accounts -> {None, wallet'}]
                          /\ \A b \in Accounts \ connections'[1].fetching : assets'[b] = wallet'
                          /\ walletInit' => connections'[1].fetching = {}
        BY DEF OnlyHandler
      <3>1. Len(connections) = 1 /\ wallet # None BY <2>1, <2>4
      <3>2. /\ i = 1 /\ wallet = connections[1].wallet
            /\ assets \in [Accounts -> {None, wallet}]
            /\ assets' = [assets EXCEPT ![a] = wallet]
            /\ assets' \in [Accounts -> {None, wallet}]
        BY <2>1, <3>1, OnlyShows
      <3>3. /\ \A b \in Accounts \ connections[1].fetching : assets[b] = wallet
            /\ walletInit => connections[1].fetching = {}
        BY <3>1, <3>2 DEF SessionInv, OnlyHandler
      <3>4. \A b \in Accounts \ connections'[1].fetching : assets'[b] = wallet'
        BY <2>1, <2>3, <2>4, <3>2, <3>3
      <3>5. walletInit' => connections'[1].fetching = {}
        BY <2>1, <2>3, <2>4, <3>2, <3>3
      <3> QED BY <2>1, <2>3, <2>4, <3>2, <3>4, <3>5
    <2> QED BY <2>5, <2>6, <2>7 DEF SessionInv
  <1>6. ASSUME NEW i \in DOMAIN connections, NEW a \in Accounts, Notify(i, a)
        PROVE  SessionInv'
    <2>1. /\ assets' = Show(connections[i].wallet, a)
          /\ UNCHANGED <<choices, wallet, walletInit, connections>>
      BY <1>6 DEF Notify
    <2>2. SessionTypeOK' BY <1>4, <2>1 DEF SessionInv, SessionTypeOK
    <2>3. NothingWithoutWallet' /\ NoHandler'
      BY <1>4, <2>1 DEF SessionInv, NothingWithoutWallet, NoHandler
    <2>4. OnlyHandler'
      <3> SUFFICES ASSUME Len(connections) = 1, wallet # None
                   PROVE  /\ wallet = connections[1].wallet
                          /\ assets' \in [Accounts -> {None, wallet}]
                          /\ \A b \in Accounts \ connections[1].fetching : assets'[b] = wallet
                          /\ walletInit => connections[1].fetching = {}
        BY <2>1 DEF OnlyHandler
      <3>1. /\ wallet = connections[1].wallet
            /\ assets \in [Accounts -> {None, wallet}]
            /\ assets' = [assets EXCEPT ![a] = wallet]
            /\ assets' \in [Accounts -> {None, wallet}]
        BY <2>1, OnlyShows
      <3>2. /\ \A b \in Accounts \ connections[1].fetching : assets[b] = wallet
            /\ walletInit => connections[1].fetching = {}
        BY <3>1 DEF SessionInv, OnlyHandler
      <3> QED BY <3>1, <3>2
    <2> QED BY <2>2, <2>3, <2>4 DEF SessionInv
  <1>7. CASE UNCHANGED session_vars
    BY <1>7 DEF session_vars, SessionInv, SessionTypeOK, NothingWithoutWallet,
                NoHandler, OnlyHandler
  <1> QED BY <1>1, <1>2, <1>3, <1>5, <1>6, <1>7 DEF SessionNext

(* Nothing of a wallet comes back after it was disconnected, however many  *)
(* wallets a page has seen and whatever is still under way for them.          *)
THEOREM NothingComesBack == SessionSpec => []NothingWithoutWallet
  <1>1. SessionInv => NothingWithoutWallet BY DEF SessionInv
  <1> QED BY <1>1, InitSession, NextSession, PTL DEF SessionSpec

(* And a page's first wallet sees its own accounts only, all of them as    *)
(* soon as it is initialised.                                              *)
THEOREM FirstWalletSeesItsOwn == SessionSpec => []FirstWalletIsRight
  <1>1. SessionInv => FirstWalletIsRight
    <2> SUFFICES ASSUME SessionInv, Len(connections) = 1, wallet # None, NEW a \in Accounts
                 PROVE  assets[a] \in {None, wallet} /\ (walletInit => assets[a] = wallet)
      BY DEF FirstWalletIsRight
    <2> QED BY DEF SessionInv, OnlyHandler
  <1> QED BY <1>1, InitSession, NextSession, PTL DEF SessionSpec
=============================================================================
