--------------------------- MODULE WalletSession ---------------------------
(***************************************************************************)
(* Wallets connected and disconnected while a page lives, and the assets   *)
(* it shows.  Subscriptions are never cancelled, and a handler that awaits *)
(* its first fetches goes on when they are there, whatever happened        *)
(* meanwhile.  What a subscription calls its callback with, and when, is   *)
(* the subject of AccountSubscription.tla; here it is only whose account   *)
(* it is of.                                                               *)
(***************************************************************************)
EXTENDS Naturals, Sequences

CONSTANTS
    Wallets,      \* owners of the wallets the user has
    None,
    Accounts,     \* what is subscribed to of each wallet
    MaxConnects   \* bound: connections in the life of a page

ASSUME WalletsAssumption == None \notin Wallets /\ MaxConnects \in Nat

VARIABLES
    choices,      \* wallets chosen, and not yet connected: getWalletAndAnchor
    wallet,       \* user.wallet
    walletInit,   \* user.walletInit: balances are displayed
    assets,       \* user.assets: whose balance is shown of each account
    connections   \* every connect handler: its wallet, and what it is still fetching

session_vars == <<choices, wallet, walletInit, assets, connections>>

NoAssets == <<>>
EmptyAssets == [a \in Accounts |-> None]

Connection(w) == [wallet |-> w, fetching |-> Accounts]
OncePerWallet(w) ==   \* mutant
    IF \E i \in DOMAIN connections : connections[i].wallet = w
    THEN [wallet |-> w, fetching |-> {}]
    ELSE Connection(w)
SubscribeToAssets(w) == Connection(w)

SessionInit ==
    /\ choices = {} /\ wallet = None /\ walletInit = FALSE
    /\ assets = NoAssets /\ connections = <<>>

-----------------------------------------------------------------------------
(* The modal is there as long as no wallet is connected: a second one may  *)
(* be chosen before the first was approved.                                *)
Choose(w) ==
    /\ wallet = None
    /\ choices' = choices \union {w}
    /\ UNCHANGED <<wallet, walletInit, assets, connections>>

(* The connect handler up to its await: its addresses take hashing only.   *)
Connect(w) ==
    /\ w \in choices /\ Len(connections) < MaxConnects
    /\ choices' = choices \ {w}
    /\ wallet' = w
    /\ assets' = EmptyAssets
    /\ connections' = Append(connections, SubscribeToAssets(w))
    /\ UNCHANGED walletInit

DisconnectWallet ==
    /\ wallet # None
    /\ wallet' = None /\ walletInit' = FALSE /\ assets' = NoAssets
    /\ UNCHANGED <<choices, connections>>

ShowAlways(w, a) == IF a \in DOMAIN assets THEN [assets EXCEPT ![a] = w]   \* mutant
                    ELSE [EmptyAssets EXCEPT ![a] = w]
(* What a subscription's callback makes of user.assets. *)
Show(w, a) == IF assets = NoAssets THEN assets ELSE [assets EXCEPT ![a] = w]

AnyFetched(i, a) == TRUE   \* mutant
(* Promise.all: the handler goes on with the last of its fetches. *)
AllFetched(i, a) == connections[i].fetching = {a}

FirstFetch(i, a) ==
    /\ a \in connections[i].fetching
    /\ connections' = [connections EXCEPT ![i].fetching = @ \ {a}]
    /\ assets' = Show(connections[i].wallet, a)
    /\ walletInit' = (walletInit \/ AllFetched(i, a))
    /\ UNCHANGED <<choices, wallet>>

(* The account changed. *)
Notify(i, a) ==
    /\ assets' = Show(connections[i].wallet, a)
    /\ UNCHANGED <<choices, wallet, walletInit, connections>>

SessionNext ==
    \/ \E w \in Wallets : Choose(w) \/ Connect(w)
    \/ DisconnectWallet
    \/ \E i \in DOMAIN connections, a \in Accounts : FirstFetch(i, a) \/ Notify(i, a)

(* Fetches are answered. *)
SessionSpec ==
    /\ SessionInit /\ [][SessionNext]_session_vars
    /\ \A i \in 1..MaxConnects, a \in Accounts :
        WF_session_vars(i \in DOMAIN connections /\ FirstFetch(i, a))

-----------------------------------------------------------------------------
(* No asset of a wallet comes back after it was disconnected, though its   *)
(* subscriptions live on and answers to its fetches are still under way.   *)
(* That is of user.assets alone: walletInit does come back.                *)
NothingWithoutWallet == wallet = None => assets = NoAssets

(* Until a second wallet is connected, the page shows the first one's      *)
(* accounts only, and is initialised only with all its balances.           *)
FirstWalletIsRight ==
    Len(connections) = 1 /\ wallet # None =>
        \A a \in Accounts :
            /\ assets[a] \in {None, wallet}
            /\ walletInit => assets[a] = wallet

(* A wallet that stays connected has each of its own balances shown in the *)
(* end, and the page initialised, whichever wallet was connected before    *)
(* and however often.  It is asked of the balances still to come, since a  *)
(* subscription of an earlier wallet, never cancelled, may overwrite one   *)
(* that has come, and then nothing fetches it again.                       *)
OwnBalanceArrives(w, a) == wallet = w /\ assets[a] = None ~> wallet # w \/ assets[a] = w
BalancesArrive ==
    \A w \in Wallets :
        /\ \A a \in Accounts : OwnBalanceArrives(w, a)
        /\ wallet = w ~> wallet # w \/ walletInit
=============================================================================
