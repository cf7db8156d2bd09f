--------------------------- MODULE MCClientTrade ---------------------------
(***************************************************************************)
(* An instance of ClientTrade: the user comes for the first time, or has   *)
(* every account.  What lies between is reached by a first trade that      *)
(* opens some of them.                                                     *)
(***************************************************************************)
EXTENDS ClientTrade

StartInit == Init /\ Open \in {{}, Accounts}
StartSpec == StartInit /\ [][Next]_vars /\ WF_vars(ClientStep)
=============================================================================
