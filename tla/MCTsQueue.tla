----------------------------- MODULE MCTsQueue -----------------------------
(***************************************************************************)
(* TsQueue for TLC: two producers, as in a client, whose asio thread and   *)
(* whose heartbeat's asio thread share m_qMessageIn (NetClient.h:85; a     *)
(* server's queue has one producer), one consumer, and two messages that   *)
(* can be told apart.                                                      *)
(***************************************************************************)
EXTENDS TsQueue, FiniteSets

\* Two producers meet at the locks, a message can wait behind another, and the
\* bound for a sleeping consumer bars no push.
ASSUME Cardinality(Producers) \in 2..MaxLen
=============================================================================
