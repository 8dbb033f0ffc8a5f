-------------------------- MODULE MCServerRegistry --------------------------
(* ServerRegistry for TLC; the .cfg files give the bounds.                  *)
EXTENDS ServerRegistry

\* More connections than ids: the counter wraps, and ids are given again.
ASSUME MaxConnections > LastId + 1
=============================================================================
