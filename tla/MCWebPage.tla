----------------------------- MODULE MCWebPage -----------------------------
(***************************************************************************)
(* WebPage for TLC: pages of less than a buffer, of one, of more than two. *)
(***************************************************************************)
EXTENDS WebPage

ASSUME MaxPage > 2 * Chunk /\ Chunk > 1
=============================================================================
