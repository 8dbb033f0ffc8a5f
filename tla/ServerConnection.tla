-------------------------- MODULE ServerConnection --------------------------
(***************************************************************************)
(* One connection as the server's program sees it: what ServerRegistry     *)
(* takes a connection for, and what the server's end of Connection is.     *)
(*                                                                         *)
(* Nothing is heard before the client is validated; a connection that is   *)
(* closed stays closed, and hands on one more message at most: that of a   *)
(* read which had finished before the close, in whose handler it is.       *)
(***************************************************************************)
EXTENDS Naturals

VARIABLES
    state,   \* "none"; "new", "validated": IsConnected(); "closing": closed, and
             \* the handler of a finished read has still to run; "closed"
    waiting  \* messages in m_qMessageIn that Update() has not popped

vars == <<state, waiting>>

Init == state = "none" /\ waiting = 0

Accept == state = "none" /\ state' = "new" /\ UNCHANGED waiting

Validate == state = "new" /\ state' = "validated" /\ UNCHANGED waiting

\* Its socket is closed, or the server's process ends.
Close ==
    /\ \/ state \in {"new", "validated", "closing"} /\ state' = "closed"
       \/ state = "validated" /\ state' = "closing"
    /\ UNCHANGED waiting

Receive ==
    /\ \/ state = "validated" /\ UNCHANGED state
       \/ state = "closing" /\ state' = "closed"
    /\ waiting' = waiting + 1

\* What had been read before the close was a header, and its body is not read.
Lapse == state = "closing" /\ state' = "closed" /\ UNCHANGED waiting

Take == waiting > 0 /\ waiting' = waiting - 1 /\ UNCHANGED state

Next == Accept \/ Validate \/ Close \/ Receive \/ Lapse \/ Take

Spec == Init /\ [][Next]_vars
=============================================================================
