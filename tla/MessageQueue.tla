---------------------------- MODULE MessageQueue ----------------------------
(***************************************************************************)
(* What Ts_queue (NetCommon/NetTsqueue.h) promises to the code around it:  *)
(* a first-in first-out queue whose push and pop take effect at one        *)
(* instant.  The producers are the asio threads that deliver messages, the *)
(* consumer is the thread that runs Update() or the client's main loop.    *)
(***************************************************************************)
EXTENDS Sequences

CONSTANTS Items,    \* what may be queued: the owned_Message values
          NoItem    \* "the consumer holds no message"

VARIABLES queue,    \* the messages pushed and not popped, oldest first
          inHand    \* the message the consumer has popped and is handling

vars == <<queue, inHand>>

Init ==
    /\ queue = <<>>
    /\ inHand = NoItem

\* A producer delivers m.
Push(m) ==
    /\ queue' = Append(queue, m)
    /\ UNCHANGED inHand

\* The consumer takes the oldest message; it never asks an empty queue.
Pop ==
    /\ queue # <<>>
    /\ inHand = NoItem
    /\ inHand' = Head(queue)
    /\ queue' = Tail(queue)

\* The consumer has finished with the message it holds.
Handled ==
    /\ inHand # NoItem
    /\ inHand' = NoItem
    /\ UNCHANGED queue

Next ==
    \/ \E m \in Items : Push(m)
    \/ Pop
    \/ Handled

Spec == Init /\ [][Next]_vars
=============================================================================
