--------------------------- MODULE MessageChannel ---------------------------
(***************************************************************************)
(* What two programs may take a Connection<T> for as long as their sends   *)
(* keep apart: what OnMessage() or the client's loop hears at one end are  *)
(* messages given to Send() at the other, whole, in order, none twice and  *)
(* none left out.  A connection may be lost, so nothing says that a        *)
(* message is heard.  It is known by its place in the sender's order.      *)
(***************************************************************************)
EXTENDS Naturals, Sequences

CONSTANTS Ends,     \* the two ends
          Peer(_)   \* the other end

VARIABLES sent,       \* how many messages each end has sent
          delivered   \* the messages each end has been handed, oldest first

vars == <<sent, delivered>>

Init ==
    /\ sent = [e \in Ends |-> 0]
    /\ delivered = [e \in Ends |-> <<>>]

Send(e) ==
    /\ sent' = [sent EXCEPT ![e] = @ + 1]
    /\ UNCHANGED delivered

\* End e is handed the next message of its peer.
Deliver(e) ==
    /\ Len(delivered[e]) < sent[Peer(e)]
    /\ delivered' = [delivered EXCEPT ![e] = Append(@, Len(@) + 1)]
    /\ UNCHANGED sent

Next == \E e \in Ends : Send(e) \/ Deliver(e)

Spec == Init /\ [][Next]_vars
=============================================================================
