----------------------------- MODULE Connection -----------------------------
(***************************************************************************)
(* One TCP connection between a client and a server of NetCommon: class    *)
(* Connection<T> (NetConection.h) at both ends, with what drives it: the   *)
(* client_Interface and the loop of simpleClient.cpp on one side, the      *)
(* accept handler of server_Interface and the handlers of SimpleServer.cpp *)
(* on the other.                                                           *)
(*                                                                         *)
(* Each end has one io_context run by one thread, so its handlers run one  *)
(* at a time: an action is one handler, or one step of the kernel between  *)
(* two handlers, or one call by the program's own thread.  The interleaving *)
(* of handlers is left open; asio promises that posted functions run in    *)
(* the order posted.  That overlapping operations of one kind on a socket  *)
(* complete in the order started is an assumption: asio's implementations  *)
(* do so, its documentation forbids to overlap them (NoOverlappingWrites). *)
(*                                                                         *)
(* A byte stream is a sequence of 4-byte words <<n, i>>, the i-th word of  *)
(* the sender's n-th message; n = 0 is the handshake number, and an answer *)
(* to other words than the number.                                         *)
(***************************************************************************)
EXTENDS Naturals, Sequences, FiniteSets

CONSTANTS MaxSends,       \* bound: messages the client's program sends
          MaxBroadcasts,  \* bound: ServerMessages caused by other clients
          MisreadLens,    \* body sizes, in words, read off a wrong header
          Eager,          \* the client may send before ServerAccept
          Pipelined,      \* the client may send before its last ping is echoed
          Quitters        \* the ends whose process may end

ASSUME ConnectionAssumption ==
    /\ MaxSends \in Nat /\ MaxBroadcasts \in Nat
    /\ MisreadLens \subseteq Nat
    /\ Eager \in BOOLEAN /\ Pipelined \in BOOLEAN
    /\ Quitters \subseteq {"client", "server"}

Ends == {"client", "server"}
Peer(e) == IF e = "client" THEN "server" ELSE "client"

\* The ServerMsgType values in use, and the words of body each one carries.
Kinds == {"ServerAccept", "Client_Accepted", "ServerPing", "ServerMessage"}
BodyLen == [k \in Kinds |-> CASE k = "ServerPing"    -> 2   \* a time_point
                              [] k = "ServerMessage" -> 1   \* a client id
                              [] OTHER               -> 0]
PairLen == 2     \* words of a Message_Header, and of the handshake's uint64_t

VARIABLES
    socket,     \* "none", "open" (is_open), "closed"; "gone": no process
    linked,     \* the TCP handshake has succeeded
    reset,      \* the ends that can write no more: their peer has left
    connect,    \* async_connect: "no", "pending", "ok", "failed", "done"
    timer,      \* time_out: "idle", "armed", "expired", "done"
    accepted,   \* by the server, into its map: "no" (not yet), "yes", "never"
    tasks,      \* functions posted to the io_context and not yet run
    outq,       \* m_qMessageOut
    writes,     \* async_writes started and not yet handled
    reads,      \* async_reads started and not yet handled
    stream,     \* all words ever written by an end
    taken,      \* how many words of its peer's stream an end has read
    sent,       \* the messages given to Send(), in order
    recv,       \* the messages put into m_qMessageIn, each as its words
    handled,    \* how many of recv the program has popped
    validated   \* at the server: "no", "yes", "rejected"

ioVars == <<writes, reads, stream, taken>>
appVars == <<sent, recv, handled, validated>>
linkVars == <<linked, reset, connect, timer, accepted>>
vars == <<socket, linkVars, tasks, outq, ioVars, appVars>>

-----------------------------------------------------------------------------
(* Messages and operations.                                                *)

Pair(n) == <<<<n, 1>>, <<n, 2>>>>
Body(n, k) == [i \in 1..BodyLen[k] |-> <<n, PairLen + i>>]
Frame(n, k) == Pair(n) \o Body(n, k)

\* The scramble of the handshake number counts as the number; that of any other
\* eight bytes is two words that are nothing else.
Answer(n) == IF n = 0 THEN Pair(0) ELSE <<<<0, 3>>, <<0, 4>>>>

\* The words w begin with a header e has written; which message's, which kind.
HasHeaderOf(e, w) == \E n \in DOMAIN sent[e] : SubSeq(w, 1, PairLen) = Pair(n)
MessageNumber(w) == w[1][1]
IsKind(e, w, k) == HasHeaderOf(e, w) /\ sent[e][MessageNumber(w)] = k

\* Mutation of Write: what is kept is the socket's state, not the outcome.
WriteKeepsSocket(e, op, n) == [op |-> op, n |-> n, ec |-> socket[e]]

\* An operation on a socket that is not open fails at once.
Started(e) == IF socket[e] = "open" THEN "pending" ELSE "failed"
Write(e, op, n) == [op |-> op, n |-> n, ec |-> Started(e)]
Read(e, op, len, head) ==
    [op |-> op, len |-> len, head |-> head, data |-> <<>>, ec |-> Started(e)]

WordsOf(e, w) ==
    CASE w.op = "header" -> Pair(w.n)
      [] w.op = "body"   -> Body(w.n, sent[e][w.n])
      [] w.op = "nonce"  -> Answer(w.n)

\* The first operation of s that the kernel has not finished, if any.
IsFirstPending(s, i) ==
    /\ i \in DOMAIN s
    /\ s[i].ec = "pending"
    /\ \A j \in 1..(i - 1) : s[j].ec # "pending"
Finish(s, i, ec) == [s EXCEPT ![i].ec = ec]
Abort(s) == [i \in DOMAIN s |->
               IF s[i].ec = "pending" THEN [s[i] EXCEPT !.ec = "failed"] ELSE s[i]]

\* Mutation of Post: the newest function runs first.
PostInFront(e, t) == tasks' = [tasks EXCEPT ![e] = <<t>> \o @]

\* asio::post of the two functions that Connection posts.
Post(e, t) == tasks' = [tasks EXCEPT ![e] = Append(@, t)]
SendTask(n) == [op |-> "send", n |-> n]
CloseTask == [op |-> "close", n |-> 0]

\* Disconnect(): posts a close if the socket is open now.
Disconnect(e) == IF socket[e] = "open" THEN Post(e, CloseTask) ELSE UNCHANGED tasks

\* Send(msg): records and posts it, connected or not.
Send(e, k) ==
    /\ sent' = [sent EXCEPT ![e] = Append(@, k)]
    /\ Post(e, SendTask(Len(sent[e]) + 1))

-----------------------------------------------------------------------------
Init ==
    /\ socket = [e \in Ends |-> "none"]
    /\ linked = FALSE
    /\ reset = {}
    /\ connect = "no"
    /\ timer = "idle"
    /\ accepted = "no"
    /\ tasks = [e \in Ends |-> <<>>]
    /\ outq = [e \in Ends |-> <<>>]
    /\ writes = [e \in Ends |-> <<>>]
    /\ reads = [e \in Ends |-> <<>>]
    /\ stream = [e \in Ends |-> <<>>]
    /\ taken = [e \in Ends |-> 0]
    /\ sent = [e \in Ends |-> <<>>]
    /\ recv = [e \in Ends |-> <<>>]
    /\ handled = [e \in Ends |-> 0]
    /\ validated = "no"

-----------------------------------------------------------------------------
(* Connecting.                                                             *)

\* client_Interface::Connect and ConnectToServer: the socket is opened and
\* connecting, and the 10 s timer is started.
ConnectToServer ==
    /\ connect = "no" /\ socket["client"] = "none"
    /\ socket' = [socket EXCEPT !["client"] = "open"]
    /\ connect' = "pending"
    /\ timer' = "armed"
    /\ UNCHANGED <<linked, reset, accepted, tasks, outq, ioVars, appVars>>

\* The kernel: the server's backlog takes the connection, or it is refused.
LinkUp ==
    /\ connect = "pending" /\ socket["server"] # "gone"
    /\ connect' = "ok"
    /\ linked' = TRUE
    /\ UNCHANGED <<socket, reset, timer, accepted, tasks, outq, ioVars, appVars>>

\* A failed connect has a handler that does nothing; the socket stays open.
Refuse ==
    /\ connect = "pending"
    /\ connect' = "failed"
    /\ UNCHANGED <<socket, linked, reset, timer, accepted, tasks, outq, ioVars, appVars>>

\* Mutation of ConnectDone: ReadValidation() is not called.
ConnectDoneUnread ==
    /\ connect = "ok"
    /\ connect' = "done"
    /\ timer' = IF timer = "armed" THEN "done" ELSE timer
    /\ UNCHANGED <<socket, linked, reset, accepted, tasks, outq, ioVars, appVars>>

\* Handler of async_connect, !ec: time_out->cancel() and ReadValidation().
\* A timer that has expired already is not cancelled.
ConnectDone ==
    /\ connect = "ok"
    /\ connect' = "done"
    /\ timer' = IF timer = "armed" THEN "done" ELSE timer
    /\ reads' = [reads EXCEPT !["client"] = Append(@, Read("client", "nonce", PairLen, <<>>))]
    /\ UNCHANGED <<socket, linked, reset, accepted, tasks, outq, writes, stream, taken, appVars>>

\* The clock: 10 s have passed and the handler of async_wait is queued.
Expire ==
    /\ timer = "armed"
    /\ timer' = "expired"
    /\ UNCHANGED <<socket, linked, reset, connect, accepted, tasks, outq, ioVars, appVars>>

\* Handler of async_wait, !ec, in ConnectTimeOutHander.
ConnectTimeOut ==
    /\ timer = "expired"
    /\ timer' = "done"
    /\ Disconnect("client")
    /\ UNCHANGED <<socket, linked, reset, connect, accepted, outq, ioVars, appVars>>

\* The handler of async_accept runs for this connection.
AcceptHandler == linked /\ accepted = "no" /\ socket["server"] = "none"

\* Mutation of Accept: Send writes at once instead of posting.
AcceptWritesAtOnce ==
    /\ AcceptHandler
    /\ accepted' = "yes"
    /\ socket' = [socket EXCEPT !["server"] = "open"]
    /\ sent' = [sent EXCEPT !["server"] = <<"ServerAccept">>]
    /\ writes' = [writes EXCEPT !["server"] =
                    <<[op |-> "header", n |-> 1, ec |-> "pending"],
                      [op |-> "nonce", n |-> 0, ec |-> "pending"]>>]
    /\ reads' = [reads EXCEPT !["server"] =
                    <<[op |-> "nonce", len |-> PairLen, head |-> <<>>,
                       data |-> <<>>, ec |-> "pending"]>>]
    /\ UNCHANGED <<linked, reset, connect, timer, tasks, outq, stream, taken, recv, handled, validated>>

\* OnClientConnect sends ServerAccept (posted) and approves, then ConnectToClient
\* starts WriteValidation and ReadValidation (at once).
Accept ==
    /\ AcceptHandler
    /\ accepted' = "yes"
    /\ socket' = [socket EXCEPT !["server"] = "open"]
    /\ Send("server", "ServerAccept")
    /\ writes' = [writes EXCEPT !["server"] =
                    <<[op |-> "nonce", n |-> 0, ec |-> "pending"]>>]
    /\ reads' = [reads EXCEPT !["server"] =
                    <<[op |-> "nonce", len |-> PairLen, head |-> <<>>,
                       data |-> <<>>, ec |-> "pending"]>>]
    /\ UNCHANGED <<linked, reset, connect, timer, outq, stream, taken, recv, handled, validated>>

\* Its id is taken (module ServerRegistry says when): ServerAccept is on its way,
\* Disconnect() is called, and the handler returns: there is no handshake.
IdExists ==
    /\ AcceptHandler
    /\ accepted' = "never"
    /\ socket' = [socket EXCEPT !["server"] = "open"]
    /\ sent' = [sent EXCEPT !["server"] = Append(@, "ServerAccept")]
    /\ tasks' = [tasks EXCEPT !["server"] = @ \o <<SendTask(1), CloseTask>>]
    /\ UNCHANGED <<linked, reset, connect, timer, outq, ioVars, recv, handled, validated>>

\* The handler gets an error in place of this connection, and listens again.
\* (After an error that leaves it in the backlog nothing has changed.)
AcceptFails ==
    /\ AcceptHandler
    /\ accepted' = "never"
    /\ socket' = [socket EXCEPT !["server"] = "closed"]
    /\ UNCHANGED <<linked, reset, connect, timer, tasks, outq, ioVars, appVars>>

\* IdExists befell another connection: WaitForClientConnection() is not called
\* any more, and this one stays in the backlog.
ListenerStops ==
    /\ accepted = "no" /\ socket["server"] = "none"
    /\ accepted' = "never"
    /\ UNCHANGED <<socket, linked, reset, connect, timer, tasks, outq, ioVars, appVars>>

-----------------------------------------------------------------------------
(* The kernel moves words.                                                 *)

\* End e has closed its socket, or its process has ended.
HasLeft(e) == socket[e] \in {"closed", "gone"}

\* The oldest write of e is put on the wire.
Transfer(e) ==
    /\ linked /\ e \notin reset
    /\ socket[e] = "open"
    /\ \E i \in DOMAIN writes[e] :
          /\ IsFirstPending(writes[e], i)
          /\ stream' = [stream EXCEPT ![e] = @ \o WordsOf(e, writes[e][i])]
          /\ writes' = [writes EXCEPT ![e] = Finish(@, i, "ok")]
    /\ UNCHANGED <<socket, linkVars, tasks, outq, reads, taken, appVars>>

\* The kernel at e learns that nobody receives what it sends.
Reset(e) ==
    /\ HasLeft(Peer(e))
    /\ e \notin reset
    /\ reset' = reset \cup {e}
    /\ UNCHANGED <<socket, linked, connect, timer, accepted, tasks, outq, ioVars, appVars>>

\* A write fails: there is no connection yet (some systems then wait for it),
\* or no more.
WriteFails(e) ==
    /\ ~linked \/ e \in reset
    /\ \E i \in DOMAIN writes[e] :
          /\ IsFirstPending(writes[e], i)
          /\ writes' = [writes EXCEPT ![e] = Finish(@, i, "failed")]
    /\ UNCHANGED <<socket, linkVars, tasks, outq, reads, stream, taken, appVars>>

\* The oldest read of e has all the words it asked for.
Arrive(e) ==
    /\ \E i \in DOMAIN reads[e] :
          /\ IsFirstPending(reads[e], i)
          /\ LET last == taken[e] + reads[e][i].len
                 data == SubSeq(stream[Peer(e)], taken[e] + 1, last) IN
             /\ last <= Len(stream[Peer(e)])
             /\ taken' = [taken EXCEPT ![e] = last]
             /\ reads' = [reads EXCEPT ![e][i].ec = "ok", ![e][i].data = data]
    /\ UNCHANGED <<socket, linkVars, tasks, outq, writes, stream, appVars>>

\* A read fails: the peer has closed; words still on the way may be lost.
ReadFails(e) ==
    /\ HasLeft(Peer(e))
    /\ \E i \in DOMAIN reads[e] :
          /\ IsFirstPending(reads[e], i)
          /\ reads' = [reads EXCEPT ![e] = Finish(@, i, "failed")]
    /\ UNCHANGED <<socket, linkVars, tasks, outq, writes, stream, taken, appVars>>

-----------------------------------------------------------------------------
(* Writing.                                                                *)

\* Mutation of QueueAfterWriteHeader: the message stays until it is written.
QueueKeptByWriteHeader(q) == q

\* WriteHeader() on the queue q with the operations ws already started: the
\* message leaves the queue BEFORE its header is written.
QueueAfterWriteHeader(q) == IF q = <<>> THEN q ELSE Tail(q)
WritesAfterWriteHeader(e, q, ws) ==
    IF q = <<>> THEN ws ELSE Append(ws, Write(e, "header", Head(q)))

\* The function Send() posts: the message is queued, and if no other one was
\* queued (bWritingMessage is FALSE) its header is written.
RunSend(e) ==
    /\ tasks[e] # <<>> /\ Head(tasks[e]).op = "send"
    /\ LET q == Append(outq[e], Head(tasks[e]).n)
           bWritingMessage == outq[e] # <<>> IN
       IF bWritingMessage
       THEN outq' = [outq EXCEPT ![e] = q] /\ UNCHANGED writes
       ELSE /\ outq' = [outq EXCEPT ![e] = QueueAfterWriteHeader(q)]
            /\ writes' = [writes EXCEPT ![e] = WritesAfterWriteHeader(e, q, @)]
    /\ tasks' = [tasks EXCEPT ![e] = Tail(@)]
    /\ UNCHANGED <<socket, linkVars, reads, stream, taken, appVars>>

\* Mutation of RunClose: the reads are not aborted (shutdown_send for close).
RunCloseReadsOn(e) ==
    /\ tasks[e] # <<>> /\ Head(tasks[e]).op = "close"
    /\ socket' = [socket EXCEPT ![e] = "closed"]
    /\ connect' = IF e = "client" /\ connect \in {"pending", "ok"} THEN "failed" ELSE connect
    /\ writes' = [writes EXCEPT ![e] = Abort(@)]
    /\ tasks' = [tasks EXCEPT ![e] = Tail(@)]
    /\ UNCHANGED <<linked, reset, timer, accepted, outq, reads, stream, taken, appVars>>

\* The function Disconnect() posts: m_socket.close() aborts what is pending.
RunClose(e) ==
    /\ tasks[e] # <<>> /\ Head(tasks[e]).op = "close"
    /\ socket' = [socket EXCEPT ![e] = "closed"]
    /\ connect' = IF e = "client" /\ connect \in {"pending", "ok"} THEN "failed" ELSE connect
    /\ writes' = [writes EXCEPT ![e] = Abort(@)]
    /\ reads' = [reads EXCEPT ![e] = Abort(@)]
    /\ tasks' = [tasks EXCEPT ![e] = Tail(@)]
    /\ UNCHANGED <<linked, reset, timer, accepted, outq, stream, taken, appVars>>

\* Mutation of WriteError: the write is tried again.
WriteErrorRetries(e) ==
    /\ writes[e] # <<>> /\ Head(writes[e]).ec = "failed"
    /\ writes' = [writes EXCEPT ![e] = Append(Tail(@), Write(e, Head(@).op, Head(@).n))]
    /\ Disconnect(e)
    /\ UNCHANGED <<socket, linkVars, outq, reads, stream, taken, appVars>>

\* Any handler of async_write with an error: Disconnect() and no more.
WriteError(e) ==
    /\ writes[e] # <<>> /\ Head(writes[e]).ec = "failed"
    /\ writes' = [writes EXCEPT ![e] = Tail(@)]
    /\ Disconnect(e)
    /\ UNCHANGED <<socket, linkVars, outq, reads, stream, taken, appVars>>

\* Mutation of HeaderWritten: WriteBody is not called.
HeaderWrittenAlone(e) ==
    /\ writes[e] # <<>> /\ Head(writes[e]).ec = "ok" /\ Head(writes[e]).op = "header"
    /\ writes' = [writes EXCEPT ![e] = WritesAfterWriteHeader(e, outq[e], Tail(@))]
    /\ outq' = [outq EXCEPT ![e] = QueueAfterWriteHeader(@)]
    /\ UNCHANGED <<socket, linkVars, tasks, reads, stream, taken, appVars>>

\* Handler of WriteHeader: WriteBody if there is a body, then WriteHeader.
HeaderWritten(e) ==
    /\ writes[e] # <<>> /\ Head(writes[e]).ec = "ok" /\ Head(writes[e]).op = "header"
    /\ LET n == Head(writes[e]).n
           ws == IF BodyLen[sent[e][n]] > 0
                 THEN Append(Tail(writes[e]), Write(e, "body", n))
                 ELSE Tail(writes[e]) IN
       /\ writes' = [writes EXCEPT ![e] = WritesAfterWriteHeader(e, outq[e], ws)]
       /\ outq' = [outq EXCEPT ![e] = QueueAfterWriteHeader(@)]
    /\ UNCHANGED <<socket, linkVars, tasks, reads, stream, taken, appVars>>

\* Handler of WriteBody: WriteHeader if a message is queued.
BodyWritten(e) ==
    /\ writes[e] # <<>> /\ Head(writes[e]).ec = "ok" /\ Head(writes[e]).op = "body"
    /\ writes' = [writes EXCEPT ![e] = WritesAfterWriteHeader(e, outq[e], Tail(@))]
    /\ outq' = [outq EXCEPT ![e] = QueueAfterWriteHeader(@)]
    /\ UNCHANGED <<socket, linkVars, tasks, reads, stream, taken, appVars>>

\* Mutation of NonceWritten: ReadHeader() whoever the owner is.
NonceWrittenReads(e) ==
    /\ writes[e] # <<>> /\ Head(writes[e]).ec = "ok" /\ Head(writes[e]).op = "nonce"
    /\ writes' = [writes EXCEPT ![e] = Tail(@)]
    /\ reads' = [reads EXCEPT ![e] = Append(@, Read(e, "header", PairLen, <<>>))]
    /\ UNCHANGED <<socket, linkVars, tasks, outq, stream, taken, appVars>>

\* Handler of WriteValidation: the client starts to read messages.
NonceWritten(e) ==
    /\ writes[e] # <<>> /\ Head(writes[e]).ec = "ok" /\ Head(writes[e]).op = "nonce"
    /\ writes' = [writes EXCEPT ![e] = Tail(@)]
    /\ reads' = IF e = "client"
                THEN [reads EXCEPT ![e] = Append(@, Read(e, "header", PairLen, <<>>))]
                ELSE reads
    /\ UNCHANGED <<socket, linkVars, tasks, outq, stream, taken, appVars>>

-----------------------------------------------------------------------------
(* Reading.                                                                *)

\* Mutation of ReadError: Disconnect() is not called.
ReadErrorIgnored(e) ==
    /\ reads[e] # <<>> /\ Head(reads[e]).ec = "failed"
    /\ reads' = [reads EXCEPT ![e] = Tail(@)]
    /\ UNCHANGED <<socket, linkVars, tasks, outq, writes, stream, taken, appVars>>

\* Any handler of async_read with an error: Disconnect() and no more.
ReadError(e) ==
    /\ reads[e] # <<>> /\ Head(reads[e]).ec = "failed"
    /\ reads' = [reads EXCEPT ![e] = Tail(@)]
    /\ Disconnect(e)
    /\ UNCHANGED <<socket, linkVars, outq, writes, stream, taken, appVars>>

\* The read at the head of reads[e], an op, has its words.
HasRead(e, op) == reads[e] # <<>> /\ Head(reads[e]).ec = "ok" /\ Head(reads[e]).op = op

\* Handler of ReadValidation at the client: the number is scrambled and sent
\* back; the right answer is the scramble of the number the server sent.
AnswerValidation ==
    /\ HasRead("client", "nonce")
    /\ reads' = [reads EXCEPT !["client"] = Tail(@)]
    /\ writes' = [writes EXCEPT !["client"] =
                    Append(@, Write("client", "nonce", MessageNumber(Head(reads["client"]).data)))]
    /\ UNCHANGED <<socket, linkVars, tasks, outq, stream, taken, appVars>>

\* Handler of ReadValidation at the server, the answer is right:
\* OnClientValidated sends Client_Accepted, then ReadHeader().
ClientValidated ==
    /\ HasRead("server", "nonce")
    /\ Head(reads["server"]).data = Pair(0)
    /\ validated' = "yes"
    /\ Send("server", "Client_Accepted")
    /\ reads' = [reads EXCEPT !["server"] =
                    Append(Tail(@), Read("server", "header", PairLen, <<>>))]
    /\ UNCHANGED <<socket, linkVars, outq, writes, stream, taken, recv, handled>>

\* Mutation of ClientRejected: the wrong answer is only reported.
ClientRejectedOnPaper ==
    /\ HasRead("server", "nonce")
    /\ Head(reads["server"]).data # Pair(0)
    /\ validated' = "rejected"
    /\ reads' = [reads EXCEPT !["server"] =
                    Append(Tail(@), Read("server", "header", PairLen, <<>>))]
    /\ UNCHANGED <<socket, linkVars, tasks, outq, writes, stream, taken, sent, recv, handled>>

\* The same handler, "Client Disconnected (Fail Validation)".
ClientRejected ==
    /\ HasRead("server", "nonce")
    /\ Head(reads["server"]).data # Pair(0)
    /\ validated' = "rejected"
    /\ Disconnect("server")
    /\ reads' = [reads EXCEPT !["server"] = Tail(@)]
    /\ UNCHANGED <<socket, linkVars, outq, writes, stream, taken, sent, recv, handled>>

\* The size field of a header; of words that are not one, some size.
SizesOf(e, data) ==
    IF HasHeaderOf(e, data) THEN {BodyLen[sent[e][MessageNumber(data)]]} ELSE MisreadLens

\* Mutation of AddToIncomingMessageQueue: ReadHeader() is not called.
AddToIncomingAndStop(e, words) ==
    /\ recv' = [recv EXCEPT ![e] = Append(@, words)]
    /\ reads' = [reads EXCEPT ![e] = Tail(@)]

\* AddToIncomingMessageQueue(), then ReadHeader() once more.
AddToIncomingMessageQueue(e, words) ==
    /\ recv' = [recv EXCEPT ![e] = Append(@, words)]
    /\ reads' = [reads EXCEPT ![e] = Append(Tail(@), Read(e, "header", PairLen, <<>>))]

\* Mutation of HeaderRead: the size is not looked at.
HeaderReadAlone(e) ==
    /\ HasRead(e, "header")
    /\ AddToIncomingMessageQueue(e, Head(reads[e]).data)
    /\ UNCHANGED <<socket, linkVars, tasks, outq, writes, stream, taken, sent, handled, validated>>

\* Handler of ReadHeader: ReadBody if header.size > 0.
HeaderRead(e) ==
    /\ HasRead(e, "header")
    /\ \E size \in SizesOf(Peer(e), Head(reads[e]).data) :
          IF size > 0
          THEN /\ reads' = [reads EXCEPT ![e] =
                              Append(Tail(@), Read(e, "body", size, Head(@).data))]
               /\ UNCHANGED recv
          ELSE AddToIncomingMessageQueue(e, Head(reads[e]).data)
    /\ UNCHANGED <<socket, linkVars, tasks, outq, writes, stream, taken, sent, handled, validated>>

\* Handler of ReadBody.
BodyRead(e) ==
    /\ HasRead(e, "body")
    /\ AddToIncomingMessageQueue(e, Head(reads[e]).head \o Head(reads[e]).data)
    /\ UNCHANGED <<socket, linkVars, tasks, outq, writes, stream, taken, sent, handled, validated>>

-----------------------------------------------------------------------------
(* The programs.                                                           *)

\* What the client's loop has handled of one kind: its switch is on header.id.
HandledByClient(k) ==
    {i \in 1..handled["client"] : IsKind("server", recv["client"][i], k)}

\* PingServer(): client_Interface::Send sends if IsConnected().
PingServer ==
    /\ socket["client"] = "open"
    /\ Len(sent["client"]) < MaxSends
    /\ Eager \/ HandledByClient("ServerAccept") # {}
    /\ Pipelined \/ Cardinality(HandledByClient("ServerPing")) = Len(sent["client"])
    /\ Send("client", "ServerPing")
    /\ UNCHANGED <<socket, linkVars, outq, ioVars, recv, handled, validated>>

\* The client's loop pops one message while it is connected.
ClientHandles ==
    /\ socket["client"] = "open"
    /\ handled["client"] < Len(recv["client"])
    /\ handled' = [handled EXCEPT !["client"] = @ + 1]
    /\ UNCHANGED <<socket, linkVars, tasks, outq, ioVars, sent, recv, validated>>

\* Mutation of ServerHandles: a ping is echoed twice.
ServerHandlesTwice ==
    /\ socket["server"] # "gone"
    /\ handled["server"] < Len(recv["server"])
    /\ handled' = [handled EXCEPT !["server"] = @ + 1]
    /\ LET n == Len(sent["server"]) IN
          /\ sent' = [sent EXCEPT !["server"] = @ \o <<"ServerPing", "ServerPing">>]
          /\ tasks' = [tasks EXCEPT !["server"] = @ \o <<SendTask(n + 1), SendTask(n + 2)>>]
    /\ UNCHANGED <<socket, linkVars, outq, ioVars, recv, validated>>

\* Update() pops one message and OnMessage, by its id, echoes a ServerPing (the
\* connection may be gone by now).  Words read as a header by mistake may hold
\* that id or another; the echo then counts as a ping's.  When Update() does so
\* is the subject of TsQueue: its wait() may sleep on a queue that is not empty.
ServerHandles ==
    /\ socket["server"] # "gone"
    /\ handled["server"] < Len(recv["server"])
    /\ handled' = [handled EXCEPT !["server"] = @ + 1]
    /\ LET w == recv["server"][handled["server"] + 1] IN
          \/ IsKind("client", w, "ServerPing") /\ Send("server", "ServerPing")
          \/ ~HasHeaderOf("client", w) /\ Send("server", "ServerPing")
          \/ ~HasHeaderOf("client", w) /\ UNCHANGED <<sent, tasks>>
    /\ UNCHANGED <<socket, linkVars, outq, ioVars, recv, validated>>

\* NoticeAllClient on behalf of another client: every connection of the map
\* that is open gets a ServerMessage, validated or not.
Broadcast ==
    /\ accepted = "yes" /\ socket["server"] = "open"
    /\ Cardinality({i \in DOMAIN sent["server"] : sent["server"][i] = "ServerMessage"})
         < MaxBroadcasts
    /\ Send("server", "ServerMessage")
    /\ UNCHANGED <<socket, linkVars, outq, ioVars, recv, handled, validated>>

\* The process at end e ends.  The client's user quits: client_Interface::
\* Disconnect stops the io_context, so that nothing pending ever runs; or either
\* process is ended from outside, the only end that SimpleServer's loop has.  The
\* kernel closes the sockets, and nobody listens where the server was.
Quit(e) ==
    /\ socket[e] # "gone"
    /\ socket' = [socket EXCEPT ![e] = "gone"]
    /\ tasks' = [tasks EXCEPT ![e] = <<>>]
    /\ writes' = [writes EXCEPT ![e] = <<>>]
    /\ reads' = [reads EXCEPT ![e] = <<>>]
    /\ connect' = IF e = "client" /\ connect \in {"pending", "ok"} THEN "failed" ELSE connect
    /\ timer' = IF e = "client" THEN "done" ELSE timer
    /\ UNCHANGED <<linked, reset, accepted, outq, stream, taken, appVars>>

-----------------------------------------------------------------------------
Handlers(e) ==
    \/ RunSend(e) \/ RunClose(e)
    \/ WriteError(e) \/ HeaderWritten(e) \/ BodyWritten(e) \/ NonceWritten(e)
    \/ ReadError(e) \/ HeaderRead(e) \/ BodyRead(e)

Kernel(e) == Transfer(e) \/ Reset(e) \/ WriteFails(e) \/ Arrive(e) \/ ReadFails(e)

Next ==
    \/ ConnectToServer \/ LinkUp \/ Refuse \/ ConnectDone \/ Expire \/ ConnectTimeOut
    \/ Accept \/ IdExists \/ AcceptFails \/ ListenerStops
    \/ AnswerValidation \/ ClientValidated \/ ClientRejected
    \/ \E e \in Ends : Kernel(e) \/ Handlers(e)
    \/ \E e \in Quitters : Quit(e)
    \/ PingServer \/ ClientHandles \/ ServerHandles \/ Broadcast

Spec == Init /\ [][Next]_vars

\* While the header of a message with a body is written, its body is still to
\* follow: a header written now would come between the two.
HeaderOut(e) ==
    \E i \in DOMAIN writes[e] :
        LET w == writes[e][i] IN
        w.op = "header" /\ w.ec # "failed" /\ BodyLen[sent[e][w.n]] > 0

\* No function posted by Send() runs then, nor before the connection is up.
SendsApart == \A e \in Ends : RunSend(e) => linked /\ ~HeaderOut(e)

\* The behaviours whose sends keep apart: what the programs can rely on as long as
\* no two of their calls of Send() meet in that way.
ApartSpec == Init /\ [][Next /\ SendsApart]_vars

(***************************************************************************)
(* Fairness.  An io_context thread runs what is ready, in turn; an accept  *)
(* does not fail for ever; the kernel moves words and reports the loss of  *)
(* a peer process; time passes; the client's loop keeps polling Incoming().*)
(* Nothing makes a connect succeed or fail, a program send, a process end, *)
(* or the server's Update() pop (see Traffic).                             *)
(***************************************************************************)
Fairness ==
    /\ WF_vars(ConnectDone) /\ WF_vars(Expire) /\ WF_vars(ConnectTimeOut)
    /\ WF_vars(Accept \/ IdExists \/ AcceptFails) /\ WF_vars(AnswerValidation)
    /\ WF_vars(ClientValidated \/ ClientRejected)
    /\ WF_vars(ClientHandles)
    /\ \A e \in Ends :
          /\ WF_vars(Transfer(e) \/ (linked /\ WriteFails(e)))
          /\ WF_vars(Arrive(e) \/ ReadFails(e))
          /\ WF_vars(RunSend(e) \/ RunClose(e))
          /\ WF_vars(WriteError(e) \/ HeaderWritten(e) \/ BodyWritten(e) \/ NonceWritten(e))
          /\ WF_vars(ReadError(e) \/ HeaderRead(e) \/ BodyRead(e))

FairSpec == Spec /\ Fairness

-----------------------------------------------------------------------------
(* Properties.                                                             *)

Words == Seq(Nat \X Nat)
Results == {"pending", "ok", "failed"}
Tasks == [op : {"send", "close"}, n : Nat]
WriteOps == [op : {"nonce", "header", "body"}, n : Nat, ec : Results]
ReadOps == [op : {"nonce", "header", "body"}, len : Nat,
            head : Words, data : Words, ec : Results]

TypeOK ==
    /\ socket \in [Ends -> {"none", "open", "closed", "gone"}]
    /\ linked \in BOOLEAN
    /\ reset \subseteq Ends
    /\ connect \in {"no", "pending", "ok", "failed", "done"}
    /\ timer \in {"idle", "armed", "expired", "done"}
    /\ accepted \in {"no", "yes", "never"}
    /\ tasks \in [Ends -> Seq(Tasks)]
    /\ outq \in [Ends -> Seq(Nat)]
    /\ writes \in [Ends -> Seq(WriteOps)]
    /\ reads \in [Ends -> Seq(ReadOps)]
    /\ stream \in [Ends -> Words]
    /\ taken \in [Ends -> Nat]
    /\ sent \in [Ends -> Seq(Kinds)]
    /\ recv \in [Ends -> Seq(Words)]
    /\ handled \in [Ends -> Nat]
    /\ validated \in {"no", "yes", "rejected"}

\* m_qMessageOut is empty whenever no handler runs: WriteHeader() pops a message
\* before its header is on the wire, so a Send() never finds another message
\* being written (bWritingMessage), and nothing orders its write after theirs.
OutQueueDrained == \A e \in Ends : outq[e] = <<>>

\* asio allows one async_read on a socket at a time.  The chain of handlers
\* keeps to that, across the handshake, errors, time-out and close.
OneReadAtATime == \A e \in Ends : Len(reads[e]) <= 1

\* An open connection is never deaf: until Disconnect() has been called, a read
\* is pending or its handler is about to run; else the client still connects,
\* is answering the handshake, or waits for the timer after a failed connect.
NeverDeaf ==
    \A e \in Ends :
        socket[e] = "open" =>
            \/ CloseTask \in {tasks[e][i] : i \in DOMAIN tasks[e]}
            \/ reads[e] # <<>>
            \/ /\ e = "client"
               /\ \/ connect \in {"pending", "ok"}
                  \/ connect = "failed" /\ timer \in {"armed", "expired"}
                  \/ \E i \in DOMAIN writes[e] : writes[e][i].op = "nonce"

\* The server hands nothing to OnMessage before the client has given the right
\* answer, as its first words, whatever the client sends and when.
HeardOnlyIfValidated ==
    recv["server"] # <<>> => /\ validated = "yes"
                             /\ SubSeq(stream["client"], 1, PairLen) = Pair(0)

\* The handshake number is the first thing the server writes, although the
\* accept handler calls Send(ServerAccept) before WriteValidation().  Only a
\* connection whose id is taken gets none: what it gets is ServerAccept's header
\* at most, which its client takes for the number, and it hears no message.
HandshakeComesFirst ==
    Len(stream["server"]) >= PairLen =>
        \/ accepted = "yes" /\ SubSeq(stream["server"], 1, PairLen) = Pair(0)
        \/ accepted = "never" /\ stream["server"] = Pair(1) /\ recv["client"] = <<>>

\* Overlapping writes may mix the frames of two messages, but headers leave in
\* the order of Send(), once each, and no body before its header.
WordsInOrder ==
    \A e \in Ends : \A i, j \in DOMAIN stream[e] :
        LET v == stream[e][i]
            w == stream[e][j] IN
        i < j /\ v[1] # 0 /\ w[1] # 0 =>
            /\ v[1] = w[1] => v[2] < w[2]
            /\ v[2] <= PairLen /\ w[2] <= PairLen => v[1] <= w[1]

\* A client that waits for ServerAccept and for each echo keeps its sends and the
\* server's apart.
SendsKeptApart == [][SendsApart]_vars

\* What is heard at the other end is whole, in order and not repeated, whatever
\* overlaps, as long as sends keep apart (ApartSpec).  It need not all be heard.
WholeFrom(e, w) ==
    IF HasHeaderOf(e, w) /\ w = Frame(MessageNumber(w), sent[e][MessageNumber(w)])
    THEN MessageNumber(w) ELSE 0
Channel == INSTANCE MessageChannel
    WITH sent <- [e \in Ends |-> Len(sent[e])],
         delivered <- [e \in Ends |->
                         [i \in DOMAIN recv[e] |-> WholeFrom(Peer(e), recv[e][i])]]
ImplementsChannel == Channel!Spec

\* The server's end, once approved, is what ServerRegistry takes a connection for:
\* heard from only once validated, never open again once closed, and after its
\* close heard from once more at most (a read that had finished, whose handler
\* runs late).
MessageRead(e) == HasRead(e, "header") \/ HasRead(e, "body")
ServerState ==
    IF accepted # "yes" THEN "none"
    ELSE CASE socket["server"] = "open"   -> IF validated = "yes" THEN "validated" ELSE "new"
           [] socket["server"] = "closed" -> IF MessageRead("server") THEN "closing" ELSE "closed"
           [] OTHER                       -> "closed"
ServerSide == INSTANCE ServerConnection
    WITH state <- ServerState,
         waiting <- Len(recv["server"]) - handled["server"]
ImplementsServerConnection == ServerSide!Spec

\* A client that waits for ServerAccept before it sends is never refused.
PatientClientAccepted == validated # "rejected"

\* Every attempt to connect comes to an end: the server validates the client, or
\* the client's socket is closed (refused, timed out, turned away, lost).  Only
\* where the listener has stopped before its turn the client may wait for ever: its
\* connect succeeds, and nobody reads or writes at the other end.
AttemptResolved ==
    socket["client"] = "open" ~>
        \/ validated = "yes" \/ socket["client"] # "open"
        \/ accepted = "never" /\ socket["server"] = "none"

\* When one end has left, the other closes its socket, from any state.
PeerLossNoticed ==
    \A e \in Ends : (socket[e] = "open" /\ HasLeft(Peer(e))) ~> socket[e] # "open"

\* A connection that has been closed comes to rest, although the program may go on
\* to send to it: every function posted and every operation started ends, none
\* starts another for ever, and with them goes the last share of the Connection.
ClosedComesToRest ==
    \A e \in Ends :
        socket[e] = "closed" ~> tasks[e] = <<>> /\ writes[e] = <<>> /\ reads[e] = <<>>

\* Each ping is echoed, unless the connection is lost, if the server's program
\* pops: its wait() may have missed the wake-up of the last ping, and then sleeps
\* until another message comes, of whatever client (TsQueue).  A patient client
\* sends no other, so that Traffic is the others' doing.
Traffic == WF_vars(ServerHandles)
EchoArrives ==
    Traffic =>
        \A n \in 1..MaxSends :
            (Len(sent["client"]) >= n) ~>
                \/ Cardinality(HandledByClient("ServerPing")) >= n
                \/ socket["client"] # "open"

\* asio/write.hpp, of async_write: the program must start no other write on the
\* stream until the operation completes.
NoOverlappingWrites ==
    \A e \in Ends : \A i, j \in DOMAIN writes[e] :
        writes[e][i].ec = "pending" /\ writes[e][j].ec = "pending" => i = j

\* "Connect TimeOut!" is printed, and the connection closed, only for a client
\* that is not connected yet.
TimeOutOnlyUnconnected == [][ConnectTimeOut => connect # "done"]_vars
=============================================================================
