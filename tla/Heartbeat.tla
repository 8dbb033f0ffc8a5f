----------------------------- MODULE Heartbeat -----------------------------
(***************************************************************************)
(* The heartbeat of one client: heartbeat_Interface (ClientHeartBeat.h) in *)
(* the client_Interface that starts it, serverHeartbeat_Interface          *)
(* (ServerHeartBeat.h) in its server_Interface, and the connection of its  *)
(* own between them.                                                       *)
(*                                                                         *)
(* A program that has popped ServerAccept connects the heartbeat and writes *)
(* the first beat itself; from then on the heartbeat's thread goes round a *)
(* chain: header, body, ten seconds, header.  The server answers a new     *)
(* connection with HeartBeatStart and echoes each beat.  How a Connection  *)
(* carries a message word by word is the subject of module Connection; here *)
(* a frame is on the wire when its body is.                                *)
(***************************************************************************)
EXTENDS Naturals, Sequences

CONSTANT Capacity    \* frames that a wire, or a queue of a process, holds

ASSUME CapacityAssumption == Capacity \in Nat \ {0}

Ends == {"client", "server"}
Peer(e) == IF e = "client" THEN "server" ELSE "client"

VARIABLES
    prog,       \* the program's thread: "start", "run", "startHeartBeat", then
                \* "leaving", "queueGone" (its destructors) and "gone" or "crashed"
    main,       \* the main connection: "none", "open", "accepted", "closed"
    inbox,      \* m_qMessageIn, which both connections fill
    server,     \* the server's process: "up", "stopped" (in Stop()), "dead"
    sock,       \* the heartbeat's socket: "none", "open", "closed", "gone"
    closing,    \* ends whose Disconnect() has posted a close
    reading,    \* ends at which ReadHeader() has a read in flight
    connect,    \* async_connect: "no", "pending", "ok", "failed", "done"; "threw"
    timer,      \* time_out: "idle", "armed", "expired", "done"
    chain,      \* the beat's operations: started, and not yet handled
    msg,        \* the beat's message: "none", "held" by a shared_ptr, "freed"
    toServer, toClient,   \* frames on the wire
    srvTasks,   \* the server's posted sends
    srvQueue,   \* the server's m_qMessageIn
    greeting    \* HeartBeatStart: "awaited" by the client, or "heard" (history)

linkVars == <<connect, timer>>
chainVars == <<chain, msg>>
progVars == <<prog, main, inbox, greeting>>
srvVars == <<server, srvTasks, srvQueue>>
vars == <<progVars, srvVars, sock, closing, reading, linkVars, chainVars, toServer, toClient>>

Over == prog \in {"gone", "crashed"}
Left(e) == sock[e] \in {"closed", "gone"}
Frames == {"HeartBeatStart", "HeartBeat"}
Messages == Frames \cup {"ServerAccept"}
ChainOps == [op : {"header", "body", "wait"}, ec : {"pending", "ok", "failed"}]

\* Mutation of Begin: what is kept is the socket's state, not the outcome.
BeginKeepsSocket(op) == [op |-> op, ec |-> sock["client"]]

\* An operation of the chain starts; one on a socket that is not open fails.
Begin(op) == [op |-> op, ec |-> IF sock["client"] = "open" THEN "pending" ELSE "failed"]

\* Connection::Disconnect(): posts a close if the socket is open now.
Disconnect(e) == closing' = IF sock[e] = "open" THEN closing \cup {e} ELSE closing

Init ==
    /\ prog = "start" /\ main = "none" /\ inbox = <<>> /\ greeting = "awaited"
    /\ server = "up" /\ srvTasks = <<>> /\ srvQueue = <<>>
    /\ sock = [e \in Ends |-> "none"] /\ closing = {} /\ reading = {}
    /\ connect = "no" /\ timer = "idle"
    /\ chain = {} /\ msg = "none"
    /\ toServer = <<>> /\ toClient = <<>>

-----------------------------------------------------------------------------
(* The client's program and its main connection.                           *)

\* Mutation of IsConnected: a live heartbeat counts as a connection.
IsConnectedOrBeats == main \in {"open", "accepted"} \/ sock["client"] = "open"

\* client_Interface::IsConnected().
IsConnected == main \in {"open", "accepted"}

\* client_Interface::Connect: the socket is open from here on, unless the resolver
\* throws, after which IsConnected() is false as after a close.
Connect ==
    /\ prog = "start"
    /\ prog' = "run" /\ main' \in {"open", "closed"}
    /\ UNCHANGED <<inbox, greeting, srvVars, sock, closing, reading, linkVars, chainVars, toServer, toClient>>

\* The main connection's thread delivers the ServerAccept its server sent.
MainAccepts ==
    /\ main = "open" /\ Len(inbox) < Capacity
    /\ main' = "accepted" /\ inbox' = Append(inbox, "ServerAccept")
    /\ UNCHANGED <<prog, greeting, srvVars, sock, closing, reading, linkVars, chainVars, toServer, toClient>>

\* The main connection ends: time-out, refusal, error, loss of the server.
MainCloses ==
    /\ IsConnected
    /\ main' = "closed"
    /\ UNCHANGED <<prog, inbox, greeting, srvVars, sock, closing, reading, linkVars, chainVars, toServer, toClient>>

\* The loop pops a message; the heartbeat's own are only reported.
PopHeartbeat ==
    /\ prog = "run" /\ IsConnected
    /\ inbox # <<>> /\ Head(inbox) \in Frames
    /\ inbox' = Tail(inbox)
    /\ UNCHANGED <<prog, main, greeting, srvVars, sock, closing, reading, linkVars, chainVars, toServer, toClient>>

\* ServerAccept: startHeartBeat makes the one heartbeat and connects it, with a
\* connect timer of its own, unless the resolver throws (which nobody looks at).
ConnectHeartbeatToServer ==
    /\ prog = "run" /\ IsConnected
    /\ inbox # <<>> /\ Head(inbox) = "ServerAccept" /\ connect = "no"
    /\ inbox' = Tail(inbox)
    /\ prog' = "startHeartBeat"
    /\ \/ /\ sock' = [sock EXCEPT !["client"] = "open"]
          /\ connect' = "pending" /\ timer' = "armed"
       \/ connect' = "threw" /\ UNCHANGED <<sock, timer>>
    /\ UNCHANGED <<main, greeting, srvVars, closing, reading, chainVars, toServer, toClient>>

\* send_heartbeatHeader(), called by the program at first and then by the timer.
\* The connect need not have succeeded.
SendHeartbeatHeader(rest) ==
    IF sock["client"] = "open"
    THEN chain' = rest \cup {Begin("header")} /\ msg' = "held"
    ELSE chain' = rest /\ UNCHANGED msg

\* heartbeat->startHeartBeat(), while the heartbeat's thread runs already.
StartHeartBeat ==
    /\ prog = "startHeartBeat"
    /\ prog' = "run"
    /\ SendHeartbeatHeader(chain)
    /\ UNCHANGED <<main, inbox, greeting, srvVars, sock, closing, reading, linkVars, toServer, toClient>>

\* The loop ends, by "Server Down" or by key 3, and ~client_Interface calls its
\* Disconnect(): the main connection's thread is stopped and joined.
Leave ==
    /\ prog = "run"
    /\ prog' = "leaving" /\ main' = "closed"
    /\ UNCHANGED <<inbox, greeting, srvVars, sock, closing, reading, linkVars, chainVars, toServer, toClient>>
ServerDown == ~IsConnected /\ Leave

\* The members go in reverse order, m_qMessageIn first: the heartbeat's thread
\* still delivers into it (DeliverToNobody).
DestroyQueue ==
    /\ prog = "leaving"
    /\ prog' = "queueGone" /\ inbox' = <<>>
    /\ UNCHANGED <<main, greeting, srvVars, sock, closing, reading, linkVars, chainVars, toServer, toClient>>

\* The process is no more, and with it the heartbeat's thread and its socket.
ClientEnds(how) ==
    /\ prog' = how
    /\ sock' = [sock EXCEPT !["client"] = IF @ = "none" THEN "none" ELSE "gone"]
    /\ closing' = closing \ {"client"} /\ reading' = reading \ {"client"}
    /\ timer' = "done" /\ chain' = {} /\ msg' = "freed"

\* ~heartbeat_Interface: Disconnect() stops and joins its thread.  After a
\* Connect() that threw, heartbeat_timer is null and cancel() crashes.
DestroyHeartbeat ==
    /\ prog = "queueGone"
    /\ ClientEnds(IF connect = "threw" THEN "crashed" ELSE "gone")
    /\ UNCHANGED <<main, inbox, greeting, srvVars, connect, toServer, toClient>>

\* A frame arrives for the destroyed queue: undefined, so it is lost or fatal.
DeliverToNobody ==
    /\ prog = "queueGone"
    /\ "client" \in reading /\ toClient # <<>>
    /\ toClient' = Tail(toClient)
    /\ \/ ClientEnds("crashed")
       \/ UNCHANGED <<prog, sock, closing, reading, timer, chainVars>>
    /\ UNCHANGED <<main, inbox, greeting, srvVars, connect, toServer>>

-----------------------------------------------------------------------------
(* The heartbeat's connection.                                             *)

\* The kernel: the server's backlog takes the connection, or it is refused.
Resolve ==
    /\ connect = "pending"
    /\ \/ server # "dead" /\ connect' = "ok"
       \/ connect' = "failed"
    /\ UNCHANGED <<progVars, srvVars, sock, closing, reading, timer, chainVars, toServer, toClient>>
Linked == connect \in {"ok", "done"}

\* Handler of async_connect, !ec: time_out->cancel() and ReadHeader().
ConnectDone ==
    /\ connect = "ok" /\ ~Over
    /\ connect' = "done"
    /\ timer' = IF timer = "armed" THEN "done" ELSE timer
    /\ reading' = reading \cup {"client"}
    /\ UNCHANGED <<progVars, srvVars, sock, closing, chainVars, toServer, toClient>>

\* Ten seconds have passed; then the handler of ConnectTimeOutHander runs.
Expire ==
    /\ timer = "armed"
    /\ timer' = "expired"
    /\ UNCHANGED <<progVars, srvVars, sock, closing, reading, connect, chainVars, toServer, toClient>>
ConnectTimeOut ==
    /\ timer = "expired"
    /\ timer' = "done"
    /\ Disconnect("client")
    /\ UNCHANGED <<progVars, srvVars, sock, reading, connect, chainVars, toServer, toClient>>

\* Handler of async_accept; m_deqConnection grows, and the next accept is for
\* another client.
ConnectHeartbeatToClient == reading' = reading \cup {"server"}
HeartBeatStart == srvTasks' = Append(srvTasks, "HeartBeatStart")
Accept ==
    /\ server = "up" /\ Linked /\ sock["server"] = "none"
    /\ sock' = [sock EXCEPT !["server"] = "open"]
    /\ ConnectHeartbeatToClient
    /\ HeartBeatStart
    /\ UNCHANGED <<progVars, server, srvQueue, closing, linkVars, chainVars, toServer, toClient>>

\* Handlers run at end e.
Runs(e) == IF e = "client" THEN ~Over ELSE server = "up"

\* A read has failed, since the peer has left: the handler disconnects.
ReadFails(e) ==
    /\ Runs(e) /\ e \in reading /\ Left(Peer(e))
    /\ reading' = reading \ {e}
    /\ Disconnect(e)
    /\ UNCHANGED <<progVars, srvVars, sock, linkVars, chainVars, toServer, toClient>>

\* Mutation of RunClose: shutdown() where close() is meant.
RunCloseShutsDown(e) ==
    /\ Runs(e) /\ e \in closing
    /\ closing' = closing \ {e} /\ reading' = reading \ {e}
    /\ chain' = IF e = "client" THEN {[o EXCEPT !.ec = "failed"] : o \in chain} ELSE chain
    /\ UNCHANGED <<progVars, srvVars, sock, linkVars, msg, toServer, toClient>>

\* The posted function: m_socket.close() aborts what is in flight on it.
RunClose(e) ==
    /\ Runs(e) /\ e \in closing
    /\ sock' = [sock EXCEPT ![e] = "closed"]
    /\ closing' = closing \ {e} /\ reading' = reading \ {e}
    /\ IF e = "client"
       THEN /\ connect' = IF connect \in {"pending", "ok"} THEN "failed" ELSE connect
            /\ chain' = {IF o.op # "wait" /\ o.ec = "pending"
                         THEN [o EXCEPT !.ec = "failed"] ELSE o : o \in chain}
       ELSE UNCHANGED <<connect, chain>>
    /\ UNCHANGED <<progVars, srvVars, timer, msg, toServer, toClient>>

-----------------------------------------------------------------------------
(* The chain of the client's heartbeat.                                    *)

\* The kernel takes the bytes of a write, or cannot: there is no connection (yet;
\* some systems then wait for one) or the server has left.
WriteDone ==
    \E o \in chain :
       /\ o.op # "wait" /\ o.ec = "pending"
       /\ Linked /\ Len(toServer) < Capacity
       /\ chain' = (chain \ {o}) \cup {[o EXCEPT !.ec = "ok"]}
       /\ toServer' = IF o.op = "body" THEN Append(toServer, "HeartBeat") ELSE toServer
       /\ UNCHANGED <<progVars, srvVars, sock, closing, reading, linkVars, msg, toClient>>
WriteFails ==
    \E o \in chain :
       /\ o.op # "wait" /\ o.ec = "pending"
       /\ ~Linked \/ Left("server")
       /\ chain' = (chain \ {o}) \cup {[o EXCEPT !.ec = "failed"]}
       /\ UNCHANGED <<progVars, srvVars, sock, closing, reading, linkVars, msg, toServer, toClient>>

\* Either handler, with an error: Disconnect(), and the chain ends.
WriteError ==
    \E o \in chain :
       /\ o.ec = "failed"
       /\ chain' = chain \ {o}
       /\ msg' = "freed"
       /\ Disconnect("client")
       /\ UNCHANGED <<progVars, srvVars, sock, reading, linkVars, toServer, toClient>>

\* The header's handler writes the body.  The body's own handler keeps no share
\* in the message, so the message is freed when this one returns.
HeaderWritten ==
    \E o \in chain :
       /\ o = [op |-> "header", ec |-> "ok"]
       /\ chain' = (chain \ {o}) \cup {Begin("body")}
       /\ msg' = "freed"
       /\ UNCHANGED <<progVars, srvVars, sock, closing, reading, linkVars, toServer, toClient>>

\* Mutation of BodyWritten: the timer is not started.
BodyWrittenAlone ==
    \E o \in chain :
       /\ o = [op |-> "body", ec |-> "ok"]
       /\ chain' = chain \ {o}
       /\ UNCHANGED <<progVars, srvVars, sock, closing, reading, linkVars, msg, toServer, toClient>>

\* The body's handler calls handle_heartbeat(): ten seconds, if still connected.
BodyWritten ==
    \E o \in chain :
       /\ o = [op |-> "body", ec |-> "ok"]
       /\ chain' = (chain \ {o}) \cup
                     IF sock["client"] = "open" THEN {[op |-> "wait", ec |-> "pending"]} ELSE {}
       /\ UNCHANGED <<progVars, srvVars, sock, closing, reading, linkVars, msg, toServer, toClient>>

\* heartbeat_timer's handler: the next beat, if still connected.
TimerFires ==
    \E o \in chain :
       /\ o.op = "wait"
       /\ SendHeartbeatHeader(chain \ {o})
       /\ UNCHANGED <<progVars, srvVars, sock, closing, reading, linkVars, toServer, toClient>>

\* A frame has arrived at the client: m_qMessageIn gets it, ReadHeader() again.
DeliverToClient ==
    /\ prog \in {"run", "startHeartBeat", "leaving"} /\ "client" \in reading
    /\ toClient # <<>> /\ Len(inbox) < Capacity
    /\ toClient' = Tail(toClient)
    /\ inbox' = Append(inbox, Head(toClient))
    /\ greeting' = IF Head(toClient) = "HeartBeatStart" THEN "heard" ELSE greeting
    /\ UNCHANGED <<prog, main, srvVars, sock, closing, reading, linkVars, chainVars, toServer>>

-----------------------------------------------------------------------------
(* The server.                                                             *)

DeliverToServer ==
    /\ server = "up" /\ "server" \in reading
    /\ toServer # <<>> /\ Len(srvQueue) < Capacity
    /\ toServer' = Tail(toServer)
    /\ srvQueue' = Append(srvQueue, Head(toServer))
    /\ UNCHANGED <<progVars, server, srvTasks, sock, closing, reading, linkVars, chainVars, toClient>>

\* Mutation of PostEcho: the newest function runs first.
PostEchoInFront == srvTasks' = <<Head(srvQueue)>> \o srvTasks

\* Mutation of PostEcho: the beat is taken note of, and that is all.
EchoSwallowed == UNCHANGED srvTasks

\* client->Send(msg), whatever has become of the connection.
PostEcho == srvTasks' = Append(srvTasks, Head(srvQueue))

\* heartbeatthread, in Update's while(1): it outlives a Stop(), which waits for
\* it for ever.
EchoHeartBeat ==
    /\ server # "dead"
    /\ srvQueue # <<>> /\ Len(srvTasks) < Capacity
    /\ srvQueue' = Tail(srvQueue)
    /\ PostEcho
    /\ UNCHANGED <<progVars, server, sock, closing, reading, linkVars, chainVars, toServer, toClient>>

\* The function Send() posted: the frame is written, or the write fails and its
\* handler disconnects.
RunSend ==
    /\ server = "up" /\ srvTasks # <<>>
    /\ srvTasks' = Tail(srvTasks)
    /\ \/ /\ sock["server"] = "open" /\ Len(toClient) < Capacity
          /\ toClient' = Append(toClient, Head(srvTasks))
          /\ UNCHANGED closing
       \/ /\ sock["server"] # "open" \/ Left("client")
          /\ Disconnect("server")
          /\ UNCHANGED toClient
    /\ UNCHANGED <<progVars, server, srvQueue, sock, reading, linkVars, chainVars, toServer>>

\* server_Interface::Stop() in a program that ends its loop: both contexts are
\* stopped, and the heartbeat's Stop() joins heartbeatthread.  The sockets stay.
Stop ==
    /\ server = "up"
    /\ server' = "stopped"
    /\ UNCHANGED <<progVars, srvTasks, srvQueue, sock, closing, reading, linkVars, chainVars, toServer, toClient>>

\* The server's process ends.
ServerDies ==
    /\ server # "dead"
    /\ server' = "dead" /\ srvTasks' = <<>> /\ srvQueue' = <<>>
    /\ sock' = [sock EXCEPT !["server"] = "gone"]
    /\ closing' = closing \ {"server"} /\ reading' = reading \ {"server"}
    /\ UNCHANGED <<progVars, linkVars, chainVars, toServer, toClient>>

-----------------------------------------------------------------------------
Program ==
    \/ PopHeartbeat \/ ConnectHeartbeatToServer \/ StartHeartBeat
    \/ ServerDown \/ DestroyQueue \/ DestroyHeartbeat
ChainHandlers == WriteError \/ HeaderWritten \/ BodyWritten \/ TimerFires

Next ==
    \/ Connect \/ MainAccepts \/ MainCloses \/ Leave \/ Program \/ DeliverToNobody
    \/ Resolve \/ ConnectDone \/ Expire \/ ConnectTimeOut \/ Accept
    \/ \E e \in Ends : ReadFails(e) \/ RunClose(e)
    \/ WriteDone \/ WriteFails \/ ChainHandlers
    \/ DeliverToClient \/ DeliverToServer \/ EchoHeartBeat \/ RunSend \/ Stop \/ ServerDies

Spec == Init /\ [][Next]_vars

\* Threads go on, the kernel moves frames and reports a lost peer, time passes.
\* Nothing makes a connect succeed, and a write of one that hangs may wait.
Fairness ==
    /\ WF_vars(Program)
    /\ WF_vars(ConnectDone) /\ WF_vars(Expire) /\ WF_vars(ConnectTimeOut) /\ WF_vars(Accept)
    /\ \A e \in Ends : WF_vars(ReadFails(e)) /\ WF_vars(RunClose(e))
    /\ WF_vars(WriteDone \/ (connect # "pending" /\ WriteFails)) /\ WF_vars(ChainHandlers)
    /\ WF_vars(DeliverToClient) /\ WF_vars(DeliverToServer)
    /\ WF_vars(EchoHeartBeat) /\ WF_vars(RunSend)

FairSpec == Spec /\ Fairness

-----------------------------------------------------------------------------
(* Properties.                                                             *)

Progs == {"start", "run", "startHeartBeat", "leaving", "queueGone", "gone", "crashed"}

TypeOK ==
    /\ prog \in Progs
    /\ main \in {"none", "open", "accepted", "closed"}
    /\ inbox \in Seq(Messages)
    /\ greeting \in {"awaited", "heard"}
    /\ server \in {"up", "stopped", "dead"}
    /\ srvTasks \in Seq(Frames) /\ srvQueue \in Seq(Frames)
    /\ sock \in [Ends -> {"none", "open", "closed", "gone"}]
    /\ closing \subseteq Ends /\ reading \subseteq Ends
    /\ connect \in {"no", "pending", "ok", "failed", "done", "threw"}
    /\ timer \in {"idle", "armed", "expired", "done"}
    /\ chain \subseteq ChainOps /\ msg \in {"none", "held", "freed"}
    /\ toServer \in Seq(Frames) /\ toClient \in Seq(Frames)

\* Header, body, timer and the program's first call hand one beat on, through
\* errors, closes, time-outs: there are never two beats under way, and an open
\* heartbeat that was started never loses its beat unless it is being closed
\* (a beat lost with the socket open would never be noticed by anyone).
ChainUnbroken ==
    /\ \A a, b \in chain : a = b
    /\ sock["client"] = "open" /\ prog # "startHeartBeat" =>
          chain # {} \/ "client" \in closing

\* The client hears HeartBeatStart before any echo, although its first beat is
\* written before the server has accepted, and although HeartBeatStart is sent
\* by the context's thread and echoes by heartbeatthread.
StartComesFirst == \A i \in DOMAIN inbox : inbox[i] = "HeartBeat" => greeting = "heard"

\* While both processes and both connections last, the program keeps hearing
\* echoes ("server works fine"): the chain, the wire, the server's two threads
\* and the shared queue keep passing the beat on.
Alive == /\ prog = "run" /\ IsConnected
         /\ sock["client"] = "open" /\ Linked /\ server = "up"
HearsEcho == inbox # <<>> /\ Head(inbox) = "HeartBeat"
EchoesGoOn == <>[]Alive => []<>HearsEcho

\* A heartbeat does not outlive its server's process, wherever in connecting,
\* writing or waiting it is.  (It does outlive a server that called Stop(): its
\* beats go unanswered, and nothing in the client looks for answers.)
ServerLossNoticed == server = "dead" ~> sock["client"] # "open"

\* When the main connection ends, the loop says "Server Down" and the program
\* ends, in whatever state its heartbeat is.  A crash on the way counts as an end.
ProgramEnds == main = "closed" ~> Over

\* asio's rule for async_write: the buffer lives until the handler is called.
BufferOutlivesWrite ==
    \A o \in chain : o.op \in {"header", "body"} /\ o.ec = "pending" => msg = "held"
=============================================================================
