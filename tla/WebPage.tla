------------------------------ MODULE WebPage ------------------------------
(***************************************************************************)
(* GetWebPage.cpp: the main thread connects, starts GrabData's chain of    *)
(* reads on the asio thread, writes the request and waits on a Semaphore   *)
(* until the chain signals; then it stops and joins the asio thread and    *)
(* prints the buffer.  Of the page and the buffer only the lengths count.  *)
(***************************************************************************)
EXTENDS Naturals

CONSTANTS Chunk,     \* bufferlength: the bytes one read takes at most
          MaxPage    \* bound on the length of the server's answer

ASSUME SizesAssumption == Chunk \in Nat \ {0} /\ MaxPage \in Nat

VARIABLES
    main,      \* the main thread: "connect", "grab", "request", then in wait()
               \* "lock", "test", "asleep", and "join", "printed"
    io,        \* the asio thread: "run", in signal() "lock", "notify"; "stopped"
    mu,        \* mu_: "free", "main", "io"
    n,         \* n_
    notified,  \* cv_ has been notified since main fell asleep
    socket,    \* "closed", "connected", or "failed", which is open all the same
    server,    \* "silent", "sending", then "closed" or "reset"
    page,      \* the length of the answer
    sent,      \* bytes of it that have arrived at the client's kernel
    read,      \* async_read_some: "none", "pending", "ok", "failed"
    length,    \* the bytes of the read that is "ok"
    buffer     \* bytes in vBuffer

semVars == <<mu, n, notified>>
netVars == <<socket, server, page, sent>>
readVars == <<read, length, buffer>>
vars == <<main, io, semVars, netVars, readVars>>

Init ==
    /\ main = "connect" /\ io = "run"
    /\ mu = "free" /\ n = 0 /\ notified = FALSE
    /\ socket = "closed" /\ server = "silent" /\ page \in 1..MaxPage /\ sent = 0
    /\ read = "none" /\ length = 0 /\ buffer = 0

-----------------------------------------------------------------------------
(* The main thread.                                                        *)

\* socket.connect(endpoint, ec): a failure is reported, and is_open() holds.
Connect ==
    /\ main = "connect" /\ main' = "grab"
    /\ socket' \in {"connected", "failed"}
    /\ UNCHANGED <<io, semVars, server, page, sent, readVars>>

\* GrabData: async_read_some into a buffer of Chunk bytes.
GrabData == read' = "pending"

StartGrabbing ==
    /\ main = "grab" /\ main' = "request"
    /\ GrabData
    /\ UNCHANGED <<io, semVars, netVars, length, buffer>>

\* write_some: without a connection there is nobody to answer.
WriteRequest ==
    /\ main = "request" /\ main' = "lock"
    /\ server' = IF socket = "connected" /\ server = "silent" THEN "sending" ELSE server
    /\ UNCHANGED <<io, semVars, socket, page, sent, readVars>>

\* Semaphore::wait() takes mu_, at first and when cv_.wait is left.
WaitLocks ==
    /\ main = "lock" \/ (main = "asleep" /\ notified)
    /\ mu = "free"
    /\ mu' = "main" /\ main' = "test"
    /\ UNCHANGED <<io, n, notified, netVars, readVars>>

\* if (!n_) cv_.wait(lock, [this] { return n_; }): sleeps, releasing mu_.
WaitSleeps ==
    /\ main = "test" /\ n = 0
    /\ main' = "asleep" /\ mu' = "free" /\ notified' = FALSE
    /\ UNCHANGED <<io, n, netVars, readVars>>

SpuriousWakeup ==
    /\ main = "asleep" /\ ~notified
    /\ notified' = TRUE
    /\ UNCHANGED <<main, io, mu, n, netVars, readVars>>

\* --n_, and wait() returns.
WaitTakes ==
    /\ main = "test" /\ n > 0
    /\ n' = n - 1
    /\ main' = "join" /\ mu' = "free"
    /\ UNCHANGED <<io, notified, netVars, readVars>>

\* context.stop(), join() (a handler that runs is finished first), and the page
\* is printed.
StopAndPrint ==
    /\ main = "join" /\ io = "run"
    /\ main' = "printed" /\ io' = "stopped"
    /\ UNCHANGED <<semVars, netVars, readVars>>

-----------------------------------------------------------------------------
(* The network: the answer comes in pieces of any size, and with           *)
(* "Connection:close" the server closes after it; it may reset before.     *)

Arrive ==
    /\ server = "sending"
    /\ sent' \in (sent + 1)..page
    /\ UNCHANGED <<main, io, semVars, socket, server, page, readVars>>

ServerCloses ==
    /\ server = "sending" /\ sent = page
    /\ server' = "closed"
    /\ UNCHANGED <<main, io, semVars, socket, page, sent, readVars>>

ServerResets ==
    /\ socket = "connected" /\ server \in {"silent", "sending"}
    /\ server' = "reset"
    /\ UNCHANGED <<main, io, semVars, socket, page, sent, readVars>>

\* async_read_some completes with what is there, one Chunk at most.
ReadSome ==
    /\ read = "pending" /\ sent > buffer
    /\ read' = "ok"
    /\ length' = IF sent - buffer < Chunk THEN sent - buffer ELSE Chunk
    /\ UNCHANGED <<main, io, semVars, netVars, buffer>>

\* Or with an error: no connection, a reset, or the end of what was sent.
ReadFails ==
    /\ read = "pending"
    /\ \/ socket = "failed"
       \/ server = "reset"
       \/ server = "closed" /\ buffer = sent
    /\ read' = "failed"
    /\ UNCHANGED <<main, io, semVars, netVars, length, buffer>>

-----------------------------------------------------------------------------
(* The asio thread: the handler of GrabData's read, and Semaphore::signal().  *)

\* if (ec): reported, and nothing else.
ReadError ==
    /\ io = "run" /\ read = "failed"
    /\ read' = "none"
    /\ UNCHANGED <<main, io, semVars, netVars, length, buffer>>

\* The bytes are appended; a full buffer asks for more.
ReadMore ==
    /\ io = "run" /\ read = "ok" /\ length = Chunk
    /\ buffer' = buffer + length
    /\ GrabData
    /\ UNCHANGED <<main, io, semVars, netVars, length>>

\* Mutation of ReadFinished: the loop goes through the whole of tempbuffer, as the
\* commented-out one did.
ReadFinishedWhole ==
    /\ io = "run" /\ read = "ok" /\ length # Chunk
    /\ buffer' = buffer + Chunk
    /\ read' = "none"
    /\ io' = "lock"
    /\ UNCHANGED <<main, semVars, netVars, length>>

\* Mutation of ReadFinished: the next read is started whatever was read.
ReadFinishedReads ==
    /\ io = "run" /\ read = "ok" /\ length # Chunk
    /\ buffer' = buffer + length
    /\ GrabData
    /\ io' = "lock"
    /\ UNCHANGED <<main, semVars, netVars, length>>

\* A short one is taken for the end: "READ Finished.", and signal() is called.
ReadFinished ==
    /\ io = "run" /\ read = "ok" /\ length # Chunk
    /\ buffer' = buffer + length
    /\ read' = "none"
    /\ io' = "lock"
    /\ UNCHANGED <<main, semVars, netVars, length>>

\* signal() takes mu_ and adds one,
SignalCounts ==
    /\ io = "lock" /\ mu = "free"
    /\ mu' = "io" /\ n' = n + 1
    /\ io' = "notify"
    /\ UNCHANGED <<main, notified, netVars, readVars>>

\* Mutation of SignalNotifies: notify_one() is not called.
SignalReturns ==
    /\ io = "notify"
    /\ mu' = "free"
    /\ io' = "run"
    /\ UNCHANGED <<main, n, notified, netVars, readVars>>

\* notifies the sleeper, if there is one, and releases mu_.
SignalNotifies ==
    /\ io = "notify"
    /\ notified' = (notified \/ main = "asleep")
    /\ mu' = "free"
    /\ io' = "run"
    /\ UNCHANGED <<main, n, netVars, readVars>>

-----------------------------------------------------------------------------
Main == Connect \/ StartGrabbing \/ WriteRequest \/ WaitLocks \/ WaitSleeps \/ WaitTakes
        \/ StopAndPrint
Handlers == ReadError \/ ReadMore \/ ReadFinished \/ SignalCounts \/ SignalNotifies

Next ==
    \/ Main \/ Handlers \/ SpuriousWakeup
    \/ Arrive \/ ServerCloses \/ ServerResets \/ ReadSome \/ ReadFails

Spec == Init /\ [][Next]_vars

\* Both threads go on (mu_ is held briefly, so each gets it), the server sends
\* its answer and closes, and the kernel reports what it has.
FairSpec ==
    /\ Spec
    /\ SF_vars(Main) /\ SF_vars(Handlers)
    /\ WF_vars(Arrive) /\ WF_vars(ServerCloses) /\ WF_vars(ReadSome) /\ WF_vars(ReadFails)

-----------------------------------------------------------------------------
(* Properties.                                                             *)

TypeOK ==
    /\ main \in {"connect", "grab", "request", "lock", "test", "asleep", "join", "printed"}
    /\ io \in {"run", "lock", "notify", "stopped"}
    /\ mu \in {"free", "main", "io"}
    /\ n \in 0..1 /\ notified \in BOOLEAN
    /\ socket \in {"closed", "connected", "failed"}
    /\ server \in {"silent", "sending", "closed", "reset"}
    /\ page \in 1..MaxPage /\ sent \in 0..page
    /\ read \in {"none", "pending", "ok", "failed"}
    /\ length \in 0..Chunk /\ buffer \in 0..sent

\* Once wait() has returned, no read is under way: the main thread stops the
\* context without losing bytes that a read has taken, and it shares vBuffer
\* and the socket with nobody.
NothingInFlight == main \in {"join", "printed"} => read = "none"

\* If the connection lasts, a page whose length is no multiple of the buffer's
\* does not hang the program, whoever comes first to the semaphore: main gets past
\* wait(), and prints the whole page if only the last of its reads came back short.
\* (Else it prints a part, see FinishedMeansAll.  Of a multiple every read may be
\* full; then the end of file is an error, nobody signals, and the program waits
\* for ever.  So it does after a failed connect, since is_open() still holds, and
\* after a reset.)
OnlyLastIsShort == [](read = "ok" /\ length < Chunk => buffer + length = page)
PrintsUnlessMultiple ==
    [](server # "reset") =>
        /\ [](socket = "connected" /\ page % Chunk # 0 => <>(main = "printed"))
        /\ OnlyLastIsShort =>
             [](socket = "connected" /\ page % Chunk # 0 =>
                  <>(main = "printed" /\ buffer = page))

\* "READ Finished." means that the page has been read.
FinishedMeansAll == main = "printed" => buffer = page
=============================================================================
