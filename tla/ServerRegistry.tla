--------------------------- MODULE ServerRegistry ---------------------------
(***************************************************************************)
(* The connections a server_Interface keeps (NetServer.h): accepted by the *)
(* asio thread, walked, pruned and dropped by the program's thread, with   *)
(* no lock between the two.  The program is SimpleServer.cpp, or another   *)
(* one that calls NoticeClient and DisconnectClient between messages.      *)
(*                                                                         *)
(* Ids are uint32_t and wrap: LastId stands for UINT32_MAX, FirstId for    *)
(* connectCountStart.  A connection is known by its place in the order of  *)
(* acceptance; what happens on it is told by module ServerConnection, that *)
(* module Connection implements.                                           *)
(***************************************************************************)
EXTENDS Naturals, Sequences

CONSTANTS LastId,          \* the largest id
          FirstId,         \* the first id given
          MaxConnections,  \* bound: connections accepted
          MaxQueued        \* bound: messages in m_qMessageIn

ASSUME IdsAssumption == LastId \in Nat /\ FirstId \in 0..LastId
ASSUME BoundAssumption == MaxConnections \in Nat /\ MaxQueued \in Nat

Ids == 0..LastId
NoConnection == 0

VARIABLES
    connections,      \* those approved so far: their id, and "new", "validated",
                      \* "closing" (a finished read is still to be handled), "closed"
    m_ConnectionMap,  \* id -> a connection, or NoConnection
    m_nIDCounter,     \* the next id
    accept,           \* the accept handler: "armed", "approved" (at line 86), "stopped"
    m_qMessageIn,     \* the connections whose MessageAll waits for Update()
    needDelete,       \* ids to erase; a set, for a repeated id changes nothing
    program,          \* the program's thread: "idle", "walking", "erasing"
    ignoreclient,     \* the connection the broadcast comes from
    visited,          \* the ids the walk has met
    told,             \* the connections the walk has called Send() for
    InvaildClient,    \* the walk has met a closed connection
    raced,            \* the map was inserted into during this walk
    toErase           \* the ids clearConnectDeque() has still to look at

walkVars == <<ignoreclient, visited, told, InvaildClient, raced>>
acceptVars == <<m_nIDCounter, accept>>
vars == <<connections, m_ConnectionMap, acceptVars, m_qMessageIn, needDelete,
          program, walkVars, toErase>>

IsConnected(c) == connections[c].state \in {"new", "validated"}

Init ==
    /\ connections = <<>>
    /\ m_ConnectionMap = [id \in Ids |-> NoConnection]
    /\ m_nIDCounter = FirstId
    /\ accept = "armed"
    /\ m_qMessageIn = <<>>
    /\ needDelete = {}
    /\ program = "idle"
    /\ ignoreclient = NoConnection
    /\ visited = {}
    /\ told = {}
    /\ InvaildClient = FALSE
    /\ raced = FALSE
    /\ toErase = {}

-----------------------------------------------------------------------------
(* The asio thread.                                                        *)

\* Mutation of NextId: the counter does not wrap.
NextIdUnbounded(id) == id + 1

\* m_nIDCounter++ on a uint32_t.
NextId(id) == IF id = LastId THEN 0 ELSE id + 1

\* The accept handler finds its next id taken: the new connection is closed and
\* the handler returns without WaitForClientConnection().
IdExists ==
    /\ accept = "armed"
    /\ m_ConnectionMap[m_nIDCounter] # NoConnection
    /\ accept' = "stopped"
    /\ UNCHANGED <<connections, m_ConnectionMap, m_nIDCounter, m_qMessageIn,
                   needDelete, program, walkVars, toErase>>

\* The accept handler up to ConnectToClient(), which gives the connection its id.
Approve ==
    /\ accept = "armed"
    /\ m_ConnectionMap[m_nIDCounter] = NoConnection
    /\ Len(connections) < MaxConnections
    /\ connections' = Append(connections, [id |-> m_nIDCounter, state |-> "new"])
    /\ accept' = "approved"
    /\ UNCHANGED <<m_ConnectionMap, m_nIDCounter, m_qMessageIn, needDelete,
                   program, walkVars, toErase>>

\* Mutation of Insert: m_ConnectionMap.emplace(++m_nIDCounter, ...).
InsertUnderNextId ==
    /\ accept = "approved"
    /\ m_ConnectionMap' = [m_ConnectionMap EXCEPT ![NextId(m_nIDCounter)] = Len(connections)]
    /\ m_nIDCounter' = NextId(m_nIDCounter)
    /\ raced' = (raced \/ program = "walking")
    /\ accept' = "armed"
    /\ UNCHANGED <<connections, m_qMessageIn, needDelete, program, ignoreclient,
                   visited, told, InvaildClient, toErase>>

\* Mutation of Insert: a return before WaitForClientConnection().
InsertAndReturn ==
    /\ accept = "approved"
    /\ m_ConnectionMap' = [m_ConnectionMap EXCEPT ![m_nIDCounter] = Len(connections)]
    /\ m_nIDCounter' = NextId(m_nIDCounter)
    /\ raced' = (raced \/ program = "walking")
    /\ accept' = "stopped"
    /\ UNCHANGED <<connections, m_qMessageIn, needDelete, program, ignoreclient,
                   visited, told, InvaildClient, toErase>>

\* The rest of the handler: emplace(m_nIDCounter++, ...), WaitForClientConnection().
\* An erase() of the other thread may run into the emplace: the entry can be lost.
Insert ==
    /\ accept = "approved"
    /\ \/ m_ConnectionMap' = [m_ConnectionMap EXCEPT ![m_nIDCounter] = Len(connections)]
       \/ program = "erasing" /\ UNCHANGED m_ConnectionMap
    /\ m_nIDCounter' = NextId(m_nIDCounter)
    /\ raced' = (raced \/ program = "walking")
    /\ accept' = "armed"
    /\ UNCHANGED <<connections, m_qMessageIn, needDelete, program, ignoreclient,
                   visited, told, InvaildClient, toErase>>

\* Other handlers of this thread run between two accept handlers.
HandlersMayRun == accept # "approved"

\* The client of c has given the right answer.
Validate(c) ==
    /\ HandlersMayRun
    /\ connections[c].state = "new"
    /\ connections' = [connections EXCEPT ![c].state = "validated"]
    /\ UNCHANGED <<m_ConnectionMap, acceptVars, m_qMessageIn, needDelete,
                   program, walkVars, toErase>>

\* A close posted by Disconnect() runs: an error, a wrong answer, a lost peer.  A
\* read that has finished by then is handled later.
Close(c) ==
    /\ HandlersMayRun
    /\ \/ IsConnected(c) /\ connections' = [connections EXCEPT ![c].state = "closed"]
       \/ /\ connections[c].state = "validated"
          /\ connections' = [connections EXCEPT ![c].state = "closing"]
    /\ UNCHANGED <<m_ConnectionMap, acceptVars, m_qMessageIn, needDelete,
                   program, walkVars, toErase>>

\* A MessageAll of c has been read.  A connection that has been closed meanwhile
\* reads no other.
Receive(c) ==
    /\ HandlersMayRun
    /\ \/ connections[c].state = "validated" /\ UNCHANGED connections
       \/ /\ connections[c].state = "closing"
          /\ connections' = [connections EXCEPT ![c].state = "closed"]
    /\ Len(m_qMessageIn) < MaxQueued
    /\ m_qMessageIn' = Append(m_qMessageIn, c)
    /\ UNCHANGED <<m_ConnectionMap, acceptVars, needDelete, program, walkVars, toErase>>

\* What had been read was a header: its body is not read any more.
Lapse(c) ==
    /\ HandlersMayRun
    /\ connections[c].state = "closing"
    /\ connections' = [connections EXCEPT ![c].state = "closed"]
    /\ UNCHANGED <<m_ConnectionMap, acceptVars, m_qMessageIn, needDelete,
                   program, walkVars, toErase>>

-----------------------------------------------------------------------------
(* The program's thread.                                                   *)

\* Update() pops a MessageAll; OnMessage, NoticeAll and NoticeAllClient begin.
NoticeAll ==
    /\ program = "idle"
    /\ m_qMessageIn # <<>>
    /\ ignoreclient' = Head(m_qMessageIn)
    /\ m_qMessageIn' = Tail(m_qMessageIn)
    /\ program' = "walking"
    /\ visited' = {}
    /\ told' = {}
    /\ InvaildClient' = FALSE
    /\ raced' = FALSE
    /\ UNCHANGED <<connections, m_ConnectionMap, acceptVars, needDelete, toErase>>

\* The iterator may come to id: to one not yet met, or, once the map has been
\* changed under it (a data race), to any again.
MayVisit(id) ==
    /\ m_ConnectionMap[id] # NoConnection
    /\ id \notin visited \/ raced

\* Mutation of Visit: only the client to be ignored is sent to.
VisitTellsSender(id) ==
    /\ program = "walking"
    /\ MayVisit(id)
    /\ LET c == m_ConnectionMap[id] IN
       IF IsConnected(c)
       THEN /\ told' = IF c = ignoreclient THEN told \cup {c} ELSE told
            /\ UNCHANGED <<needDelete, InvaildClient>>
       ELSE /\ needDelete' = needDelete \cup {connections[c].id}
            /\ InvaildClient' = TRUE
            /\ UNCHANGED told
    /\ visited' = visited \cup {id}
    /\ UNCHANGED <<connections, m_ConnectionMap, acceptVars, m_qMessageIn, program,
                   ignoreclient, raced, toErase>>

\* Mutation of Visit: a connection not validated yet counts as invalid.
VisitWantsValidated(id) ==
    /\ program = "walking"
    /\ MayVisit(id)
    /\ LET c == m_ConnectionMap[id] IN
       IF connections[c].state = "validated"
       THEN /\ told' = IF c = ignoreclient THEN told ELSE told \cup {c}
            /\ UNCHANGED <<needDelete, InvaildClient>>
       ELSE /\ needDelete' = needDelete \cup {connections[c].id}
            /\ InvaildClient' = TRUE
            /\ UNCHANGED told
    /\ visited' = visited \cup {id}
    /\ UNCHANGED <<connections, m_ConnectionMap, acceptVars, m_qMessageIn, program,
                   ignoreclient, raced, toErase>>

\* One turn of NoticeAllClient's loop: Send(), or clientDisconnect().
Visit(id) ==
    /\ program = "walking"
    /\ MayVisit(id)
    /\ LET c == m_ConnectionMap[id] IN
       IF IsConnected(c)
       THEN /\ told' = IF c = ignoreclient THEN told ELSE told \cup {c}
            /\ UNCHANGED <<needDelete, InvaildClient>>
       ELSE /\ needDelete' = needDelete \cup {connections[c].id}
            /\ InvaildClient' = TRUE
            /\ UNCHANGED told
    /\ visited' = visited \cup {id}
    /\ UNCHANGED <<connections, m_ConnectionMap, acceptVars, m_qMessageIn, program,
                   ignoreclient, raced, toErase>>

\* Mutation of WalkEnds: clearConnectDeque() is not called.
WalkEndsUncleared ==
    /\ program = "walking"
    /\ raced \/ \A id \in Ids : m_ConnectionMap[id] # NoConnection => id \in visited
    /\ program' = "idle"
    /\ UNCHANGED <<connections, m_ConnectionMap, acceptVars, m_qMessageIn, needDelete,
                   walkVars, toErase>>

\* The loop ends, early perhaps after a race; clearConnectDeque() if need be.
WalkEnds ==
    /\ program = "walking"
    /\ raced \/ \A id \in Ids : m_ConnectionMap[id] # NoConnection => id \in visited
    /\ IF InvaildClient
       THEN program' = "erasing" /\ toErase' = needDelete
       ELSE program' = "idle" /\ UNCHANGED toErase
    /\ UNCHANGED <<connections, m_ConnectionMap, acceptVars, m_qMessageIn, needDelete, walkVars>>

\* One turn of clearConnectDeque's loop; needDelete keeps the id.  An emplace of
\* the other thread may run into the erase(): the entry can stay.
Erase(id) ==
    /\ program = "erasing"
    /\ id \in toErase
    /\ \/ m_ConnectionMap' = [m_ConnectionMap EXCEPT ![id] = NoConnection]
       \/ accept = "approved" /\ UNCHANGED m_ConnectionMap
    /\ toErase' = toErase \ {id}
    /\ program' = IF toErase' = {} THEN "idle" ELSE "erasing"
    /\ UNCHANGED <<connections, acceptVars, m_qMessageIn, needDelete, walkVars>>

\* NoticeClient(c) of a closed connection: clientDisconnect, clearConnectDeque.
\* (Of an open one it is a Send() and changes nothing here.)
NoticeClient(c) ==
    /\ program = "idle"
    /\ ~IsConnected(c)
    /\ needDelete' = needDelete \cup {connections[c].id}
    /\ program' = "erasing"
    /\ toErase' = needDelete'
    /\ UNCHANGED <<connections, m_ConnectionMap, acceptVars, m_qMessageIn, walkVars>>

\* DisconnectClient(id): the entry goes, the connection lives on.
DisconnectClient(id) ==
    /\ program = "idle"
    /\ m_ConnectionMap[id] # NoConnection
    /\ m_ConnectionMap' = [m_ConnectionMap EXCEPT ![id] = NoConnection]
    /\ UNCHANGED <<connections, acceptVars, m_qMessageIn, needDelete, program,
                   walkVars, toErase>>

-----------------------------------------------------------------------------
AsioThread ==
    \/ IdExists \/ Approve \/ Insert
    \/ \E c \in 1..Len(connections) : Validate(c) \/ Close(c) \/ Receive(c) \/ Lapse(c)

Broadcasting ==
    \/ NoticeAll
    \/ \E id \in Ids : Visit(id) \/ Erase(id)
    \/ WalkEnds

Next ==
    \/ AsioThread
    \/ Broadcasting
    \/ \E c \in 1..Len(connections) : NoticeClient(c)
    \/ \E id \in Ids : DisconnectClient(id)

Spec == Init /\ [][Next]_vars

\* Both threads run: the accept handler is finished, the queue is emptied, and a
\* walk ends (after a race it may go on for long, not for ever).
FairSpec == Spec /\ WF_vars(Insert) /\ WF_vars(Broadcasting) /\ SF_vars(WalkEnds)

-----------------------------------------------------------------------------
(* Properties.                                                             *)

TypeOK ==
    /\ connections \in Seq([id : Ids, state : {"new", "validated", "closing", "closed"}])
    /\ m_ConnectionMap \in [Ids -> 0..Len(connections)]
    /\ m_nIDCounter \in Ids
    /\ accept \in {"armed", "approved", "stopped"}
    /\ m_qMessageIn \in Seq(1..Len(connections))
    /\ needDelete \subseteq Ids
    /\ program \in {"idle", "walking", "erasing"}
    /\ ignoreclient \in 0..Len(connections)
    /\ visited \subseteq Ids
    /\ told \subseteq 1..Len(connections)
    /\ InvaildClient \in BOOLEAN
    /\ raced \in BOOLEAN
    /\ toErase \subseteq Ids

\* The id a connection was told (GetId(), by which clientDisconnect() prunes) is
\* the id it is filed under, although one is given before the map is written,
\* the other by emplace with m_nIDCounter++.
IdsMatch ==
    \A id \in Ids : m_ConnectionMap[id] # NoConnection =>
        connections[m_ConnectionMap[id]].id = id

\* What pruning erases is closed, or has an id that an older connection, closed
\* by now, had before it: needDelete is never emptied, so after a wrap of the
\* counter a live connection can be forgotten, and only then.
ErasedAreClosedOrReuseIds ==
    [][\A id \in Ids :
         Erase(id) /\ m_ConnectionMap[id] # NoConnection =>
             \/ ~IsConnected(m_ConnectionMap[id])
             \/ \E d \in 1..(m_ConnectionMap[id] - 1) :
                   connections[d].id = id /\ ~IsConnected(d)]_vars

\* A server accepts as many clients as there are ids before it may stop to
\* listen; an id still in use then ends it for good, without a word to the caller.
AcceptsWholeIdSpace == accept = "stopped" => Len(connections) > LastId

\* A walk that no accept disturbs calls Send() for every connection of the map
\* that is open when it ends, except the one the message came from.
BroadcastReachesAll ==
    [][WalkEnds /\ ~raced =>
         \A id \in Ids :
             LET c == m_ConnectionMap[id] IN
             c # NoConnection /\ IsConnected(c) => (c \in told <=> c # ignoreclient)]_vars

\* Only broadcasts (and NoticeClient) find closed connections.  While clients
\* keep asking for broadcasts, every closed connection leaves the map.
Listed(c) == c \in 1..Len(connections) /\ \E id \in Ids : m_ConnectionMap[id] = c
ClosedArePruned ==
    []<><<NoticeAll>>_vars =>
        \A c \in 1..MaxConnections :
            (Listed(c) /\ ~IsConnected(c)) ~> ~Listed(c)
=============================================================================
