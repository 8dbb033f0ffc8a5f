------------------------ MODULE ServerRegistryProofs ------------------------
(***************************************************************************)
(* Theorems about ServerRegistry, for any number of ids, connections and   *)
(* queued messages.                                                        *)
(*                                                                         *)
(* The properties are not inductive.  That pruning spares what it should   *)
(* rests on two facts: an id in needDelete was the id of a connection that *)
(* has closed (DeletedClosed), and a listed connection is the newest that  *)
(* was given its id (NewestListed).  That the accept handler does not stop *)
(* early rests on the ids of the first LastId + 1 connections (FirstRound).*)
(***************************************************************************)
EXTENDS ServerRegistry, TLAPS

ConnectionRecords == [id : Ids, state : {"new", "validated", "closing", "closed"}]

\* Between the two halves of the accept handler the newest connection has the
\* next id, and the map has none under it.
HandlerOK ==
    accept = "approved" =>
        /\ Len(connections) > 0
        /\ connections[Len(connections)].id = m_nIDCounter
        /\ m_ConnectionMap[m_nIDCounter] = NoConnection

\* No connection newer than a listed one has its id.
NewestListed ==
    \A id \in Ids : m_ConnectionMap[id] # NoConnection =>
        \A d \in (m_ConnectionMap[id] + 1)..Len(connections) : connections[d].id # id

\* Every id to be deleted was given to a connection that is closed.
DeletedClosed ==
    /\ toErase \subseteq needDelete
    /\ \A id \in needDelete : \E d \in 1..Len(connections) :
          connections[d].id = id /\ ~IsConnected(d)

\* The id of the k-th connection, until the counter has come round.
Nth(k) == IF FirstId + k <= LastId + 1 THEN FirstId + k - 1 ELSE FirstId + k - LastId - 2

\* The ids of the first round, and the counter's place in it.
FirstRound ==
    /\ \A k \in 1..Len(connections) : k <= LastId + 1 => connections[k].id = Nth(k)
    /\ accept # "approved" /\ Len(connections) <= LastId =>
          m_nIDCounter = Nth(Len(connections) + 1)
    /\ accept = "approved" /\ Len(connections) <= LastId + 1 =>
          m_nIDCounter = Nth(Len(connections))

\* What an undisturbed walk has done about the entries it has met.
WalkOK ==
    /\ ignoreclient \notin told
    /\ program = "walking" /\ ~raced =>
          \A id \in visited :
              /\ m_ConnectionMap[id] # NoConnection
              /\ IsConnected(m_ConnectionMap[id]) =>
                    \/ m_ConnectionMap[id] \in told
                    \/ m_ConnectionMap[id] = ignoreclient

IndInv == /\ TypeOK /\ IdsMatch /\ AcceptsWholeIdSpace
          /\ HandlerOK /\ NewestListed /\ DeletedClosed /\ FirstRound /\ WalkOK

USE IdsAssumption, BoundAssumption DEF Ids, NoConnection

LEMMA InitIndInv == Init => IndInv
<1> SUFFICES ASSUME Init PROVE IndInv
  OBVIOUS
<1>1. TypeOK
  <2>1. /\ <<>> \in Seq(ConnectionRecords) /\ Len(<<>>) = 0
        /\ \A S : <<>> \in Seq(S)
    OBVIOUS
  <2>2. connections \in Seq(ConnectionRecords) /\ Len(connections) = 0
    BY <2>1 DEF Init
  <2>3. m_qMessageIn \in Seq(1..Len(connections))
    BY <2>1 DEF Init
  <2>4. /\ m_ConnectionMap \in [Ids -> 0..Len(connections)]
        /\ ignoreclient \in 0..Len(connections)
        /\ m_nIDCounter \in Ids
    BY <2>2 DEF Init
  <2>5. QED
    BY <2>2, <2>3, <2>4 DEF Init, TypeOK, ConnectionRecords
<1>2. IdsMatch /\ AcceptsWholeIdSpace /\ HandlerOK /\ NewestListed
  BY DEF Init, IdsMatch, AcceptsWholeIdSpace, HandlerOK, NewestListed
<1>3. DeletedClosed /\ FirstRound /\ WalkOK
  BY DEF Init, DeletedClosed, FirstRound, WalkOK, Nth
<1>4. QED
  BY <1>1, <1>2, <1>3 DEF IndInv

\* A connection has an id and a state.
LEMMA ConnectionTyped ==
  ASSUME IndInv, NEW c \in 1..Len(connections)
  PROVE  connections[c] \in ConnectionRecords /\ connections[c].id \in Ids
<1>1. connections \in Seq(ConnectionRecords)
  BY DEF IndInv, TypeOK, ConnectionRecords
<1>2. connections[c] \in ConnectionRecords
  BY <1>1
<1>3. QED
  BY <1>2 DEF ConnectionRecords

\* A listed connection is one of those approved, and has the id it is listed under.
LEMMA ListedTyped ==
  ASSUME IndInv, NEW id \in Ids, m_ConnectionMap[id] # NoConnection
  PROVE  /\ m_ConnectionMap[id] \in 1..Len(connections)
         /\ connections[m_ConnectionMap[id]].id = id
<1>1. Len(connections) \in Nat /\ m_ConnectionMap[id] \in 0..Len(connections)
  BY DEF IndInv, TypeOK
<1>2. QED
  BY <1>1 DEF IndInv, IdsMatch

-----------------------------------------------------------------------------
(* The asio thread.                                                        *)

\* Two connections of the first round have different ids.
LEMMA NthInjective ==
  ASSUME NEW j \in 1..(LastId + 1), NEW k \in 1..(LastId + 1), Nth(j) = Nth(k)
  PROVE  j = k
  BY DEF Nth

\* The counter moves on to the next id of the round.
LEMMA NthNext ==
  ASSUME NEW k \in 1..LastId
  PROVE  /\ Nth(k) \in Ids
         /\ NextId(Nth(k)) = Nth(k + 1)
  BY DEF Nth, NextId

LEMMA IdExistsStep ==
  ASSUME IndInv, IdExists PROVE IndInv'
<1> USE DEF IdExists, walkVars
<1>1. AcceptsWholeIdSpace'
  <2>1. SUFFICES ASSUME Len(connections) <= LastId PROVE FALSE
    BY DEF AcceptsWholeIdSpace, IndInv, TypeOK
  <2> DEFINE c == m_ConnectionMap[m_nIDCounter]
  <2>2. Len(connections) \in Nat /\ c \in 1..Len(connections)
    BY DEF IndInv, TypeOK
  <2>3. connections[c].id = m_nIDCounter
    BY DEF IndInv, TypeOK, IdsMatch
  <2>4. m_nIDCounter = Nth(Len(connections) + 1)
    BY <2>1 DEF IndInv, FirstRound
  <2>5. connections[c].id = Nth(c)
    BY <2>1, <2>2 DEF IndInv, FirstRound
  <2>6. c = Len(connections) + 1
    BY <2>1, <2>2, <2>3, <2>4, <2>5, NthInjective
  <2>7. QED
    BY <2>2, <2>6
<1>2. TypeOK' /\ IdsMatch' /\ HandlerOK' /\ NewestListed'
  BY DEF IndInv, TypeOK, IdsMatch, HandlerOK, NewestListed
<1>3. DeletedClosed' /\ FirstRound' /\ WalkOK'
  BY DEF IndInv, DeletedClosed, FirstRound, WalkOK, IsConnected
<1>4. QED
  BY <1>1, <1>2, <1>3 DEF IndInv

LEMMA ApproveStep ==
  ASSUME IndInv, Approve PROVE IndInv'
<1> USE DEF Approve, walkVars
<1> DEFINE n == Len(connections)
           new == [id |-> m_nIDCounter, state |-> "new"]
<1>1. /\ n \in Nat /\ connections \in Seq(ConnectionRecords)
      /\ new \in ConnectionRecords /\ m_nIDCounter \in Ids
  BY DEF IndInv, TypeOK, ConnectionRecords
<1>2. /\ connections' \in Seq(ConnectionRecords)
      /\ Len(connections') = n + 1
      /\ connections'[n + 1] = new
      /\ \A c \in 1..n : connections'[c] = connections[c]
  BY <1>1
<1>3. TypeOK'
  <2>1. \A s \in {m_qMessageIn} : s \in Seq(1..n) => s \in Seq(1..(n + 1))
    BY <1>1
  <2>2. m_qMessageIn' \in Seq(1..(n + 1))
    BY <2>1 DEF IndInv, TypeOK
  <2>3. m_ConnectionMap' \in [Ids -> 0..(n + 1)]
    BY <1>1 DEF IndInv, TypeOK
  <2>4. QED
    BY <1>1, <1>2, <2>2, <2>3 DEF IndInv, TypeOK, ConnectionRecords
<1>4. \A id \in Ids : m_ConnectionMap[id] \in 0..n
  BY DEF IndInv, TypeOK
<1>5. IdsMatch'
  BY <1>1, <1>2, <1>4 DEF IndInv, IdsMatch
<1>6. AcceptsWholeIdSpace'
  BY DEF AcceptsWholeIdSpace
<1>7. HandlerOK'
  BY <1>1, <1>2 DEF HandlerOK
<1>8. NewestListed'
  BY <1>1, <1>2, <1>4 DEF IndInv, NewestListed
<1>9. DeletedClosed'
  BY <1>1, <1>2 DEF IndInv, DeletedClosed, IsConnected
<1>10. FirstRound'
  BY <1>1, <1>2 DEF IndInv, FirstRound
<1>11. WalkOK'
  BY <1>1, <1>2, <1>4 DEF IndInv, TypeOK, WalkOK, IsConnected
<1>12. QED
  BY <1>3, <1>5, <1>6, <1>7, <1>8, <1>9, <1>10, <1>11 DEF IndInv

LEMMA InsertStep ==
  ASSUME IndInv, Insert PROVE IndInv'
<1> USE DEF Insert
<1> DEFINE n == Len(connections)
<1>1. /\ n \in Nat /\ n > 0 /\ connections[n].id = m_nIDCounter
      /\ m_nIDCounter \in Ids
      /\ m_ConnectionMap[m_nIDCounter] = NoConnection
      /\ m_ConnectionMap \in [Ids -> 0..n]
  BY DEF IndInv, TypeOK, HandlerOK
<1>2. TypeOK'
  <2>1. NextId(m_nIDCounter) \in Ids
    BY <1>1 DEF NextId
  <2>2. m_ConnectionMap' \in [Ids -> 0..n]
    BY <1>1
  <2>3. QED
    BY <2>1, <2>2 DEF IndInv, TypeOK
<1>3. \A id \in Ids : \/ m_ConnectionMap'[id] = m_ConnectionMap[id]
                      \/ id = m_nIDCounter /\ m_ConnectionMap'[id] = n
  <2>1. CASE m_ConnectionMap' = [m_ConnectionMap EXCEPT ![m_nIDCounter] = n]
    BY <1>1, <2>1
  <2>2. CASE UNCHANGED m_ConnectionMap
    BY <2>2
  <2>3. QED
    BY <2>1, <2>2
<1>4. IdsMatch'
  BY <1>1, <1>3 DEF IndInv, IdsMatch
<1>5. AcceptsWholeIdSpace' /\ HandlerOK'
  BY DEF AcceptsWholeIdSpace, HandlerOK
<1>6. DeletedClosed'
  BY DEF IndInv, DeletedClosed, IsConnected
<1>7. FirstRound'
  <2>1. ASSUME n <= LastId PROVE NextId(m_nIDCounter) = Nth(n + 1)
    BY SMTT(30), <1>1, <2>1, NthNext DEF IndInv, FirstRound
  <2>2. QED
    BY <1>1, <2>1 DEF IndInv, FirstRound
<1>8. WalkOK'
  BY <1>1, <1>3 DEF IndInv, TypeOK, WalkOK, IsConnected
<1>9. NewestListed'
  <2>1. ASSUME NEW id \in Ids, m_ConnectionMap'[id] # NoConnection,
               NEW d \in (m_ConnectionMap'[id] + 1)..n
        PROVE  connections[d].id # id
    <3>1. m_ConnectionMap'[id] = m_ConnectionMap[id]
      BY <1>1, <1>3, <2>1
    <3>2. QED
      BY <2>1, <3>1 DEF IndInv, NewestListed
  <2>2. UNCHANGED connections
    OBVIOUS
  <2>3. QED
    BY <2>1, <2>2 DEF NewestListed
<1>10. QED
  BY <1>2, <1>4, <1>9, <1>5, <1>6, <1>7, <1>8 DEF IndInv

\* A connection goes on to another state: its id stays, and one whose socket is
\* closed does not open again.
LEMMA StateStep ==
  ASSUME IndInv, NEW c \in 1..Len(connections),
         NEW s \in {"validated", "closing", "closed"},
         connections' = [connections EXCEPT ![c].state = s],
         IsConnected(c) \/ s = "closed", m_qMessageIn' \in Seq(1..Len(connections)),
         UNCHANGED <<m_ConnectionMap, acceptVars, needDelete, program, walkVars, toErase>>
  PROVE  IndInv'
<1> DEFINE n == Len(connections)
<1>1. n \in Nat /\ connections \in Seq(ConnectionRecords)
  BY DEF IndInv, TypeOK, ConnectionRecords
<1>2. connections[c] \in ConnectionRecords
  BY ConnectionTyped
<1>3. [connections[c] EXCEPT !.state = s] \in ConnectionRecords
  BY <1>2 DEF ConnectionRecords
<1>4. /\ connections' \in Seq(ConnectionRecords)
      /\ Len(connections') = n
      /\ \A d \in 1..n : connections'[d].id = connections[d].id
  BY <1>1, <1>2, <1>3, ConnectionTyped DEF ConnectionRecords
<1>5. \A d \in 1..n : ~IsConnected(d) => ~IsConnected(d)'
  BY <1>1, <1>2 DEF IsConnected
<1>6. UNCHANGED <<m_ConnectionMap, m_nIDCounter, accept, needDelete,
                  program, ignoreclient, visited, told, InvaildClient, raced, toErase>>
  BY DEF walkVars, acceptVars
<1>7. TypeOK'
  BY <1>4, <1>6 DEF IndInv, TypeOK, ConnectionRecords
<1>8. \A id \in Ids : m_ConnectionMap[id] # NoConnection => m_ConnectionMap[id] \in 1..n
  BY ListedTyped
<1>9. IdsMatch' /\ AcceptsWholeIdSpace'
  BY <1>1, <1>4, <1>6, <1>8 DEF IndInv, IdsMatch, AcceptsWholeIdSpace
<1>10. HandlerOK'
  BY <1>1, <1>4, <1>6 DEF IndInv, HandlerOK
<1>11. NewestListed'
  <2>1. ASSUME NEW id \in Ids, m_ConnectionMap[id] # NoConnection,
               NEW d \in (m_ConnectionMap[id] + 1)..n
        PROVE  d \in 1..n /\ connections[d].id # id
    BY <1>1, <1>8, <2>1 DEF IndInv, NewestListed
  <2>2. QED
    BY <1>4, <1>6, <2>1 DEF NewestListed
<1>12. DeletedClosed'
  BY <1>4, <1>5, <1>6 DEF IndInv, DeletedClosed
<1>13. FirstRound'
  BY <1>1, <1>4, <1>6 DEF IndInv, FirstRound
<1>14. WalkOK'
  <2>1. \A id \in visited : id \in Ids
    BY DEF IndInv, TypeOK
  <2>2. QED
    BY <1>5, <1>6, <1>8, <2>1 DEF IndInv, WalkOK
<1>15. QED
  BY <1>7, <1>9, <1>10, <1>11, <1>12, <1>13, <1>14 DEF IndInv

\* A message of an open connection is queued.
LEMMA ReceiveStep ==
  ASSUME IndInv, NEW c \in 1..Len(connections), Receive(c), UNCHANGED connections
  PROVE  IndInv'
<1> USE DEF Receive, walkVars, acceptVars
<1>1. TypeOK'
  <2>1. Append(m_qMessageIn, c) \in Seq(1..Len(connections))
    BY DEF IndInv, TypeOK
  <2>2. QED
    BY <2>1 DEF IndInv, TypeOK
<1>2. IdsMatch' /\ AcceptsWholeIdSpace' /\ HandlerOK' /\ NewestListed'
  BY DEF IndInv, IdsMatch, AcceptsWholeIdSpace, HandlerOK, NewestListed
<1>3. DeletedClosed' /\ FirstRound' /\ WalkOK'
  BY DEF IndInv, DeletedClosed, FirstRound, WalkOK, IsConnected
<1>4. QED
  BY <1>1, <1>2, <1>3 DEF IndInv

LEMMA ConnectionStep ==
  ASSUME IndInv, NEW c \in 1..Len(connections),
         Validate(c) \/ Close(c) \/ Receive(c) \/ Lapse(c)
  PROVE  IndInv'
<1>1. /\ m_qMessageIn \in Seq(1..Len(connections))
      /\ Append(m_qMessageIn, c) \in Seq(1..Len(connections))
  BY DEF IndInv, TypeOK
<1>2. CASE Validate(c)
  BY <1>1, <1>2, StateStep DEF Validate, IsConnected
<1>3. CASE Close(c)
  BY <1>1, <1>3, StateStep DEF Close, IsConnected
<1>4. CASE Lapse(c)
  BY <1>1, <1>4, StateStep DEF Lapse
<1>5. CASE Receive(c)
  BY <1>1, <1>5, ReceiveStep, StateStep DEF Receive
<1>6. QED
  BY <1>2, <1>3, <1>4, <1>5

-----------------------------------------------------------------------------
(* The program's thread.                                                   *)

\* A step of the program's thread that leaves connections and map alone disturbs
\* only its own walk.
LEMMA MapKept ==
  ASSUME IndInv, UNCHANGED <<connections, m_ConnectionMap, acceptVars>>
  PROVE  IdsMatch' /\ AcceptsWholeIdSpace' /\ HandlerOK' /\ NewestListed' /\ FirstRound'
  BY DEF IndInv, IdsMatch, AcceptsWholeIdSpace, HandlerOK, NewestListed, FirstRound, acceptVars

\* Taking entries out of the map disturbs nothing but a walk.
LEMMA MapShrinks ==
  ASSUME IndInv, NEW i \in Ids,
         m_ConnectionMap' = [m_ConnectionMap EXCEPT ![i] = NoConnection],
         UNCHANGED <<connections, acceptVars>>
  PROVE  /\ m_ConnectionMap' \in [Ids -> 0..Len(connections)]
         /\ IdsMatch' /\ AcceptsWholeIdSpace' /\ HandlerOK' /\ NewestListed' /\ FirstRound'
<1>1. Len(connections) \in Nat /\ m_ConnectionMap \in [Ids -> 0..Len(connections)]
  BY DEF IndInv, TypeOK
<1>2. m_nIDCounter \in Ids
  BY DEF IndInv, TypeOK
<1>3. \A id \in Ids : m_ConnectionMap'[id] \in {m_ConnectionMap[id], NoConnection}
  BY <1>1
<1>4. QED
  BY <1>1, <1>2, <1>3 DEF IndInv, IdsMatch, AcceptsWholeIdSpace, HandlerOK,
     NewestListed, FirstRound, acceptVars

LEMMA NoticeAllStep ==
  ASSUME IndInv, NoticeAll PROVE IndInv'
<1> USE DEF NoticeAll
<1>1. TypeOK'
  <2>1. m_qMessageIn \in Seq(1..Len(connections)) /\ m_qMessageIn # <<>>
    BY DEF IndInv, TypeOK
  <2>2. /\ Head(m_qMessageIn) \in 1..Len(connections)
        /\ Tail(m_qMessageIn) \in Seq(1..Len(connections))
    BY <2>1
  <2>3. Len(connections) \in Nat /\ Head(m_qMessageIn) \in 0..Len(connections)
    BY SMTT(30), <2>2 DEF IndInv, TypeOK
  <2>4. QED
    BY <2>2, <2>3 DEF IndInv, TypeOK, acceptVars
<1>2. DeletedClosed' /\ WalkOK'
  BY DEF IndInv, DeletedClosed, WalkOK, IsConnected
<1>3. QED
  BY <1>1, <1>2, MapKept DEF IndInv

LEMMA VisitStep ==
  ASSUME IndInv, NEW id \in Ids, Visit(id) PROVE IndInv'
<1> DEFINE c == m_ConnectionMap[id]
<1>1. c \in 1..Len(connections) /\ connections[c].id = id
  BY ListedTyped DEF Visit, MayVisit
<1>2. \/ /\ IsConnected(c)
         /\ told' = IF c = ignoreclient THEN told ELSE told \cup {c}
         /\ UNCHANGED <<needDelete, InvaildClient>>
      \/ /\ ~IsConnected(c)
         /\ needDelete' = needDelete \cup {id}
         /\ InvaildClient' = TRUE
         /\ UNCHANGED told
  BY <1>1 DEF Visit
<1>3. TypeOK'
  BY <1>1, <1>2 DEF Visit, IndInv, TypeOK, acceptVars
<1>4. DeletedClosed'
  BY <1>1, <1>2 DEF Visit, IndInv, DeletedClosed, IsConnected
<1>5. WalkOK'
  BY <1>1, <1>2 DEF Visit, MayVisit, IndInv, TypeOK, WalkOK, IsConnected
<1>6. QED
  BY <1>3, <1>4, <1>5, MapKept DEF Visit, IndInv

LEMMA WalkEndsStep ==
  ASSUME IndInv, WalkEnds PROVE IndInv'
<1> USE DEF WalkEnds, walkVars
<1>1. TypeOK'
  BY DEF IndInv, TypeOK, acceptVars
<1>2. DeletedClosed' /\ WalkOK'
  BY DEF IndInv, DeletedClosed, WalkOK, IsConnected
<1>3. QED
  BY <1>1, <1>2, MapKept DEF IndInv

LEMMA EraseStep ==
  ASSUME IndInv, NEW id \in Ids, Erase(id) PROVE IndInv'
<1>1. DeletedClosed' /\ WalkOK'
  BY DEF Erase, IndInv, DeletedClosed, WalkOK, IsConnected, walkVars
<1>2. /\ m_ConnectionMap' \in [Ids -> 0..Len(connections)]
      /\ IdsMatch' /\ AcceptsWholeIdSpace' /\ HandlerOK' /\ NewestListed' /\ FirstRound'
  BY MapKept, MapShrinks DEF Erase, IndInv, TypeOK
<1>3. TypeOK'
  BY <1>2 DEF Erase, IndInv, TypeOK, acceptVars, walkVars
<1>4. QED
  BY <1>1, <1>2, <1>3 DEF IndInv

LEMMA NoticeClientStep ==
  ASSUME IndInv, NEW c \in 1..Len(connections), NoticeClient(c) PROVE IndInv'
<1> USE DEF NoticeClient, walkVars
<1>1. connections[c].id \in Ids
  BY ConnectionTyped
<1>2. TypeOK'
  BY <1>1 DEF IndInv, TypeOK, acceptVars
<1>3. DeletedClosed' /\ WalkOK'
  BY DEF IndInv, DeletedClosed, WalkOK, IsConnected
<1>4. QED
  BY <1>2, <1>3, MapKept DEF IndInv

LEMMA DisconnectClientStep ==
  ASSUME IndInv, NEW id \in Ids, DisconnectClient(id) PROVE IndInv'
<1> USE DEF DisconnectClient, walkVars
<1>1. DeletedClosed' /\ WalkOK'
  BY DEF IndInv, DeletedClosed, WalkOK, IsConnected
<1>2. /\ m_ConnectionMap' \in [Ids -> 0..Len(connections)]
      /\ IdsMatch' /\ AcceptsWholeIdSpace' /\ HandlerOK' /\ NewestListed' /\ FirstRound'
  BY MapShrinks
<1>3. TypeOK'
  BY <1>2 DEF IndInv, TypeOK, acceptVars
<1>4. QED
  BY <1>1, <1>2, <1>3 DEF IndInv

-----------------------------------------------------------------------------
(* The theorems.                                                           *)

LEMMA NextIndInv == IndInv /\ [Next]_vars => IndInv'
<1> SUFFICES ASSUME IndInv, [Next]_vars PROVE IndInv'
  OBVIOUS
<1>1. CASE UNCHANGED vars
  <2>1. TypeOK' /\ DeletedClosed' /\ WalkOK'
    BY <1>1 DEF IndInv, TypeOK, DeletedClosed, WalkOK, IsConnected, vars, walkVars, acceptVars
  <2>2. QED
    BY <1>1, <2>1, MapKept DEF IndInv, vars
<1>2. CASE AsioThread
  BY <1>2, IdExistsStep, ApproveStep, InsertStep, ConnectionStep DEF AsioThread
<1>3. CASE Broadcasting
  BY <1>3, NoticeAllStep, VisitStep, EraseStep, WalkEndsStep DEF Broadcasting
<1>4. QED
  BY <1>1, <1>2, <1>3, NoticeClientStep, DisconnectClientStep DEF Next

LEMMA IndInvHolds == Spec => []IndInv
  BY InitIndInv, NextIndInv, PTL DEF Spec

\* All that the two threads share stays well typed, for any number of ids.
THEOREM TypeCorrect == Spec => []TypeOK
  BY IndInvHolds, PTL DEF IndInv

\* A connection is always filed under the id it was told.
THEOREM FiledUnderItsId == Spec => []IdsMatch
  BY IndInvHolds, PTL DEF IndInv

\* With LastId = 2^32 - 1: a server accepts 2^32 clients before an id that is
\* still taken can make it stop to listen.
THEOREM ListensForARound == Spec => []AcceptsWholeIdSpace
  BY IndInvHolds, PTL DEF IndInv

\* Pruning forgets a live connection only if a closed one had its id before.
THEOREM PruningSparesFirstUsers == Spec => ErasedAreClosedOrReuseIds
<1>1. ASSUME IndInv, NEW id \in Ids, Erase(id), m_ConnectionMap[id] # NoConnection
      PROVE  \/ ~IsConnected(m_ConnectionMap[id])
             \/ \E d \in 1..(m_ConnectionMap[id] - 1) :
                   connections[d].id = id /\ ~IsConnected(d)
  <2> DEFINE c == m_ConnectionMap[id]
  <2>1. Len(connections) \in Nat /\ c \in 1..Len(connections)
    BY <1>1 DEF IndInv, TypeOK
  <2>2. PICK d \in 1..Len(connections) : connections[d].id = id /\ ~IsConnected(d)
    BY <1>1 DEF IndInv, DeletedClosed, Erase
  <2>3. d \notin (c + 1)..Len(connections)
    BY <1>1, <2>2 DEF IndInv, NewestListed
  <2>4. d = c \/ d \in 1..(c - 1)
    BY <2>1, <2>3
  <2>5. QED
    BY <2>2, <2>4
<1>2. IndInv => [\A id \in Ids :
         Erase(id) /\ m_ConnectionMap[id] # NoConnection =>
             \/ ~IsConnected(m_ConnectionMap[id])
             \/ \E d \in 1..(m_ConnectionMap[id] - 1) :
                   connections[d].id = id /\ ~IsConnected(d)]_vars
  BY <1>1
<1>3. QED
  BY <1>2, IndInvHolds, PTL DEF ErasedAreClosedOrReuseIds

\* A broadcast that no accept disturbs reaches every open connection but its own.
THEOREM BroadcastComplete == Spec => BroadcastReachesAll
<1>1. ASSUME IndInv, WalkEnds, ~raced, NEW id \in Ids,
             m_ConnectionMap[id] # NoConnection, IsConnected(m_ConnectionMap[id])
      PROVE  m_ConnectionMap[id] \in told <=> m_ConnectionMap[id] # ignoreclient
  <2>1. id \in visited /\ program = "walking"
    BY <1>1 DEF WalkEnds
  <2>2. QED
    BY <1>1, <2>1 DEF IndInv, WalkOK
<1>2. IndInv => [WalkEnds /\ ~raced =>
         \A id \in Ids :
             LET c == m_ConnectionMap[id] IN
             c # NoConnection /\ IsConnected(c) => (c \in told <=> c # ignoreclient)]_vars
  BY <1>1
<1>3. QED
  BY <1>2, IndInvHolds, PTL DEF BroadcastReachesAll
=============================================================================
