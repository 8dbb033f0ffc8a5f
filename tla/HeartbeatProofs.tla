-------------------------- MODULE HeartbeatProofs --------------------------
(***************************************************************************)
(* Theorems about Heartbeat, for queues and wires of any size: its types,  *)
(* that the beat is handed on from operation to operation, and that the    *)
(* client is greeted before it hears an echo.                              *)
(*                                                                         *)
(* ChainUnbroken needs to know that no beat exists before the program      *)
(* starts one (StartOK).  StartComesFirst needs the way of the greeting:   *)
(* until it is delivered it is the first of what the server has written or *)
(* posted, or one end has left and it can never arrive (GreetingOK).       *)
(***************************************************************************)
EXTENDS Heartbeat, TLAPS

USE DEF Ends

-----------------------------------------------------------------------------
(* The inductive invariant.                                                *)

\* The server has nothing to do before it has accepted.
NotAccepted == toClient = <<>> /\ srvTasks = <<>> /\ srvQueue = <<>>

\* Before startHeartBeat() there is no beat; a read needs a socket.
StartOK ==
    /\ connect = "no" => sock["client"] = "none" /\ chain = {} /\ "client" \notin closing
    /\ prog = "start" => connect = "no"
    /\ prog = "startHeartBeat" => chain = {}
    /\ Over => sock["client"] \in {"none", "closed", "gone"}
    /\ Left("client") => "client" \notin reading /\ (connect \notin {"pending", "ok"} \/ Over)
    /\ sock["server"] = "none" => "server" \notin reading /\ NotAccepted

\* The next frame for the client is the greeting.
GreetingIsNext ==
    \/ toClient # <<>> /\ Head(toClient) = "HeartBeatStart"
    \/ toClient = <<>> /\ srvTasks # <<>> /\ Head(srvTasks) = "HeartBeatStart"

QueueGone == prog \in {"queueGone", "gone", "crashed"}

GreetingLost == Left("client") \/ (Left("server") /\ toClient = <<>>) \/ QueueGone

GreetingOK == greeting = "heard" \/ GreetingIsNext \/ sock["server"] = "none" \/ GreetingLost

IndInv == TypeOK /\ StartOK /\ ChainUnbroken /\ GreetingOK /\ StartComesFirst

LEMMA InitIndInv == Init => IndInv
<1> SUFFICES ASSUME Init PROVE IndInv
  OBVIOUS
<1>1. TypeOK
  BY DEF Init, TypeOK, Progs
<1>2. StartOK /\ ChainUnbroken /\ GreetingOK /\ StartComesFirst
  BY DEF Init, StartOK, Over, Left, ChainUnbroken, GreetingOK, NotAccepted, StartComesFirst
<1>3. QED
  BY <1>1, <1>2 DEF IndInv

-----------------------------------------------------------------------------
(* Types.                                                                  *)

LEMMA MessagesOK == /\ Frames \subseteq Messages
                    /\ "ServerAccept" \in Messages
                    /\ "HeartBeat" \in Frames /\ "HeartBeatStart" \in Frames
BY DEF Messages, Frames

LEMMA AppendType ==
  ASSUME NEW S, NEW s \in Seq(S), NEW x \in S
  PROVE  Append(s, x) \in Seq(S)
OBVIOUS

LEMMA TypeStep == TypeOK /\ [Next]_vars => TypeOK'
<1> SUFFICES ASSUME TypeOK, [Next]_vars PROVE TypeOK'
  OBVIOUS
<1> USE DEF TypeOK, Progs, progVars, srvVars, linkVars, chainVars
<1>1. CASE Connect
  BY <1>1 DEF Connect
<1>2. CASE MainAccepts
  BY <1>2, MessagesOK DEF MainAccepts
<1>3. CASE MainCloses
  BY <1>3 DEF MainCloses
<1>4. CASE PopHeartbeat
  BY <1>4 DEF PopHeartbeat
<1>5. CASE ConnectHeartbeatToServer
  BY <1>5 DEF ConnectHeartbeatToServer
<1>6. CASE StartHeartBeat
  BY <1>6 DEF StartHeartBeat, SendHeartbeatHeader, Begin, ChainOps
<1>7. CASE Leave
  BY <1>7 DEF Leave
<1>8. CASE DestroyQueue
  BY <1>8 DEF DestroyQueue
<1>9. CASE DestroyHeartbeat
  BY <1>9 DEF DestroyHeartbeat, ClientEnds
<1>10. CASE DeliverToNobody
  <2>1. toClient' \in Seq(Frames)
    BY <1>10 DEF DeliverToNobody
  <2>2. CASE ClientEnds("crashed")
    BY <1>10, <2>1, <2>2 DEF DeliverToNobody, ClientEnds
  <2>3. CASE UNCHANGED <<prog, sock, closing, reading, timer, chainVars>>
    BY <1>10, <2>1, <2>3 DEF DeliverToNobody
  <2>4. QED
    BY <1>10, <2>2, <2>3 DEF DeliverToNobody
<1>11. CASE Resolve
  BY <1>11 DEF Resolve
<1>12. CASE ConnectDone
  BY <1>12 DEF ConnectDone
<1>13. CASE Expire
  BY <1>13 DEF Expire
<1>14. CASE ConnectTimeOut
  BY <1>14 DEF ConnectTimeOut, Disconnect
<1>15. CASE Accept
  BY <1>15, MessagesOK DEF Accept, ConnectHeartbeatToClient, HeartBeatStart
<1>16. ASSUME NEW e \in Ends, ReadFails(e) PROVE TypeOK'
  BY <1>16 DEF ReadFails, Disconnect
<1>17. ASSUME NEW e \in Ends, RunClose(e) PROVE TypeOK'
  <2>1. chain' \subseteq ChainOps
    <3>1. \A o \in chain : [o EXCEPT !.ec = "failed"] \in ChainOps
      BY DEF ChainOps
    <3>2. QED
      BY <1>17, <3>1 DEF RunClose
  <2>2. connect' \in {"no", "pending", "ok", "failed", "done", "threw"}
    BY <1>17 DEF RunClose
  <2>3. QED
    BY <1>17, <2>1, <2>2 DEF RunClose
<1>18. CASE WriteDone
  <2>1. chain' \subseteq ChainOps
    BY <1>18 DEF WriteDone, ChainOps
  <2>2. toServer' \in Seq(Frames)
    BY <1>18, MessagesOK DEF WriteDone
  <2>3. QED
    BY <1>18, <2>1, <2>2 DEF WriteDone
<1>19. CASE WriteFails
  <2>1. chain' \subseteq ChainOps
    BY <1>19 DEF WriteFails, ChainOps
  <2>2. QED
    BY <1>19, <2>1 DEF WriteFails
<1>20. CASE WriteError
  BY <1>20 DEF WriteError, Disconnect
<1>21. CASE HeaderWritten
  BY <1>21 DEF HeaderWritten, Begin, ChainOps
<1>22. CASE BodyWritten
  BY <1>22 DEF BodyWritten, ChainOps
<1>23. CASE TimerFires
  BY <1>23 DEF TimerFires, SendHeartbeatHeader, Begin, ChainOps
<1>24. CASE DeliverToClient
  <2>1. Head(toClient) \in Messages /\ Tail(toClient) \in Seq(Frames)
    BY <1>24, MessagesOK DEF DeliverToClient
  <2>2. QED
    BY <1>24, <2>1 DEF DeliverToClient
<1>25. CASE DeliverToServer
  BY <1>25 DEF DeliverToServer
<1>26. CASE EchoHeartBeat
  BY <1>26 DEF EchoHeartBeat, PostEcho
<1>27. CASE RunSend
  <2>1. Head(srvTasks) \in Frames /\ srvTasks' \in Seq(Frames)
    BY <1>27 DEF RunSend
  <2>2. toClient' \in Seq(Frames)
    <3>1. toClient' = Append(toClient, Head(srvTasks)) \/ toClient' = toClient
      BY <1>27 DEF RunSend
    <3>2. toClient \in Seq(Frames)
      OBVIOUS
    <3>3. Append(toClient, Head(srvTasks)) \in Seq(Frames)
      BY ONLY <2>1, <3>2, AppendType
    <3>4. QED
      BY ONLY <3>1, <3>2, <3>3
  <2>3. closing' \subseteq Ends
    BY <1>27 DEF RunSend, Disconnect
  <2>4. QED
    BY <1>27, <2>1, <2>2, <2>3 DEF RunSend
<1>28. CASE Stop
  BY <1>28 DEF Stop
<1>29. CASE ServerDies
  BY <1>29 DEF ServerDies
<1>30. CASE UNCHANGED vars
  BY <1>30 DEF vars
<1>31. QED
  BY <1>1, <1>2, <1>3, <1>4, <1>5, <1>6, <1>7, <1>8, <1>9, <1>10, <1>11, <1>12, <1>13,
     <1>14, <1>15, <1>16, <1>17, <1>18, <1>19, <1>20, <1>21, <1>22, <1>23, <1>24, <1>25,
     <1>26, <1>27, <1>28, <1>29, <1>30
     DEF Next, Program, ServerDown, ChainHandlers

-----------------------------------------------------------------------------
(* The chain.                                                              *)

LEMMA ChainStep ==
  TypeOK /\ StartOK /\ ChainUnbroken /\ [Next]_vars => StartOK' /\ ChainUnbroken'
<1> SUFFICES ASSUME TypeOK, StartOK, ChainUnbroken, [Next]_vars
             PROVE  StartOK' /\ ChainUnbroken'
  OBVIOUS
<1> USE DEF TypeOK, StartOK, NotAccepted, ChainUnbroken, Over, Left, progVars, srvVars, linkVars, chainVars
<1>1. CASE Connect \/ MainAccepts \/ MainCloses
  BY <1>1 DEF Connect, MainAccepts, MainCloses
<1>2. CASE PopHeartbeat \/ ConnectHeartbeatToServer
  BY <1>2 DEF PopHeartbeat, ConnectHeartbeatToServer
<1>3. CASE StartHeartBeat
  BY <1>3 DEF StartHeartBeat, SendHeartbeatHeader
<1>4. CASE Leave \/ DestroyQueue
  BY <1>4 DEF Leave, DestroyQueue
<1>5. CASE DestroyHeartbeat
  BY <1>5 DEF DestroyHeartbeat, ClientEnds
<1>6. CASE DeliverToNobody
  BY <1>6 DEF DeliverToNobody, ClientEnds
<1>7. CASE Resolve \/ ConnectDone \/ Expire
  <2>1. CASE Resolve
    BY <2>1 DEF Resolve
  <2>2. CASE ConnectDone
    BY <2>2 DEF ConnectDone
  <2>3. CASE Expire
    BY <2>3 DEF Expire
  <2>4. QED
    BY <1>7, <2>1, <2>2, <2>3
<1>8. CASE ConnectTimeOut
  BY <1>8 DEF ConnectTimeOut, Disconnect
<1>9. CASE Accept
  BY <1>9 DEF Accept, ConnectHeartbeatToClient, HeartBeatStart, Linked
<1>10. ASSUME NEW e \in Ends, ReadFails(e) PROVE StartOK' /\ ChainUnbroken'
  BY <1>10 DEF ReadFails, Disconnect
<1>11. CASE RunClose("client")
  <2>1. sock' = [sock EXCEPT !["client"] = "closed"] /\ reading' = reading \ {"client"}
    BY <1>11 DEF RunClose
  <2>2. /\ connect # "no" /\ connect' # "no"
        /\ connect' \notin {"pending", "ok"}
        /\ prog' = prog
    BY <1>11 DEF RunClose
  <2>3. \A a, b \in chain' : a = b
    <3> DEFINE Aborted(o) == IF o.op # "wait" /\ o.ec = "pending"
                             THEN [o EXCEPT !.ec = "failed"] ELSE o
    <3>1. chain' = {Aborted(o) : o \in chain}
      BY <1>11 DEF RunClose
    <3> HIDE DEF Aborted
    <3>2. QED
      BY <3>1
  <2>4. chain = {} => chain' = {}
    BY <1>11 DEF RunClose
  <2>5. UNCHANGED <<toClient, srvTasks, srvQueue>>
    BY <1>11 DEF RunClose
  <2>6. StartOK'
    BY <2>1, <2>2, <2>4, <2>5
  <2>7. QED
    BY <2>1, <2>3, <2>6
<1>12. CASE RunClose("server")
  BY <1>12 DEF RunClose
<1>13. CASE WriteDone \/ WriteFails
  BY ZenonT(40), <1>13 DEF WriteDone, WriteFails
<1>14. CASE WriteError
  BY <1>14 DEF WriteError, Disconnect
<1>15. CASE HeaderWritten \/ BodyWritten
  BY <1>15 DEF HeaderWritten, BodyWritten
<1>16. CASE TimerFires
  BY ZenonT(40), <1>16 DEF TimerFires, SendHeartbeatHeader
<1>17. CASE DeliverToClient \/ DeliverToServer \/ EchoHeartBeat
  BY <1>17 DEF DeliverToClient, DeliverToServer, EchoHeartBeat
<1>18. CASE RunSend
  BY <1>18 DEF RunSend, Disconnect
<1>19. CASE Stop \/ ServerDies
  BY <1>19 DEF Stop, ServerDies
<1>20. CASE UNCHANGED vars
  BY <1>20 DEF vars
<1>21. QED
  BY <1>1, <1>2, <1>3, <1>4, <1>5, <1>6, <1>7, <1>8, <1>9, <1>10, <1>11, <1>12, <1>13,
     <1>14, <1>15, <1>16, <1>17, <1>18, <1>19, <1>20
     DEF Next, Program, ServerDown, ChainHandlers

-----------------------------------------------------------------------------
(* The greeting.                                                           *)

\* Who has left stays away.
LEMMA LeftForGood ==
  ASSUME TypeOK, StartOK, [Next]_vars, NEW e \in Ends, Left(e)
  PROVE  Left(e)'
<1> USE DEF TypeOK, StartOK, Left, progVars, srvVars, linkVars, chainVars
<1>1. CASE UNCHANGED sock
  BY <1>1
<1>2. CASE ConnectHeartbeatToServer
  BY <1>2 DEF ConnectHeartbeatToServer
<1>3. CASE DestroyHeartbeat \/ DeliverToNobody
  BY <1>3 DEF DestroyHeartbeat, DeliverToNobody, ClientEnds
<1>4. CASE Accept
  BY <1>4 DEF Accept, ConnectHeartbeatToClient, HeartBeatStart
<1>5. ASSUME NEW d \in Ends, RunClose(d) PROVE Left(e)'
  BY <1>5 DEF RunClose
<1>6. CASE ServerDies
  BY <1>6 DEF ServerDies
<1>7. QED
  <2>1. CASE Connect \/ MainAccepts \/ MainCloses \/ PopHeartbeat \/ StartHeartBeat
             \/ Leave \/ DestroyQueue \/ Resolve \/ ConnectDone \/ Expire \/ ConnectTimeOut
    BY <2>1, <1>1 DEF Connect, MainAccepts, MainCloses, PopHeartbeat, StartHeartBeat, Leave,
       DestroyQueue, Resolve, ConnectDone, Expire, ConnectTimeOut
  <2>2. CASE (\E d \in Ends : ReadFails(d)) \/ WriteDone \/ WriteFails \/ ChainHandlers
             \/ DeliverToClient \/ DeliverToServer \/ EchoHeartBeat \/ RunSend \/ Stop
    BY <2>2, <1>1 DEF ReadFails, WriteDone, WriteFails, ChainHandlers, WriteError,
       HeaderWritten, BodyWritten, TimerFires, DeliverToClient, DeliverToServer,
       EchoHeartBeat, RunSend, Stop
  <2>3. CASE UNCHANGED vars
    BY <2>3, <1>1 DEF vars
  <2>4. QED
    BY <1>2, <1>3, <1>4, <1>5, <1>6, <2>1, <2>2, <2>3 DEF Next, Program, ServerDown

\* So does the queue of a program that is leaving.
LEMMA GoneForGood == ASSUME [Next]_vars, QueueGone PROVE QueueGone'
<1> USE DEF QueueGone, progVars
<1>1. CASE UNCHANGED prog
  BY <1>1
<1>2. CASE Connect \/ PopHeartbeat \/ ConnectHeartbeatToServer \/ StartHeartBeat \/ Leave
           \/ DestroyQueue \/ DeliverToClient
  BY <1>2 DEF Connect, PopHeartbeat, ConnectHeartbeatToServer, StartHeartBeat, Leave,
     DestroyQueue, DeliverToClient
<1>3. CASE DestroyHeartbeat \/ DeliverToNobody
  BY <1>3 DEF DestroyHeartbeat, DeliverToNobody, ClientEnds
<1>4. CASE MainAccepts \/ MainCloses \/ Resolve \/ ConnectDone \/ Expire \/ ConnectTimeOut
           \/ Accept
  BY <1>4, <1>1 DEF MainAccepts, MainCloses, Resolve, ConnectDone, Expire, ConnectTimeOut,
     Accept
<1>5. CASE (\E d \in Ends : ReadFails(d) \/ RunClose(d)) \/ WriteDone \/ WriteFails
           \/ ChainHandlers \/ DeliverToServer \/ EchoHeartBeat \/ RunSend \/ Stop \/ ServerDies
  BY <1>5, <1>1 DEF ReadFails, RunClose, WriteDone, WriteFails, ChainHandlers, WriteError,
     HeaderWritten, BodyWritten, TimerFires, DeliverToServer, EchoHeartBeat, RunSend, Stop,
     ServerDies
<1>6. CASE UNCHANGED vars
  BY <1>6, <1>1 DEF vars
<1>7. QED
  BY <1>2, <1>3, <1>4, <1>5, <1>6 DEF Next, Program, ServerDown

\* What Append and Tail do to the first element and to the rest.
LEMMA AppendFacts ==
  ASSUME NEW S, NEW s \in Seq(S), NEW x \in S
  PROVE  /\ Append(s, x) # <<>>
         /\ Head(Append(s, x)) = IF s = <<>> THEN x ELSE Head(s)
         /\ \A i \in DOMAIN Append(s, x) :
               \/ Append(s, x)[i] = x
               \/ i \in DOMAIN s /\ Append(s, x)[i] = s[i]
<1>1. /\ Append(s, x) \in Seq(S) /\ Len(Append(s, x)) = Len(s) + 1
      /\ \A i \in 1..Len(s) : Append(s, x)[i] = s[i]
      /\ Append(s, x)[Len(s) + 1] = x
  OBVIOUS
<1>2. s = <<>> \/ Head(Append(s, x)) = Head(s)
  BY <1>1
<1>3. s = <<>> => Head(Append(s, x)) = x
  BY <1>1
<1>4. QED
  BY SMTT(30), <1>1, <1>2, <1>3

LEMMA TailFacts ==
  ASSUME NEW S, NEW s \in Seq(S), s # <<>>
  PROVE  /\ Head(s) \in S
         /\ \A i \in DOMAIN Tail(s) : i + 1 \in DOMAIN s /\ Tail(s)[i] = s[i + 1]
OBVIOUS

\* The steps that neither move a frame nor change a socket.
LEMMA GreetingStutters ==
  ASSUME GreetingOK, StartComesFirst, UNCHANGED <<sock, toClient, srvTasks, srvQueue, greeting>>,
         inbox' = inbox, QueueGone => QueueGone'
  PROVE  GreetingOK' /\ StartComesFirst'
BY DEF GreetingOK, GreetingIsNext, NotAccepted, GreetingLost, Left, StartComesFirst

LEMMA GreetingStep ==
  TypeOK /\ StartOK /\ GreetingOK /\ StartComesFirst /\ [Next]_vars
    => GreetingOK' /\ StartComesFirst'
<1> SUFFICES ASSUME TypeOK, StartOK, GreetingOK, StartComesFirst, [Next]_vars
             PROVE  GreetingOK' /\ StartComesFirst'
  OBVIOUS
<1> USE DEF GreetingOK, GreetingIsNext, NotAccepted, GreetingLost, StartComesFirst
<1> DEFINE Away(e) == Left(e) => Left(e)'
<1>a. Away("client") /\ Away("server")
  BY LeftForGood
<1>f. QueueGone => QueueGone'
  BY GoneForGood
<1>b. /\ toClient \in Seq(Frames) /\ srvTasks \in Seq(Frames)
      /\ inbox \in Seq(Messages) /\ srvQueue \in Seq(Frames)
  BY DEF TypeOK
<1>c. sock["server"] = "none" => "server" \notin reading /\ NotAccepted
  BY DEF StartOK
<1>d. Left("client") => "client" \notin reading
  BY DEF StartOK
<1>e. sock["server"] \in {"none", "open", "closed", "gone"}
  BY DEF TypeOK
<1>1. CASE Connect \/ MainCloses \/ StartHeartBeat \/ Leave \/ Resolve
           \/ ConnectDone \/ Expire \/ ConnectTimeOut
  BY <1>1, <1>f, GreetingStutters DEF Connect, MainCloses, StartHeartBeat, Leave,
     Resolve, ConnectDone, Expire, ConnectTimeOut, progVars, srvVars
<1>2. CASE (\E d \in Ends : ReadFails(d)) \/ WriteDone \/ WriteFails \/ ChainHandlers \/ Stop
  BY <1>2, <1>f, GreetingStutters DEF ReadFails, WriteDone, WriteFails, ChainHandlers, WriteError,
     HeaderWritten, BodyWritten, TimerFires, Stop, progVars, srvVars
<1>3. CASE UNCHANGED vars
  BY <1>3, <1>f, GreetingStutters DEF vars, progVars, srvVars
<1>4. CASE MainAccepts
  <2>1. StartComesFirst'
    BY <1>4, <1>b, MessagesOK, AppendFacts DEF MainAccepts
  <2>2. GreetingOK'
    BY <1>4, <1>f DEF MainAccepts, srvVars, Left
  <2>3. QED
    BY <2>1, <2>2
<1>5. CASE PopHeartbeat \/ ConnectHeartbeatToServer
  <2>1. inbox # <<>> /\ inbox' = Tail(inbox) /\ greeting' = greeting
    BY <1>5 DEF PopHeartbeat, ConnectHeartbeatToServer
  <2>2. StartComesFirst'
    BY <2>1, <1>b, TailFacts
  <2>3. UNCHANGED <<toClient, srvTasks, srvQueue>> /\ sock'["server"] = sock["server"]
    BY <1>5 DEF PopHeartbeat, ConnectHeartbeatToServer, srvVars, TypeOK
  <2>4. GreetingOK'
    BY <2>1, <2>3, <1>a, <1>f DEF Left
  <2>5. QED
    BY <2>2, <2>4
<1>6. CASE DestroyQueue
  BY <1>6, <1>f DEF DestroyQueue, srvVars, Left
<1>7. CASE DestroyHeartbeat
  BY <1>7, <1>a, <1>f DEF DestroyHeartbeat, ClientEnds, srvVars, Left, TypeOK
<1>8. CASE DeliverToNobody
  <2>1. inbox' = inbox /\ greeting' = greeting /\ QueueGone
    BY <1>8 DEF DeliverToNobody, QueueGone
  <2>2. QED
    BY <2>1, <1>f
<1>9. CASE Accept
  <2>1. sock["server"] = "none" /\ srvTasks' = Append(srvTasks, "HeartBeatStart")
    BY <1>9 DEF Accept, ConnectHeartbeatToClient, HeartBeatStart
  <2>2. srvTasks' # <<>> /\ Head(srvTasks') = "HeartBeatStart"
    BY <2>1, <1>b, <1>c, AppendFacts, MessagesOK
  <2>3. QED
    BY <1>9, <2>1, <2>2, <1>c, <1>f DEF Accept, ConnectHeartbeatToClient, HeartBeatStart, progVars
<1>10. ASSUME NEW e \in Ends, RunClose(e) PROVE GreetingOK' /\ StartComesFirst'
  <2>1. UNCHANGED <<toClient, srvTasks, srvQueue, inbox, greeting>>
    BY <1>10 DEF RunClose, progVars, srvVars
  <2>2. sock["server"] = "none" => sock'["server"] = "none" \/ (Left("server")' /\ toClient = <<>>)
    BY <1>10, <1>c DEF RunClose, Left, TypeOK
  <2>3. QED
    BY <2>1, <2>2, <1>a, <1>f
<1>11. CASE DeliverToClient
  BY <1>11, <1>b, <1>c, <1>d, <1>f DEF DeliverToClient, QueueGone, srvVars, Left
<1>12. CASE DeliverToServer
  BY <1>12, <1>c, <1>f DEF DeliverToServer, progVars, Left
<1>13. CASE EchoHeartBeat
  <2>1. /\ Head(srvQueue) \in Frames /\ sock["server"] # "none"
        /\ srvTasks' = Append(srvTasks, Head(srvQueue))
        /\ UNCHANGED <<sock, toClient, inbox, greeting>>
    BY <1>13, <1>b, <1>c, TailFacts DEF EchoHeartBeat, PostEcho, progVars
  <2>2. srvTasks' # <<>> /\ (srvTasks # <<>> => Head(srvTasks') = Head(srvTasks))
    BY <2>1, <1>b, AppendFacts
  <2>3. QED
    BY <2>1, <2>2, <1>f DEF Left
<1>14. CASE RunSend
  <2>1. /\ srvTasks # <<>> /\ sock["server"] # "none" /\ Head(srvTasks) \in Frames
        /\ UNCHANGED <<sock, inbox, greeting>>
    BY <1>14, <1>b, <1>c, TailFacts DEF RunSend, progVars
  <2>2. CASE sock["server"] = "open" /\ toClient' = Append(toClient, Head(srvTasks))
    <3>1. /\ toClient' # <<>>
          /\ Head(toClient') = IF toClient = <<>> THEN Head(srvTasks) ELSE Head(toClient)
      BY <2>1, <2>2, <1>b, AppendFacts
    <3>2. QED
      BY <2>1, <2>2, <3>1, <1>f DEF Left
  <2>3. CASE UNCHANGED toClient /\ (sock["server"] # "open" \/ Left("client"))
    BY <2>1, <2>3, <1>e, <1>f DEF Left
  <2>4. QED
    BY <1>14, <2>2, <2>3 DEF RunSend
<1>15. CASE ServerDies
  <2>1. Left("server")' /\ UNCHANGED <<toClient, inbox, greeting>>
    BY <1>15 DEF ServerDies, progVars, Left, TypeOK
  <2>2. QED
    BY <2>1, <1>a, <1>c, <1>f
<1>16. QED
  BY <1>1, <1>2, <1>3, <1>4, <1>5, <1>6, <1>7, <1>8, <1>9, <1>10, <1>11, <1>12, <1>13, <1>14,
     <1>15
     DEF Next, Program, ServerDown

-----------------------------------------------------------------------------
LEMMA NextIndInv == IndInv /\ [Next]_vars => IndInv'
BY TypeStep, ChainStep, GreetingStep DEF IndInv

LEMMA IndInvHolds == Spec => []IndInv
BY InitIndInv, NextIndInv, PTL DEF Spec

\* The state of the heartbeat's two processes stays well typed.
THEOREM TypeCorrect == Spec => []TypeOK
<1>1. IndInv => TypeOK
  BY DEF IndInv
<1>2. QED
  BY <1>1, IndInvHolds, PTL

\* There is one beat while the heartbeat's socket is open, through every error.
THEOREM BeatHandedOn == Spec => []ChainUnbroken
<1>1. IndInv => ChainUnbroken
  BY DEF IndInv
<1>2. QED
  BY <1>1, IndInvHolds, PTL

\* No echo overtakes the greeting, however many frames are on the way.
THEOREM GreetedFirst == Spec => []StartComesFirst
<1>1. IndInv => StartComesFirst
  BY DEF IndInv
<1>2. QED
  BY <1>1, IndInvHolds, PTL
=============================================================================
