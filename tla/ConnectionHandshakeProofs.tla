---------------------- MODULE ConnectionHandshakeProofs ----------------------
(***************************************************************************)
(* Theorems about how a Connection gets going, on top of the invariant of  *)
(* ConnectionProofs: no open connection is deaf, the handshake number is   *)
(* the first thing on the wire, the server hears nobody it has not         *)
(* validated, and it refuses no client that waits for ServerAccept.        *)
(*                                                                         *)
(* None of them is inductive.                                              *)
(* - NeverDeaf says who acts next but not that he can: DeafInv adds that a *)
(*   client which connects has an open socket and a timer or a close.      *)
(* - What the server takes for the answer is the first two words of the    *)
(*   client's stream, whatever they are.  HandshakeInv says why: the       *)
(*   server's number is ahead of all its writes until it is on the wire,   *)
(*   so the client's read of the number gets it, every answer is 0, and    *)
(*   the server's read of the answer has taken nothing before.             *)
(* - PatientInv: a client that waits for ServerAccept has written nothing, *)
(*   sent nothing and heard nothing until its answer is on the wire.       *)
(***************************************************************************)
EXTENDS ConnectionProofs

-----------------------------------------------------------------------------
(* What each handler does to its own queue, in a form the proofs can use.   *)

LEMMA AppendToNone ==
  ASSUME NEW x PROVE Append(<<>>, x) = <<x>>
OBVIOUS

\* The queue of reads that a handler or the kernel finds: one read.
LEMMA ReadHandled ==
  ASSUME IndInv, NEW e \in Ends, reads[e] # <<>>
  PROVE  /\ reads[e] = <<reads[e][1]>> /\ Head(reads[e]) = reads[e][1]
         /\ \A x : Append(Tail(reads[e]), x) = <<x>>
         /\ reads[e][1] \in ReadOps /\ WellRead(reads[e][1])
         /\ \A i \in DOMAIN reads[e] : i = 1
<1>1. reads[e] \in ReadQueues
  BY DEF IndInv, ReadsOK
<1>2. PICK r \in ReadOps : WellRead(r) /\ reads[e] = <<r>>
  BY <1>1 DEF ReadQueues
<1>3. reads[e][1] = r /\ Head(reads[e]) = r /\ Tail(reads[e]) = <<>>
  BY <1>2
<1>4. \A i \in DOMAIN reads[e] : i = 1
  BY <1>2
<1>5. QED
  BY <1>2, <1>3, <1>4, AppendToNone

LEMMA ArriveEffect ==
  ASSUME IndInv, NEW e \in Ends, Arrive(e)
  PROVE  LET r == reads[e][1]
             last == taken[e] + r.len
             data == SubSeq(stream[Peer(e)], taken[e] + 1, last) IN
         /\ reads[e] = <<r>> /\ r \in ReadOps /\ WellRead(r) /\ r.ec = "pending"
         /\ last <= Len(stream[Peer(e)])
         /\ taken' = [taken EXCEPT ![e] = last]
         /\ reads' = [reads EXCEPT ![e] = <<[r EXCEPT !.ec = "ok", !.data = data]>>]
<1> DEFINE r == reads[e][1]
           last(i) == taken[e] + reads[e][i].len
           data(i) == SubSeq(stream[Peer(e)], taken[e] + 1, last(i))
<1>1. PICK i \in DOMAIN reads[e] :
        /\ IsFirstPending(reads[e], i)
        /\ last(i) <= Len(stream[Peer(e)])
        /\ taken' = [taken EXCEPT ![e] = last(i)]
        /\ reads' = [reads EXCEPT ![e][i].ec = "ok", ![e][i].data = data(i)]
  BY DEF Arrive
<1>2. reads \in [Ends -> ReadQueues] /\ reads[e] # <<>>
  BY DEF IndInv, ReadsOK
<1>3. i = 1 /\ reads[e] = <<r>> /\ r \in ReadOps /\ WellRead(r)
  BY <1>2, ReadHandled
<1>4. r.ec = "pending"
  BY <1>1, <1>3 DEF IsFirstPending
<1>5. reads' = [reads EXCEPT ![e] = [reads[e] EXCEPT ![1].ec = "ok", ![1].data = data(1)]]
  BY <1>1, <1>2, <1>3
<1>6. \A x \in ReadOps : \A d : [<<x>> EXCEPT ![1].ec = "ok", ![1].data = d]
                             = <<[x EXCEPT !.ec = "ok", !.data = d]>>
  BY DEF ReadOps
<1>7. [reads[e] EXCEPT ![1].ec = "ok", ![1].data = data(1)]
        = <<[r EXCEPT !.ec = "ok", !.data = data(1)]>>
  <2> DEFINE d == data(1)
  <2> HIDE DEF r, d
  <2>1. [<<r>> EXCEPT ![1].ec = "ok", ![1].data = d] = <<[r EXCEPT !.ec = "ok", !.data = d]>>
    BY <1>3, <1>6
  <2>2. QED
    BY <1>3, <2>1, Zenon DEF d
<1>8. QED
  BY <1>1, <1>3, <1>4, <1>5, <1>7

LEMMA ReadFailsEffect ==
  ASSUME IndInv, NEW e \in Ends, ReadFails(e)
  PROVE  LET r == reads[e][1] IN
         /\ reads[e] = <<r>> /\ r \in ReadOps /\ WellRead(r) /\ r.ec = "pending"
         /\ reads' = [reads EXCEPT ![e] = <<[r EXCEPT !.ec = "failed"]>>]
<1> DEFINE r == reads[e][1]
<1>1. PICK i \in DOMAIN reads[e] :
        /\ IsFirstPending(reads[e], i)
        /\ reads' = [reads EXCEPT ![e] = Finish(reads[e], i, "failed")]
  BY DEF ReadFails
<1>2. reads \in [Ends -> ReadQueues] /\ reads[e] # <<>>
  BY DEF IndInv, ReadsOK
<1>3. i = 1 /\ reads[e] = <<r>> /\ r \in ReadOps /\ WellRead(r)
  BY <1>2, ReadHandled
<1>4. Finish(reads[e], 1, "failed") = <<[r EXCEPT !.ec = "failed"]>>
  BY <1>3 DEF Finish
<1>5. QED
  BY <1>1, <1>3, <1>4 DEF IsFirstPending

\* After its handler the next read waits: for a body, or for the next header.
LEMMA HeaderReadEffect ==
  ASSUME IndInv, NEW e \in Ends, HeaderRead(e)
  PROVE  LET r == reads[e][1] IN
         /\ reads[e] = <<r>> /\ r.op = "header" /\ r.ec = "ok"
         /\ \/ \E size \in SizesOf(Peer(e), r.data) :
                 /\ size > 0
                 /\ reads' = [reads EXCEPT ![e] = <<Read(e, "body", size, r.data)>>]
                 /\ recv' = recv
            \/ \E size \in SizesOf(Peer(e), r.data) :
                 /\ ~(size > 0)
                 /\ reads' = [reads EXCEPT ![e] = <<Read(e, "header", PairLen, <<>>)>>]
                 /\ recv' = [recv EXCEPT ![e] = Append(recv[e], r.data)]
<1> DEFINE r == reads[e][1]
<1>1. reads[e] # <<>> /\ Head(reads[e]).op = "header" /\ Head(reads[e]).ec = "ok"
  BY DEF HeaderRead, HasRead
<1>2. /\ reads[e] = <<r>> /\ Head(reads[e]) = r
      /\ \A x : Append(Tail(reads[e]), x) = <<x>>
  BY <1>1, ReadHandled
<1>3. PICK size \in SizesOf(Peer(e), r.data) :
        IF size > 0
        THEN /\ reads' = [reads EXCEPT ![e] = Append(Tail(reads[e]), Read(e, "body", size, r.data))]
             /\ UNCHANGED recv
        ELSE AddToIncomingMessageQueue(e, r.data)
  BY <1>2 DEF HeaderRead
<1>4. CASE size > 0
  BY <1>1, <1>2, <1>3, <1>4
<1>5. CASE ~(size > 0)
  BY <1>1, <1>2, <1>3, <1>5 DEF AddToIncomingMessageQueue
<1>6. QED
  BY <1>4, <1>5

LEMMA BodyReadEffect ==
  ASSUME IndInv, NEW e \in Ends, BodyRead(e)
  PROVE  LET r == reads[e][1] IN
         /\ reads[e] = <<r>> /\ r.op = "body" /\ r.ec = "ok"
         /\ reads' = [reads EXCEPT ![e] = <<Read(e, "header", PairLen, <<>>)>>]
         /\ recv' = [recv EXCEPT ![e] = Append(recv[e], r.head \o r.data)]
<1>1. reads[e] # <<>>
  BY DEF BodyRead, HasRead
<1>2. QED
  BY <1>1, ReadHandled DEF BodyRead, HasRead, AddToIncomingMessageQueue

\* m_qMessageOut being empty, a handler of a write adds a body or nothing.
LEMMA HeaderWrittenEffect ==
  ASSUME IndInv, NEW e \in Ends, HeaderWritten(e)
  PROVE  LET n == Head(writes[e]).n IN
         \/ /\ BodyLen[sent[e][n]] > 0
            /\ writes' = [writes EXCEPT ![e] = Append(Tail(writes[e]), Write(e, "body", n))]
         \/ /\ ~(BodyLen[sent[e][n]] > 0)
            /\ writes' = [writes EXCEPT ![e] = Tail(writes[e])]
  BY NothingQueued DEF IndInv, HeaderWritten

LEMMA BodyWrittenEffect ==
  ASSUME IndInv, NEW e \in Ends, BodyWritten(e)
  PROVE  writes' = [writes EXCEPT ![e] = Tail(writes[e])]
  BY NothingQueued DEF IndInv, BodyWritten

LEMMA RunSendEffect ==
  ASSUME IndInv, NEW e \in Ends, RunSend(e)
  PROVE  LET n == Head(tasks[e]).n IN
         /\ n \in 1..Len(sent[e])
         /\ writes' = [writes EXCEPT ![e] = Append(writes[e], Write(e, "header", n))]
<1> DEFINE n == Head(tasks[e]).n
<1>1. outq[e] = <<>>
  BY DEF IndInv, RestOK
<1>2. writes' = [writes EXCEPT ![e] = WritesAfterWriteHeader(e, <<n>>, writes[e])]
  BY <1>1 DEF RunSend
<1>3. /\ tasks[e] \in Seq(Tasks) /\ tasks[e] # <<>> /\ Len(sent[e]) \in Nat
      /\ NamesSent(tasks[e], "send", Len(sent[e])) /\ Head(tasks[e]).op = "send"
  BY DEF IndInv, TasksOK, RestOK, RunSend
<1>4. n \in 1..Len(sent[e])
  BY <1>3, NamesTail
<1>5. QED
  BY <1>2, <1>4 DEF WritesAfterWriteHeader

-----------------------------------------------------------------------------
(* No connection is deaf.                                                  *)

\* Disconnect() has been called at e and its function has not run.
Closing(e) == \E i \in 1..Len(tasks[e]) : tasks[e][i] = CloseTask

\* A client that still connects has an open socket and, until the connect is
\* done, a timer that will close it, or its close is posted.
LinkOK ==
    /\ connect \in {"pending", "ok"} => socket["client"] = "open"
    /\ connect = "pending" => timer \in {"armed", "expired"} \/ Closing("client")

\* Who will act next on an open connection.
ClientBusy ==
    \/ connect \in {"pending", "ok"}
    \/ connect = "failed" /\ timer \in {"armed", "expired"}
    \/ ~NoNonce(writes["client"])

HearingOK ==
    \A e \in Ends : socket[e] = "open" =>
        Closing(e) \/ reads[e] # <<>> \/ (e = "client" /\ ClientBusy)

DeafInv == LinkOK /\ HearingOK

\* What is posted to be closed stays so, whatever else is posted.
LEMMA PostKeeps ==
  ASSUME TasksOK, NEW e \in Ends, NEW t \in Tasks, Post(e, t), NEW f \in Ends
  PROVE  /\ Closing(f) => Closing(f)'
         /\ e = f /\ t = CloseTask => Closing(f)'
<1>1. tasks[e] \in Seq(Tasks) /\ tasks' = [tasks EXCEPT ![e] = Append(tasks[e], t)]
  BY DEF TasksOK, Post
<1>2. /\ Len(Append(tasks[e], t)) = Len(tasks[e]) + 1
      /\ Append(tasks[e], t)[Len(tasks[e]) + 1] = t
      /\ \A i \in 1..Len(tasks[e]) : Append(tasks[e], t)[i] = tasks[e][i]
  BY <1>1
<1>3. CASE e = f
  <2>1. tasks'[f] = Append(tasks[e], t) /\ Len(tasks[e]) \in Nat
    BY <1>1, <1>3 DEF TasksOK
  <2>2. QED
    BY <1>2, <1>3, <2>1 DEF Closing
<1>4. CASE e # f
  BY <1>1, <1>4 DEF Closing, TasksOK
<1>5. QED
  BY <1>3, <1>4

LEMMA DisconnectCloses ==
  ASSUME TasksOK, NEW e \in Ends, Disconnect(e), NEW f \in Ends
  PROVE  /\ Closing(f) => Closing(f)'
         /\ e = f /\ socket[e] = "open" => Closing(f)'
<1>1. CloseTask \in Tasks
  BY OpsTyped
<1>2. CASE socket[e] = "open"
  BY <1>1, <1>2, PostKeeps DEF Disconnect
<1>3. CASE socket[e] # "open"
  BY <1>3 DEF Disconnect, Closing
<1>4. QED
  BY <1>2, <1>3

LEMMA SendKeeps ==
  ASSUME TasksOK, RestOK, NEW e \in Ends, NEW k, Send(e, k), NEW f \in Ends
  PROVE  Closing(f) => Closing(f)'
<1>1. SendTask(Len(sent[e]) + 1) \in Tasks
  <2>1. Len(sent[e]) + 1 \in Nat
    BY DEF RestOK
  <2>2. QED
    BY <2>1, OpsTyped
<1>2. QED
  BY <1>1, PostKeeps DEF Send

\* A function that is not the close is removed.
LEMMA TailKeeps ==
  ASSUME TasksOK, NEW e \in Ends, tasks[e] # <<>>, Head(tasks[e]).op # "close",
         tasks' = [tasks EXCEPT ![e] = Tail(@)], NEW f \in Ends
  PROVE  Closing(f) => Closing(f)'
<1>1. tasks[e] \in Seq(Tasks) /\ tasks[e] # <<>> /\ tasks' = [tasks EXCEPT ![e] = Tail(tasks[e])]
  BY DEF TasksOK
<1>2. /\ Len(Tail(tasks[e])) = Len(tasks[e]) - 1 /\ Len(tasks[e]) \in Nat
      /\ tasks[e][1] # CloseTask
      /\ \A i \in 2..Len(tasks[e]) : Tail(tasks[e])[i - 1] = tasks[e][i]
  BY <1>1 DEF CloseTask
<1>3. CASE e = f /\ Closing(f)
  <2>1. PICK i \in 1..Len(tasks[e]) : tasks[e][i] = CloseTask
    BY <1>3 DEF Closing
  <2>2. i \in 2..Len(tasks[e]) /\ i - 1 \in 1..Len(Tail(tasks[e]))
    BY <1>2, <2>1
  <2>3. Tail(tasks[e])[i - 1] = CloseTask
    BY <1>2, <2>1, <2>2
  <2>4. QED
    BY <1>1, <1>3, <2>2, <2>3 DEF Closing, TasksOK
<1>4. CASE e # f
  BY <1>1, <1>4 DEF Closing, TasksOK
<1>5. QED
  BY <1>3, <1>4

\* Only the answer's own handler takes the handshake number off the queue.
LEMMA NonceStays ==
  ASSUME NEW s \in Seq(WriteOps), ~NoNonce(s), NEW x
  PROVE  /\ s # <<>> /\ Head(s).op # "nonce" => ~NoNonce(Tail(s))
         /\ ~NoNonce(Append(s, x))
  BY SMTT(30) DEF NoNonce

LEMMA InitDeaf == Init => DeafInv
BY DEF Init, DeafInv, LinkOK, HearingOK, Ends

\* An open end other than e has what e's step leaves it.
LEMMA DeafStep ==
  ASSUME IndInv, DeafInv, [Next]_vars
  PROVE  DeafInv'
<1>0. TasksOK /\ RestOK /\ WritesOK /\ ReadsOK /\ TurnsOK
  BY DEF IndInv
<1> USE DEF DeafInv
<1>1. CASE UNCHANGED vars
  BY <1>1 DEF LinkOK, HearingOK, ClientBusy, Closing, vars, ioVars, linkVars, appVars
<1>2. CASE ConnectToServer
  BY <1>0, <1>2 DEF ConnectToServer, LinkOK, HearingOK, ClientBusy, Closing, ioVars, appVars, RestOK, Ends
<1>3. CASE LinkUp \/ Refuse \/ Expire
  BY <1>3 DEF LinkUp, Refuse, Expire, LinkOK, HearingOK, ClientBusy, Closing, ioVars, appVars
<1>4. CASE ConnectDone
  BY <1>0, <1>4 DEF ConnectDone, LinkOK, HearingOK, ClientBusy, Closing, ioVars, appVars, TurnsOK, ReadsOK, Ends
<1>5. CASE ConnectTimeOut
  <2>1. \A f \in Ends : /\ Closing(f) => Closing(f)'
                        /\ f = "client" /\ socket["client"] = "open" => Closing(f)'
    BY <1>0, <1>5, DisconnectCloses DEF ConnectTimeOut, Ends
  <2>2. QED
    BY <1>5, <2>1 DEF ConnectTimeOut, LinkOK, HearingOK, ClientBusy, ioVars, Ends
<1>6. CASE Accept
  <2>1. \A f \in Ends : Closing(f) => Closing(f)'
    BY <1>0, <1>6, SendKeeps DEF Accept, Ends
  <2>2. QED
    BY <1>0, <1>6, <2>1 DEF Accept, LinkOK, HearingOK, ClientBusy, RestOK, ReadsOK, WritesOK, Ends
<1>7. ASSUME NEW e \in Ends, NEW i \in DOMAIN writes[e], NEW ec \in {"ok", "failed"},
            writes' = [writes EXCEPT ![e] = Finish(@, i, ec)],
            UNCHANGED <<socket, linkVars, tasks, reads>>
      PROVE DeafInv'
  <2>1. writes[e] \in Seq(WriteOps) /\ ec \in Results
    BY <1>0 DEF WritesOK, Results
  <2>2. NoNonce(Finish(writes[e], i, ec)) => NoNonce(writes[e])
    BY <2>1, FinishWrite, NonceSame
  <2>3. NoNonce(writes'["client"]) => NoNonce(writes["client"])
    BY <1>0, <1>7, <2>2 DEF WritesOK, Ends
  <2>4. QED
    BY <1>7, <2>3 DEF LinkOK, HearingOK, ClientBusy, Closing, linkVars
<1>8. ASSUME NEW e \in Ends, NEW r, reads' = [reads EXCEPT ![e] = <<r>>],
            UNCHANGED <<socket, linkVars, tasks, writes>>
      PROVE DeafInv'
  <2>1. reads'[e] # <<>> /\ \A f \in Ends \ {e} : reads'[f] = reads[f]
    BY <1>0, <1>8 DEF ReadsOK
  <2>2. QED
    BY <1>8, <2>1 DEF LinkOK, HearingOK, ClientBusy, Closing, linkVars
<1>9. ASSUME NEW e \in Ends, Kernel(e) PROVE DeafInv'
  <2>1. CASE Reset(e)
    BY <2>1 DEF Reset, LinkOK, HearingOK, ClientBusy, Closing, ioVars
  <2>2. CASE Transfer(e)
    BY <2>2, <1>7 DEF Transfer
  <2>3. CASE WriteFails(e)
    BY <2>3, <1>7 DEF WriteFails
  <2>4. CASE Arrive(e)
    BY <2>4, <1>8, ArriveEffect DEF Arrive
  <2>5. CASE ReadFails(e)
    BY <2>5, <1>8, ReadFailsEffect DEF ReadFails
  <2>6. QED
    BY <1>9, <2>1, <2>2, <2>3, <2>4, <2>5 DEF Kernel
<1>10. ASSUME NEW e \in Ends, RunSend(e) PROVE DeafInv'
  <2>1. \A f \in Ends : Closing(f) => Closing(f)'
    BY <1>0, <1>10, TailKeeps DEF RunSend
  <2>2. ~NoNonce(writes["client"]) => ~NoNonce(writes'["client"])
    <3>1. writes["client"] \in Seq(WriteOps)
      BY <1>0 DEF WritesOK, Ends
    <3>2. \/ writes'["client"] = writes["client"]
          \/ \E x : writes'["client"] = Append(writes["client"], x)
      BY <1>0, <1>10 DEF RunSend, WritesOK, WritesAfterWriteHeader, Ends
    <3>3. QED
      BY <3>1, <3>2, NonceStays
  <2>3. UNCHANGED <<socket, linkVars, reads>>
    BY <1>10 DEF RunSend
  <2>4. QED
    BY <2>1, <2>2, <2>3 DEF LinkOK, HearingOK, ClientBusy, linkVars, Ends
<1>11. ASSUME NEW e \in Ends, RunClose(e) \/ Quit(e) PROVE DeafInv'
  <2>1. /\ socket'[e] # "open"
        /\ \A f \in Ends \ {e} : /\ socket'[f] = socket[f] /\ reads'[f] = reads[f]
                                /\ writes'[f] = writes[f] /\ tasks'[f] = tasks[f]
        /\ connect' = IF e = "client" /\ connect \in {"pending", "ok"} THEN "failed" ELSE connect
        /\ e # "client" => timer' = timer
    BY <1>0, <1>11 DEF RunClose, Quit, RestOK, ReadsOK, WritesOK, TasksOK
  <2>2. QED
    BY <2>1 DEF LinkOK, HearingOK, ClientBusy, Closing, Ends
\* The end that fails has called Disconnect(), so its close is posted.
<1>12. ASSUME NEW e \in Ends, Disconnect(e), UNCHANGED <<socket, linkVars>>,
              \A f \in Ends \ {e} : reads'[f] = reads[f] /\ writes'[f] = writes[f]
       PROVE  DeafInv'
  <2>1. \A f \in Ends : /\ Closing(f) => Closing(f)'
                        /\ f = e /\ socket[e] = "open" => Closing(f)'
    BY <1>0, <1>12, DisconnectCloses
  <2>2. QED
    BY <1>12, <2>1 DEF LinkOK, HearingOK, ClientBusy, linkVars, Ends
<1>13. ASSUME NEW e \in Ends, WriteError(e) \/ ReadError(e) PROVE DeafInv'
  BY <1>0, <1>12, <1>13 DEF WriteError, ReadError, WritesOK, ReadsOK
<1>14. CASE ClientRejected
  BY <1>0, <1>12, <1>14 DEF ClientRejected, ReadsOK, Ends
<1>15. ASSUME NEW e \in Ends, HeaderWritten(e) \/ BodyWritten(e) PROVE DeafInv'
  <2>1. ~NoNonce(writes["client"]) => ~NoNonce(writes'["client"])
    <3>1. writes["client"] \in Seq(WriteOps) /\ "client" \in Ends
      BY <1>0 DEF WritesOK, Ends
    <3>2. CASE e = "client"
      <4>1. /\ writes[e] # <<>> /\ Head(writes[e]).op # "nonce"
            /\ Tail(writes[e]) \in Seq(WriteOps)
        BY <1>15, <3>1, <3>2 DEF HeaderWritten, BodyWritten
      <4>2. \/ writes'[e] = Tail(writes[e])
            \/ \E x : writes'[e] = Append(Tail(writes[e]), x)
        BY <1>0, <1>15, HeaderWrittenEffect, BodyWrittenEffect DEF WritesOK
      <4>3. QED
        BY <3>1, <3>2, <4>1, <4>2, NonceStays
    <3>3. CASE e # "client"
      BY <1>0, <1>15, <3>3 DEF HeaderWritten, BodyWritten, WritesOK, Ends
    <3>4. QED
      BY <3>2, <3>3
  <2>2. QED
    BY <1>15, <2>1 DEF HeaderWritten, BodyWritten, LinkOK, HearingOK, ClientBusy, Closing, linkVars
<1>16. ASSUME NEW e \in Ends, NonceWritten(e) PROVE DeafInv'
  <2>1. CASE e = "client"
    <3>1. reads'["client"] # <<>> /\ reads'["server"] = reads["server"]
      BY <1>0, <1>16, <2>1, ReadQueueShort DEF NonceWritten, ReadsOK, Ends
    <3>2. QED
      BY <1>16, <2>1, <3>1 DEF NonceWritten, LinkOK, HearingOK, Closing, linkVars, Ends
  <2>2. CASE e = "server"
    BY <1>0, <1>16, <2>2 DEF NonceWritten, LinkOK, HearingOK, ClientBusy, Closing, linkVars, Ends, WritesOK
  <2>3. QED
    BY <2>1, <2>2 DEF Ends
<1>17. ASSUME NEW e \in Ends, HeaderRead(e) \/ BodyRead(e) PROVE DeafInv'
  <2>1. UNCHANGED <<socket, linkVars, tasks, writes>>
    BY <1>17 DEF HeaderRead, BodyRead
  <2>2. \E r : reads' = [reads EXCEPT ![e] = <<r>>]
    BY <1>17, HeaderReadEffect, BodyReadEffect
  <2>3. QED
    BY <1>8, <2>1, <2>2
<1>18. CASE AnswerValidation
  <2>1. ~NoNonce(writes'["client"])
    <3>1. PICK x : writes'["client"] = Append(writes["client"], x) /\ x.op = "nonce"
      BY <1>0, <1>18 DEF AnswerValidation, WritesOK, Write, Ends
    <3>2. writes["client"] \in Seq(WriteOps)
      BY <1>0 DEF WritesOK, Ends
    <3>3. /\ Len(writes'["client"]) = Len(writes["client"]) + 1
          /\ writes'["client"][Len(writes["client"]) + 1] = x
      BY <3>1, <3>2
    <3>4. QED
      BY <3>1, <3>2, <3>3 DEF NoNonce
  <2>2. reads'["server"] = reads["server"]
    BY <1>0, <1>18 DEF AnswerValidation, ReadsOK, Ends
  <2>3. QED
    BY <1>18, <2>1, <2>2 DEF AnswerValidation, LinkOK, HearingOK, ClientBusy, Closing, linkVars, Ends
<1>19. CASE ClientValidated
  <2>1. \A f \in Ends : Closing(f) => Closing(f)'
    BY <1>0, <1>19, SendKeeps DEF ClientValidated, Ends
  <2>2. reads'["client"] = reads["client"] /\ reads'["server"] # <<>>
    <3>1. reads["server"] # <<>> /\ "server" \in Ends
      BY <1>19 DEF ClientValidated, HasRead, Ends
    <3>2. \A x : Append(Tail(reads["server"]), x) = <<x>>
      BY <1>0, <3>1, ReadHandled
    <3>3. QED
      BY <1>0, <1>19, <3>2 DEF ClientValidated, ReadsOK, Ends
  <2>3. QED
    BY <1>19, <2>1, <2>2 DEF ClientValidated, LinkOK, HearingOK, ClientBusy, linkVars, Ends
<1>20. CASE PingServer \/ Broadcast \/ ServerHandles \/ ClientHandles
  <2>1. \A f \in Ends : Closing(f) => Closing(f)'
    <3>1. \/ \E e \in Ends, k \in Kinds : Send(e, k)
          \/ tasks' = tasks
      BY <1>20 DEF PingServer, Broadcast, ServerHandles, ClientHandles, Ends, Kinds
    <3>2. QED
      BY <1>0, <3>1, SendKeeps DEF Closing
  <2>2. UNCHANGED <<socket, linkVars, ioVars>>
    BY <1>20 DEF PingServer, Broadcast, ServerHandles, ClientHandles
  <2>3. QED
    BY <2>1, <2>2 DEF LinkOK, HearingOK, ClientBusy, linkVars, ioVars, Ends
\* A client whose id is taken is closed; where the accept fails nothing is open.
<1>21. CASE IdExists
  <2>1. /\ tasks["server"] \in Seq(Tasks) /\ "server" \in Ends
        /\ SendTask(1) \in Tasks /\ CloseTask \in Tasks
    BY <1>0, OpsTyped DEF TasksOK, Ends
  <2>2. tasks'["server"] = tasks["server"] \o <<SendTask(1), CloseTask>>
    BY <1>0, <1>21, <2>1 DEF IdExists, TasksOK
  <2>3. /\ Len(tasks'["server"]) = Len(tasks["server"]) + 2
        /\ tasks'["server"][Len(tasks["server"]) + 2] = CloseTask
    BY <2>1, <2>2
  <2>4. Closing("server")'
    BY <2>1, <2>3 DEF Closing
  <2>5. tasks'["client"] = tasks["client"] /\ socket'["client"] = socket["client"]
    BY <1>0, <1>21 DEF IdExists, TasksOK, RestOK, Ends
  <2>6. QED
    BY <1>21, <2>4, <2>5 DEF IdExists, LinkOK, HearingOK, ClientBusy, Closing, ioVars, Ends
<1>22. CASE AcceptFails \/ ListenerStops
  <2>1. /\ socket'["client"] = socket["client"]
        /\ socket'["server"] = socket["server"] \/ socket'["server"] = "closed"
    BY <1>0, <1>22 DEF AcceptFails, ListenerStops, RestOK, Ends
  <2>2. QED
    BY <1>22, <2>1 DEF AcceptFails, ListenerStops, LinkOK, HearingOK, ClientBusy, Closing, ioVars, Ends
<1>23. ASSUME NEW e \in Ends, Handlers(e) PROVE DeafInv'
  BY <1>10, <1>11, <1>13, <1>15, <1>16, <1>17, <1>23 DEF Handlers
<1>24. QED
  BY <1>1, <1>2, <1>3, <1>4, <1>5, <1>6, <1>9, <1>11, <1>14, <1>18, <1>19, <1>20, <1>21, <1>22, <1>23,
     ConnectionAssumption DEF Next, Ends

\* An open connection is never deaf: whatever happens on the way, somebody will
\* read from it or close it.
THEOREM ConnectionHears == Spec => []NeverDeaf
<1>1. IndInv /\ DeafInv => NeverDeaf
  <2> SUFFICES ASSUME IndInv, DeafInv, NEW e \in Ends, socket[e] = "open"
               PROVE  \/ CloseTask \in {tasks[e][i] : i \in DOMAIN tasks[e]}
                      \/ reads[e] # <<>>
                      \/ /\ e = "client"
                         /\ \/ connect \in {"pending", "ok"}
                            \/ connect = "failed" /\ timer \in {"armed", "expired"}
                            \/ \E i \in DOMAIN writes[e] : writes[e][i].op = "nonce"
    BY DEF NeverDeaf
  <2>1. tasks[e] \in Seq(Tasks) /\ writes[e] \in Seq(WriteOps)
    BY DEF IndInv, TasksOK, WritesOK
  <2>2. DOMAIN tasks[e] = 1..Len(tasks[e]) /\ DOMAIN writes[e] = 1..Len(writes[e])
    BY <2>1
  <2>3. CASE Closing(e)
    BY <2>2, <2>3 DEF Closing
  <2>4. CASE reads[e] # <<>>
    BY <2>4
  <2>5. CASE e = "client" /\ ClientBusy
    BY <2>2, <2>5 DEF ClientBusy, NoNonce
  <2>6. QED
    BY <2>3, <2>4, <2>5 DEF DeafInv, HearingOK
<1>2. IndInv /\ DeafInv /\ [Next]_vars => (IndInv /\ DeafInv)'
  BY NextIndInv, DeafStep
<1>3. QED
  BY <1>1, <1>2, InitIndInv, InitDeaf, PTL DEF Spec

-----------------------------------------------------------------------------
(* Which handlers touch which queue, and how a stream grows.               *)

\* What one end does leaves the other end's queues alone.
LEMMA OtherEnd ==
  ASSUME IndInv, NEW e \in Ends, NEW f \in Ends, e # f,
         Kernel(e) \/ Handlers(e) \/ Quit(e)
  PROVE  /\ tasks'[f] = tasks[f] /\ writes'[f] = writes[f] /\ reads'[f] = reads[f]
         /\ stream'[f] = stream[f] /\ taken'[f] = taken[f] /\ recv'[f] = recv[f]
         /\ sent'[f] = sent[f] /\ validated' = validated /\ socket'[f] = socket[f]
<1>1. /\ DOMAIN tasks = Ends /\ DOMAIN writes = Ends /\ DOMAIN reads = Ends
      /\ DOMAIN stream = Ends /\ DOMAIN taken = Ends /\ DOMAIN recv = Ends /\ DOMAIN socket = Ends
  BY DEF IndInv, TasksOK, WritesOK, ReadsOK, RestOK
<1>2. Disconnect(e) => tasks'[f] = tasks[f]
  BY <1>1 DEF Disconnect, Post
<1>3. CASE Kernel(e)
  BY <1>1, <1>3 DEF Kernel, Reset, Transfer, WriteFails, Arrive, ReadFails, ioVars, appVars
<1>4. CASE RunSend(e) \/ RunClose(e) \/ Quit(e)
  BY <1>1, <1>4 DEF RunSend, RunClose, Quit, appVars
<1>5. CASE WriteError(e) \/ ReadError(e)
  BY <1>1, <1>2, <1>5 DEF WriteError, ReadError, appVars
<1>6. CASE HeaderWritten(e) \/ BodyWritten(e) \/ NonceWritten(e)
  BY <1>1, <1>6 DEF HeaderWritten, BodyWritten, NonceWritten, appVars
<1>7. CASE HeaderRead(e) \/ BodyRead(e)
  <2>1. /\ UNCHANGED <<socket, tasks, writes, stream, taken, sent, validated>>
    BY <1>7 DEF HeaderRead, BodyRead
  <2>2. reads'[f] = reads[f] /\ recv'[f] = recv[f]
    BY ZenonT(40), <1>1, <1>7, HeaderReadEffect, BodyReadEffect
  <2>3. QED
    BY <2>1, <2>2
<1>8. QED
  BY <1>3, <1>4, <1>5, <1>6, <1>7 DEF Handlers

\* Which steps change what is kept at the end e.
ChangesAt(e) ==
    /\ stream'[e] = stream[e] \/ Transfer(e)
    /\ taken'[e] = taken[e] \/ Arrive(e)
    /\ recv'[e] = recv[e] \/ HeaderRead(e) \/ BodyRead(e)
    /\ validated' = validated \/ ClientValidated \/ ClientRejected
    /\ \/ writes'[e] = writes[e]
       \/ Transfer(e) \/ WriteFails(e) \/ RunSend(e) \/ RunClose(e) \/ WriteError(e)
       \/ HeaderWritten(e) \/ BodyWritten(e) \/ NonceWritten(e) \/ Quit(e)
       \/ e = "server" /\ Accept
       \/ e = "client" /\ AnswerValidation
    /\ \/ reads'[e] = reads[e]
       \/ Arrive(e) \/ ReadFails(e) \/ RunClose(e) \/ ReadError(e) \/ HeaderRead(e)
       \/ BodyRead(e) \/ NonceWritten(e) \/ Quit(e)
       \/ e = "client" /\ (ConnectDone \/ AnswerValidation)
       \/ e = "server" /\ (Accept \/ ClientValidated \/ ClientRejected)
    /\ \/ sent'[e] = sent[e] /\ tasks'[e] = tasks[e]
       \/ sent'[e] = sent[e] /\ (RunSend(e) \/ RunClose(e) \/ Quit(e) \/ Disconnect(e))
       \/ \E k \in Kinds : Send(e, k)
       \/ e = "server" /\ IdExists

LEMMA EndChanges ==
  ASSUME IndInv, [Next]_vars, NEW e \in Ends
  PROVE  ChangesAt(e)
<1>1. /\ DOMAIN tasks = Ends /\ DOMAIN writes = Ends /\ DOMAIN reads = Ends
      /\ DOMAIN sent = Ends /\ DOMAIN recv = Ends
      /\ "client" \in Ends /\ "server" \in Ends
      /\ "ServerAccept" \in Kinds /\ "Client_Accepted" \in Kinds
      /\ "ServerPing" \in Kinds /\ "ServerMessage" \in Kinds
  BY DEF IndInv, TasksOK, WritesOK, ReadsOK, RestOK, Ends, Kinds
<1>2. ASSUME NEW f \in Ends, f # e, Kernel(f) \/ Handlers(f) \/ Quit(f) PROVE ChangesAt(e)
  BY <1>2, OtherEnd DEF ChangesAt
<1>3. CASE Reset(e) \/ Transfer(e) \/ WriteFails(e) \/ Arrive(e) \/ ReadFails(e)
  BY <1>3 DEF ChangesAt, Reset, Transfer, WriteFails, Arrive, ReadFails, ioVars, appVars
<1>4. CASE RunSend(e) \/ RunClose(e) \/ Quit(e)
  BY <1>4 DEF ChangesAt, RunSend, RunClose, Quit, appVars
<1>5. CASE WriteError(e) \/ ReadError(e)
  BY <1>5 DEF ChangesAt, WriteError, ReadError, appVars
<1>6. CASE HeaderWritten(e) \/ BodyWritten(e) \/ NonceWritten(e)
  BY <1>6 DEF ChangesAt, HeaderWritten, BodyWritten, NonceWritten, appVars
<1>7. CASE HeaderRead(e) \/ BodyRead(e)
  BY <1>7 DEF ChangesAt, HeaderRead, BodyRead
<1>8. CASE \/ UNCHANGED vars \/ ConnectToServer \/ LinkUp \/ Refuse \/ Expire \/ ClientHandles
           \/ AcceptFails \/ ListenerStops
  BY <1>8 DEF ChangesAt, vars, ConnectToServer, LinkUp, Refuse, Expire, ClientHandles,
              AcceptFails, ListenerStops, ioVars, appVars
<1>9. ASSUME NEW f \in Ends, NEW k \in Kinds, Send(f, k), f # e
      PROVE  sent'[e] = sent[e] /\ tasks'[e] = tasks[e]
  BY <1>1, <1>9 DEF Send, Post
<1>10. CASE ConnectDone \/ AnswerValidation
  BY <1>1, <1>10 DEF ChangesAt, ConnectDone, AnswerValidation, appVars, Ends
<1>11. ASSUME NEW f \in Ends, Disconnect(f), f # e
       PROVE  tasks'[e] = tasks[e]
  BY <1>1, <1>11 DEF Disconnect, Post
<1>12. CASE ConnectTimeOut
  <2>1. UNCHANGED <<ioVars, appVars>> /\ Disconnect("client")
    BY <1>12 DEF ConnectTimeOut
  <2>2. QED
    BY <1>1, <1>11, <2>1 DEF ChangesAt, ioVars, appVars
<1>13. CASE PingServer \/ Broadcast \/ ServerHandles
  <2>1. /\ UNCHANGED <<ioVars, recv, validated>>
        /\ \/ \E f \in Ends, k \in Kinds : Send(f, k)
           \/ UNCHANGED <<sent, tasks>>
    BY <1>1, <1>13 DEF PingServer, Broadcast, ServerHandles
  <2>2. QED
    BY <1>9, <2>1 DEF ChangesAt, ioVars
<1>14. CASE Accept
  <2>1. /\ Send("server", "ServerAccept") /\ UNCHANGED <<stream, taken, recv, validated>>
        /\ writes'["client"] = writes["client"] /\ reads'["client"] = reads["client"]
    BY <1>1, <1>14 DEF Accept
  <2>2. CASE e = "server"
    BY <1>1, <1>14, <2>1, <2>2 DEF ChangesAt
  <2>3. CASE e = "client"
    BY <1>1, <1>9, <2>1, <2>3 DEF ChangesAt
  <2>4. QED
    BY <2>2, <2>3 DEF Ends
<1>15. CASE ClientValidated
  <2>1. /\ Send("server", "Client_Accepted") /\ UNCHANGED <<stream, taken, recv, writes>>
        /\ reads'["client"] = reads["client"]
    BY <1>1, <1>15 DEF ClientValidated
  <2>2. CASE e = "server"
    BY <1>1, <1>15, <2>1, <2>2 DEF ChangesAt
  <2>3. CASE e = "client"
    <3>1. sent'[e] = sent[e] /\ tasks'[e] = tasks[e]
      BY <1>1, <1>9, <2>1, <2>3
    <3>2. QED
      BY <1>15, <2>1, <2>3, <3>1 DEF ChangesAt
  <2>4. QED
    BY <2>2, <2>3 DEF Ends
<1>16. CASE ClientRejected
  <2>1. /\ Disconnect("server") /\ UNCHANGED <<stream, taken, recv, writes, sent>>
        /\ reads'["client"] = reads["client"]
    BY <1>1, <1>16 DEF ClientRejected
  <2>2. QED
    BY <1>1, <1>11, <1>16, <2>1 DEF ChangesAt, Ends
<1>17. ASSUME NEW f \in Ends, Kernel(f) \/ Handlers(f) \/ Quit(f) PROVE ChangesAt(e)
  <2>1. CASE f # e
    BY <1>2, <1>17, <2>1
  <2>2. CASE f = e
    BY <1>3, <1>4, <1>5, <1>6, <1>7, <1>17, <2>2 DEF Kernel, Handlers
  <2>3. QED
    BY <2>1, <2>2
<1>18. CASE IdExists
  <2>1. /\ UNCHANGED <<ioVars, recv, validated>>
        /\ e # "server" => sent'[e] = sent[e] /\ tasks'[e] = tasks[e]
    BY <1>1, <1>18 DEF IdExists
  <2>2. QED
    BY <1>18, <2>1 DEF ChangesAt, ioVars, Ends
<1>19. QED
  BY <1>8, <1>10, <1>12, <1>13, <1>14, <1>15, <1>16, <1>17, <1>18, ConnectionAssumption DEF Next, Ends

\* Which steps of the programs change what an end has sent and handled.
LEMMA ProgramChanges ==
  ASSUME IndInv, [Next]_vars
  PROVE  /\ handled'["client"] = handled["client"] \/ ClientHandles
         /\ sent'["client"] = sent["client"] \/ PingServer
         /\ \/ sent'["server"] = sent["server"]
            \/ Accept \/ IdExists \/ ClientValidated \/ Broadcast \/ ServerHandles
<1>1. "client" \in Ends /\ DOMAIN sent = Ends /\ DOMAIN handled = Ends
  BY DEF IndInv, RestOK, Ends
<1>2. ASSUME NEW f \in Ends, Kernel(f) PROVE UNCHANGED <<sent, handled>>
  BY <1>2 DEF Kernel, Reset, Transfer, WriteFails, Arrive, ReadFails, appVars
<1>3. ASSUME NEW f \in Ends, Handlers(f) PROVE UNCHANGED <<sent, handled>>
  BY <1>3 DEF Handlers, RunSend, RunClose, WriteError, HeaderWritten, BodyWritten,
              NonceWritten, ReadError, HeaderRead, BodyRead, appVars
<1>4. ASSUME NEW f \in Ends, Quit(f) PROVE UNCHANGED <<sent, handled>>
  BY <1>4 DEF Quit, appVars
<1>5. CASE \/ UNCHANGED vars \/ ConnectToServer \/ LinkUp \/ Refuse \/ ConnectDone \/ Expire
           \/ ConnectTimeOut \/ AnswerValidation \/ ClientRejected
           \/ AcceptFails \/ ListenerStops
  BY <1>5 DEF vars, ConnectToServer, LinkUp, Refuse, ConnectDone, Expire, ConnectTimeOut,
              AnswerValidation, ClientRejected, AcceptFails, ListenerStops, appVars
<1>6. CASE Accept \/ IdExists \/ ClientValidated \/ Broadcast \/ ServerHandles
  BY <1>1, <1>6 DEF Accept, IdExists, ClientValidated, Broadcast, ServerHandles, Send
<1>7. CASE PingServer \/ ClientHandles
  BY <1>1, <1>7 DEF PingServer, ClientHandles, Send, Ends
<1>8. QED
  BY <1>2, <1>3, <1>4, <1>5, <1>6, <1>7, ConnectionAssumption DEF Next, Ends

\* What becomes of the link, of the server's socket and of its accepting.
LEMMA LinkChange ==
  ASSUME IndInv, [Next]_vars
  PROVE  /\ reset \subseteq reset' /\ (linked => linked')
         /\ connect' \in {"no", "pending", "ok"} => connect \in {"no", "pending", "ok"}
         /\ \/ Accept \/ IdExists \/ AcceptFails
            \/ socket'["server"] = socket["server"]
            \/ Quit("server") /\ socket'["server"] = "gone"
            \/ RunClose("server")
         /\ \/ accepted' = accepted
            \/ accepted = "no" /\ accepted' = "yes" /\ Accept
            \/ accepted = "no" /\ accepted' = "never" /\ (IdExists \/ AcceptFails \/ ListenerStops)
<1>1. CASE UNCHANGED vars
  BY <1>1 DEF vars, linkVars
<1>2. CASE \/ ConnectToServer \/ LinkUp \/ Refuse \/ ConnectDone \/ Expire \/ ConnectTimeOut
  BY <1>2 DEF ConnectToServer, LinkUp, Refuse, ConnectDone, Expire, ConnectTimeOut,
              IndInv, RestOK, Ends
<1>3. CASE \/ PingServer \/ ClientHandles \/ ServerHandles \/ Broadcast
           \/ ClientValidated \/ ClientRejected \/ AnswerValidation
  BY <1>3 DEF PingServer, ClientHandles, ServerHandles, Broadcast, ClientValidated,
              ClientRejected, AnswerValidation, linkVars
<1>4. CASE Accept \/ IdExists \/ AcceptFails \/ ListenerStops
  BY <1>4 DEF Accept, IdExists, AcceptFails, ListenerStops, AcceptHandler
<1>5. ASSUME NEW e \in Ends, Kernel(e)
      PROVE /\ UNCHANGED <<socket, linked, connect, accepted>> /\ reset \subseteq reset'
  BY <1>5 DEF Kernel, Reset, Transfer, WriteFails, Arrive, ReadFails, linkVars
<1>6. ASSUME NEW e \in Ends, Handlers(e), ~RunClose(e)
      PROVE UNCHANGED <<socket, linkVars>>
  BY <1>6 DEF Handlers, RunSend, WriteError, HeaderWritten, BodyWritten, NonceWritten,
              ReadError, HeaderRead, BodyRead
<1>7. ASSUME NEW e \in Ends, RunClose(e) \/ Quit(e)
      PROVE /\ UNCHANGED <<linked, reset, accepted>>
            /\ connect' \in {"no", "pending", "ok"} => connect \in {"no", "pending", "ok"}
            /\ e = "client" => socket'["server"] = socket["server"]
            /\ Quit(e) /\ e = "server" => socket'["server"] = "gone"
  BY <1>7 DEF RunClose, Quit, IndInv, RestOK, Ends
<1>8. QED
  BY <1>1, <1>2, <1>3, <1>4, <1>5, <1>6, <1>7, ConnectionAssumption DEF Next, linkVars, Ends

\* A write puts its words behind those that are on the wire already.
LEMMA TransferEffect ==
  ASSUME IndInv, NEW e \in Ends, NEW i \in DOMAIN writes[e]
  PROVE  /\ WordsOf(e, writes[e][i]) \in Words
         /\ writes[e][i] \in WriteOps /\ i \in 1..Len(writes[e])
         /\ writes[e][i].op = "body" => writes[e][i].n \in 1..Len(sent[e])
         /\ writes[e][i].op = "header" => writes[e][i].n \in 1..Len(sent[e])
         /\ stream[e] \o WordsOf(e, writes[e][i]) \in Words
<1>1. /\ writes[e][i] \in WriteOps /\ i \in 1..Len(writes[e])
      /\ writes[e][i].op = "body" => writes[e][i].n \in 1..Len(sent[e])
      /\ writes[e][i].op = "header" => writes[e][i].n \in 1..Len(sent[e])
  BY DEF IndInv, WritesOK, NamesSent
<1>2. writes[e][i].n \in Nat
  BY <1>1 DEF WriteOps
<1>3. writes[e][i].op = "body" => sent[e][writes[e][i].n] \in Kinds
  BY <1>1 DEF IndInv, RestOK
<1>4. WordsOf(e, writes[e][i]) \in Words
  BY <1>1, <1>2, <1>3, FrameWords DEF WordsOf, WriteOps
<1>5. stream[e] \in Words
  BY DEF IndInv, RestOK
<1>6. QED
  BY <1>1, <1>4, <1>5 DEF Words

LEMMA ConcatWords ==
  ASSUME NEW s \in Words, NEW t \in Words
  PROVE  /\ s \o t \in Words /\ Len(s) \in Nat /\ Len(t) \in Nat
         /\ Len(s \o t) = Len(s) + Len(t)
         /\ \A k \in 1..Len(s) : (s \o t)[k] = s[k]
         /\ \A k \in 1..Len(t) : (s \o t)[Len(s) + k] = t[k]
  BY SMTT(30) DEF Words

LEMMA StreamGrows ==
  ASSUME IndInv, [Next]_vars, NEW e \in Ends
  PROVE  /\ stream[e] \in Words /\ stream'[e] \in Words
         /\ Len(stream[e]) \in Nat /\ Len(stream'[e]) \in Nat
         /\ Len(stream[e]) <= Len(stream'[e])
         /\ \A k \in 1..Len(stream[e]) : stream'[e][k] = stream[e][k]
<1>1. stream[e] \in Words /\ stream'[e] \in Words
  BY NextIndInv DEF IndInv, RestOK
<1>2. Len(stream[e]) \in Nat /\ Len(stream'[e]) \in Nat
  BY <1>1 DEF Words
<1>3. CASE stream'[e] = stream[e]
  BY <1>1, <1>2, <1>3
<1>4. CASE Transfer(e)
  <2>1. PICK i \in DOMAIN writes[e] : stream' = [stream EXCEPT ![e] = @ \o WordsOf(e, writes[e][i])]
    BY <1>4 DEF Transfer
  <2> DEFINE w == WordsOf(e, writes[e][i])
  <2>2. stream'[e] = stream[e] \o w
    BY <2>1 DEF IndInv, RestOK
  <2>3. w \in Words
    BY TransferEffect
  <2>4. /\ Len(stream[e] \o w) = Len(stream[e]) + Len(w) /\ Len(w) \in Nat
        /\ \A k \in 1..Len(stream[e]) : (stream[e] \o w)[k] = stream[e][k]
    BY <1>1, <2>3, ConcatWords
  <2> HIDE DEF w
  <2>5. QED
    BY <1>1, <1>2, <2>2, <2>4
<1>5. QED
  BY <1>3, <1>4, EndChanges DEF ChangesAt

-----------------------------------------------------------------------------
(* The handshake: what is on the wire first, and who has heard it.         *)

\* The handshake number is the first that e has written.
Opened(e) == Len(stream[e]) >= 2 /\ stream[e][1] = <<0, 1>> /\ stream[e][2] = <<0, 2>>

\* Nothing at the server before it accepts; it accepts on a link only.
Untouched == accepted = "no" \/ socket["server"] = "none"
AcceptOK ==
    /\ accepted = "yes" => linked /\ socket["server"] # "none"
    /\ socket["server"] = "open" => accepted # "no"
    /\ Untouched =>
          /\ tasks["server"] = <<>> /\ writes["server"] = <<>> /\ reads["server"] = <<>>
          /\ recv["server"] = <<>> /\ stream["server"] = <<>> /\ taken["server"] = 0
          /\ sent["server"] = <<>> /\ validated = "no"

\* Whoever writes a handshake number writes the one there is.
Zero(s) == \A i \in 1..Len(s) : s[i].op = "nonce" => s[i].n = 0
AllZero == \A e \in Ends : Zero(writes[e])
NumbersZero == accepted = "yes" => AllZero

\* The number at the head of a queue of writes, not yet on the wire.
NumberWaits(s) ==
    s # <<>> /\ s[1].op = "nonce" /\ s[1].n = 0 /\ s[1].ec = "pending"

\* The server's number goes first: until it is on the wire it is ahead of all.
FirstWriteOK ==
    accepted = "yes" =>
        /\ stream["server"] = <<>> \/ Opened("server")
        /\ socket["server"] = "open" /\ stream["server"] = <<>> /\ "server" \notin reset =>
              NumberWaits(writes["server"])

\* A read of the number reads the first words of the peer.
NumberRead(r, f, t) ==
    r.op = "nonce" =>
        IF r.ec = "ok"
        THEN Len(stream[f]) >= 2 /\ r.data[1] = stream[f][1] /\ r.data[2] = stream[f][2]
        ELSE t = 0
FirstReadOK ==
    /\ connect \in {"no", "pending", "ok"} => taken["client"] = 0
    /\ \A e \in Ends : reads[e] # <<>> => NumberRead(reads[e][1], Peer(e), taken[e])

\* The server reads messages after the right answer only.
HeardOK ==
    /\ validated # "yes" =>
          /\ recv["server"] = <<>>
          /\ reads["server"] # <<>> => reads["server"][1].op = "nonce"
    /\ validated # "no" /\ reads["server"] # <<>> => reads["server"][1].op # "nonce"
    /\ validated = "yes" => Opened("client")

\* A client that is not accepted, or not yet: all it may ever get is one header
\* without a body, which it takes for the number; it cannot read another.
Sending(s) == \E i \in 1..Len(s) : s[i].op = "send"
OneSend(s) == \A i, j \in 1..Len(s) : s[i].op = "send" /\ s[j].op = "send" => i = j
OneHeader(s) == Len(s) = 1 /\ s[1].op = "header"
LittleWritten ==
    /\ sent["server"] \in {<<>>, <<"ServerAccept">>}
    /\ stream["server"] \in {<<>>, Pair(1)}
    /\ OneSend(tasks["server"])
    /\ Sending(tasks["server"]) => writes["server"] = <<>> /\ stream["server"] = <<>>
    /\ writes["server"] # <<>> => OneHeader(writes["server"])
    /\ writes["server"] # <<>> /\ writes["server"][1].ec = "pending" => stream["server"] = <<>>
LittleRead ==
    /\ taken["client"] <= Len(stream["server"])
    /\ reads["client"] # <<>> =>
          \/ reads["client"][1].op = "nonce"
          \/ reads["client"][1].op = "header" /\ reads["client"][1].ec # "ok"
    /\ taken["client"] < 2 =>
          /\ NoNonce(writes["client"])
          /\ reads["client"] # <<>> => /\ reads["client"][1].op = "nonce"
                                      /\ reads["client"][1].ec # "ok"
Unserved ==
    accepted # "yes" =>
        /\ validated = "no" /\ reads["server"] = <<>>
        /\ recv["server"] = <<>> /\ recv["client"] = <<>>
        /\ LittleWritten /\ LittleRead

HandshakeInv == AcceptOK /\ NumbersZero /\ FirstWriteOK /\ FirstReadOK /\ HeardOK /\ Unserved

LEMMA InitHandshake == Init => HandshakeInv
<1> SUFFICES ASSUME Init PROVE HandshakeInv
  OBVIOUS
<1>1. AcceptOK /\ NumbersZero /\ FirstWriteOK /\ FirstReadOK /\ HeardOK
  BY DEF Init, AcceptOK, Untouched, NumbersZero, FirstWriteOK, FirstReadOK, HeardOK, Ends, Peer
<1>2. Unserved
  <2>1. LittleWritten
    BY DEF Init, LittleWritten, Sending, OneSend, Ends
  <2>2. LittleRead
    <3>1. stream["server"] = <<>> /\ taken["client"] = 0 /\ Len(<<>>) = 0
      BY DEF Init, Ends
    <3>2. writes["client"] = <<>> /\ reads["client"] = <<>>
      BY DEF Init, Ends
    <3>3. QED
      BY <3>1, <3>2 DEF LittleRead, NoNonce
  <2>3. QED
    BY <2>1, <2>2 DEF Init, Unserved, Ends
<1>3. QED
  BY <1>1, <1>2 DEF HandshakeInv

\* A server that has not accepted runs no handler.
LEMMA NoServer ==
  ASSUME IndInv, AcceptOK, Untouched
  PROVE  /\ ~RunSend("server") /\ ~RunClose("server") /\ ~Transfer("server")
         /\ ~WriteFails("server") /\ ~WriteError("server") /\ ~HeaderWritten("server")
         /\ ~BodyWritten("server") /\ ~NonceWritten("server") /\ ~Arrive("server")
         /\ ~ReadFails("server") /\ ~ReadError("server") /\ ~HeaderRead("server")
         /\ ~BodyRead("server") /\ ~ClientValidated /\ ~ClientRejected
         /\ ~Broadcast /\ ~ServerHandles
<1>1. ~RunSend("server") /\ ~RunClose("server")
  BY DEF AcceptOK, RunSend, RunClose
<1>2. /\ ~Transfer("server") /\ ~WriteFails("server") /\ ~WriteError("server")
      /\ ~HeaderWritten("server") /\ ~BodyWritten("server") /\ ~NonceWritten("server")
  <2>1. writes["server"] = <<>> /\ DOMAIN <<>> = {}
    BY DEF AcceptOK
  <2>2. QED
    BY <2>1 DEF Transfer, WriteFails, WriteError, HeaderWritten, BodyWritten, NonceWritten
<1>3. /\ ~Arrive("server") /\ ~ReadFails("server") /\ ~ReadError("server")
      /\ ~HeaderRead("server") /\ ~BodyRead("server") /\ ~ClientValidated /\ ~ClientRejected
  <2>1. reads["server"] = <<>> /\ DOMAIN <<>> = {}
    BY DEF AcceptOK
  <2>2. QED
    BY <2>1 DEF Arrive, ReadFails, ReadError, HeaderRead, BodyRead, ClientValidated,
                ClientRejected, HasRead
<1>4. ~ServerHandles
  <2>1. handled["server"] \in Nat /\ Len(recv["server"]) = 0
    BY DEF AcceptOK, IndInv, RestOK, Ends
  <2>2. QED
    BY <2>1 DEF ServerHandles
<1>5. ~Broadcast
  BY DEF Broadcast, Untouched
<1>6. QED
  BY <1>1, <1>2, <1>3, <1>4, <1>5

LEMMA OpenedStays ==
  ASSUME IndInv, [Next]_vars, NEW e \in Ends, Opened(e)
  PROVE  Opened(e)'
  BY StreamGrows DEF Opened

LEMMA AcceptStays ==
  ASSUME IndInv, AcceptOK, [Next]_vars
  PROVE  AcceptOK'
<1>1. CASE Accept
  BY <1>1 DEF Accept, AcceptHandler, AcceptOK, Untouched, IndInv, RestOK, Ends
<1>2. CASE IdExists \/ AcceptFails
  <2>1. accepted' = "never" /\ socket'["server"] \in {"open", "closed"}
    BY <1>2 DEF IdExists, AcceptFails, IndInv, RestOK, Ends
  <2>2. QED
    BY <2>1 DEF AcceptOK, Untouched
<1>3. CASE ListenerStops
  BY <1>3 DEF ListenerStops, AcceptOK, Untouched, ioVars, appVars
<1> DEFINE Others == ~Accept /\ ~IdExists /\ ~AcceptFails /\ ~ListenerStops
<1>4. CASE Others /\ ~Untouched
  <2>1. /\ accepted' = accepted /\ (linked => linked') /\ socket'["server"] # "none"
    <3>1. RunClose("server") => socket'["server"] = "closed"
      BY DEF RunClose, IndInv, RestOK, Ends
    <3>2. QED
      BY <1>4, <3>1, LinkChange DEF Untouched
  <2>2. QED
    BY <1>4, <2>1 DEF AcceptOK, Untouched
<1>5. CASE Others /\ Untouched
  <2>1. /\ DOMAIN tasks = Ends /\ DOMAIN writes = Ends /\ DOMAIN reads = Ends
        /\ DOMAIN sent = Ends
    BY DEF IndInv, TasksOK, WritesOK, ReadsOK, RestOK
  <2> DEFINE Same == /\ tasks'["server"] = tasks["server"]
                     /\ writes'["server"] = writes["server"]
                     /\ reads'["server"] = reads["server"]
                     /\ stream'["server"] = stream["server"]
                     /\ taken'["server"] = taken["server"]
                     /\ recv'["server"] = recv["server"]
                     /\ sent'["server"] = sent["server"]
                     /\ validated' = validated
  <2>2. UNCHANGED vars \/ Reset("server") => Same
    BY DEF vars, ioVars, appVars, Reset
  <2>3. ConnectToServer \/ LinkUp \/ Refuse \/ ConnectDone \/ Expire \/ ClientHandles => Same
    BY <2>1 DEF ConnectToServer, LinkUp, Refuse, ConnectDone, Expire, ClientHandles, ioVars, appVars, Ends
  <2>4. ConnectTimeOut \/ PingServer \/ AnswerValidation => Same
    BY <2>1 DEF ConnectTimeOut, Disconnect, PingServer, Send, Post, AnswerValidation, ioVars, appVars, Ends
  <2>5. Kernel("client") \/ Handlers("client") \/ Quit("client") => Same
    BY OtherEnd DEF Ends
  <2>6. Kernel("server") => Reset("server")
    BY <1>5, NoServer DEF Kernel
  <2>7. ~Handlers("server")
    BY <1>5, NoServer DEF Handlers
  <2>8. Quit("server") => Same
    BY <1>5, <2>1 DEF AcceptOK, Quit, appVars, Ends
  <2>9. Same
    <3>1. ~ClientValidated /\ ~ClientRejected /\ ~Broadcast /\ ~ServerHandles
      BY <1>5, NoServer
    <3> HIDE DEF Same
    <3>2. QED
      BY <1>5, <2>2, <2>3, <2>4, <2>5, <2>6, <2>7, <2>8, <3>1, ConnectionAssumption DEF Next, Ends
  <2>10. /\ accepted' = accepted
         /\ socket'["server"] = socket["server"] \/ socket'["server"] = "gone"
    BY <1>5, LinkChange, NoServer
  <2>11. linked => linked'
    BY LinkChange
  <2>12. QED
    BY <1>5, <2>9, <2>10, <2>11 DEF AcceptOK, Untouched
<1>6. QED
  BY <1>1, <1>2, <1>3, <1>4, <1>5

\* The outcome is all that finishing and aborting change.
LEMMA FinishOutcome ==
  ASSUME NEW s \in Seq(WriteOps), NEW i \in DOMAIN s, NEW ec \in Results
  PROVE  /\ Len(Finish(s, i, ec)) = Len(s) /\ Finish(s, i, ec)[i].ec = ec
         /\ \A j \in 1..Len(s) : j # i => Finish(s, i, ec)[j] = s[j]
<1>1. s \in [1..Len(s) -> WriteOps] /\ Len(s) \in Nat /\ i \in 1..Len(s)
  OBVIOUS
<1>2. Finish(s, i, ec)[i].ec = ec
  BY <1>1 DEF Finish, WriteOps
<1>3. \A j \in 1..Len(s) : j # i => Finish(s, i, ec)[j] = s[j]
  BY <1>1 DEF Finish
<1>4. QED
  BY <1>2, <1>3, FinishWrite

LEMMA AbortOutcome ==
  ASSUME NEW s \in Seq(WriteOps)
  PROVE  \A j \in 1..Len(s) :
            IF s[j].ec = "pending" THEN Abort(s)[j].ec = "failed" ELSE Abort(s)[j] = s[j]
<1>1. s \in [1..Len(s) -> WriteOps] /\ Len(s) \in Nat
  OBVIOUS
<1>2. QED
  BY <1>1 DEF Abort, WriteOps

LEMMA ZeroQueue ==
  ASSUME NEW s \in Seq(WriteOps), Zero(s)
  PROVE  /\ s # <<>> => Zero(Tail(s)) /\ Tail(s) \in Seq(WriteOps)
         /\ \A x \in WriteOps : (x.op = "nonce" => x.n = 0) => Zero(Append(s, x))
         /\ Zero(Abort(s))
         /\ \A i \in DOMAIN s, ec \in Results : Zero(Finish(s, i, ec))
<1>1. s # <<>> => Zero(Tail(s)) /\ Tail(s) \in Seq(WriteOps)
  BY DEF Zero
<1>2. ASSUME NEW x \in WriteOps, x.op = "nonce" => x.n = 0 PROVE Zero(Append(s, x))
  BY <1>2 DEF Zero
<1>3. Zero(Abort(s))
  BY AbortWrite DEF Zero
<1>4. ASSUME NEW i \in DOMAIN s, NEW ec \in Results PROVE Zero(Finish(s, i, ec))
  <2>1. /\ Len(Finish(s, i, ec)) = Len(s)
        /\ \A j \in 1..Len(s) : /\ Finish(s, i, ec)[j].op = s[j].op
                                /\ Finish(s, i, ec)[j].n = s[j].n
    BY <1>4, FinishWrite
  <2>2. QED
    BY <2>1 DEF Zero
<1>5. QED
  BY <1>1, <1>2, <1>3, <1>4

\* The client answers with the number it has read, the server's.
LEMMA AnswerIsZero ==
  ASSUME IndInv, HandshakeInv, AnswerValidation, accepted # "never"
  PROVE  MessageNumber(Head(reads["client"]).data) = 0
<1>1. /\ reads["client"] # <<>> /\ Head(reads["client"]).ec = "ok"
      /\ Head(reads["client"]).op = "nonce" /\ "client" \in Ends /\ Peer("client") = "server"
  BY DEF AnswerValidation, HasRead, Ends, Peer
<1>2. Head(reads["client"]) = reads["client"][1]
  BY <1>1, ReadHandled
<1>3. Len(stream["server"]) >= 2 /\ Head(reads["client"]).data[1] = stream["server"][1]
  BY <1>1, <1>2 DEF HandshakeInv, FirstReadOK, NumberRead
<1>4. stream["server"] # <<>> /\ accepted = "yes"
  BY <1>3 DEF HandshakeInv, AcceptOK, Untouched, IndInv, RestOK
<1>5. stream["server"][1] = <<0, 1>>
  BY <1>4 DEF HandshakeInv, FirstWriteOK, Opened
<1>6. QED
  BY <1>3, <1>5 DEF MessageNumber

LEMMA ZeroStays ==
  ASSUME IndInv, HandshakeInv, [Next]_vars
  PROVE  NumbersZero'
<1>0. CASE Accept
  <2>1. /\ Zero(writes["client"]) /\ accepted = "no"
    <3>1. accepted = "no"
      BY <1>0 DEF Accept, AcceptHandler
    <3>2. taken["client"] < 2
      BY <3>1 DEF HandshakeInv, AcceptOK, Untouched, Unserved, LittleRead, IndInv, RestOK, Ends
    <3>3. QED
      BY <3>1, <3>2 DEF HandshakeInv, Unserved, LittleRead, NoNonce, Zero
  <2>2. /\ writes'["client"] = writes["client"]
        /\ writes'["server"] = <<[op |-> "nonce", n |-> 0, ec |-> "pending"]>>
    BY <1>0 DEF Accept, IndInv, WritesOK, Ends
  <2>3. Zero(writes'["server"])
    BY <2>2 DEF Zero
  <2>4. QED
    BY <2>1, <2>2, <2>3 DEF NumbersZero, AllZero, Ends
<1> SUFFICES ASSUME accepted' = "yes", ~Accept PROVE AllZero'
  BY <1>0 DEF NumbersZero
<1> USE DEF AllZero
<1>1. /\ writes \in [Ends -> Seq(WriteOps)] /\ AllZero /\ accepted # "never"
      /\ "ok" \in Results /\ "failed" \in Results
  BY LinkChange DEF IndInv, WritesOK, HandshakeInv, NumbersZero, Results
<1>2. ASSUME NEW e \in Ends, NEW s, Zero(s), writes' = [writes EXCEPT ![e] = s]
      PROVE AllZero'
  BY <1>1, <1>2
<1>3. Zero(<<>>)
  BY DEF Zero
<1>4. ASSUME NEW e \in Ends, Transfer(e) \/ WriteFails(e) PROVE AllZero'
  <2>1. PICK i \in DOMAIN writes[e], ec \in Results : writes' = [writes EXCEPT ![e] = Finish(writes[e], i, ec)]
    BY <1>1, <1>4 DEF Transfer, WriteFails
  <2>2. QED
    BY <1>1, <1>2, <2>1, ZeroQueue
<1>5. ASSUME NEW e \in Ends, RunSend(e) PROVE AllZero'
  <2>1. PICK n \in 1..Len(sent[e]) : writes' = [writes EXCEPT ![e] = Append(writes[e], Write(e, "header", n))]
    BY <1>5, RunSendEffect
  <2>2. n \in Nat
    BY DEF IndInv, RestOK
  <2>3. QED
    BY <1>1, <1>2, <2>1, <2>2, ZeroQueue, OpsTyped
<1>6. ASSUME NEW e \in Ends, RunClose(e) \/ Quit(e) PROVE AllZero'
  BY <1>1, <1>2, <1>3, <1>6, ZeroQueue DEF RunClose, Quit
<1>7. ASSUME NEW e \in Ends, HeaderWritten(e) PROVE AllZero'
  <2>1. writes[e] # <<>> /\ Head(writes[e]).n \in Nat
    BY <1>7, WriteRemoved DEF HeaderWritten, WriteOps
  <2>2. /\ Write(e, "body", Head(writes[e]).n) \in WriteOps
        /\ Write(e, "body", Head(writes[e]).n).op # "nonce"
    BY <2>1, OpsTyped
  <2>3. Zero(Tail(writes[e])) /\ Tail(writes[e]) \in Seq(WriteOps)
    BY <1>1, <2>1, ZeroQueue
  <2>4. Zero(Append(Tail(writes[e]), Write(e, "body", Head(writes[e]).n)))
    BY <2>2, <2>3, ZeroQueue
  <2>5. QED
    BY <1>2, <1>7, <2>3, <2>4, HeaderWrittenEffect
<1>8. ASSUME NEW e \in Ends, WriteError(e) \/ BodyWritten(e) \/ NonceWritten(e) PROVE AllZero'
  <2>1. writes[e] # <<>> /\ writes' = [writes EXCEPT ![e] = Tail(writes[e])]
    BY <1>8, BodyWrittenEffect DEF WriteError, BodyWritten, NonceWritten
  <2>2. QED
    BY <1>1, <1>2, <2>1, ZeroQueue
<1>9. CASE AnswerValidation
  <2>1. "client" \in Ends /\ 0 \in Nat
    BY DEF Ends
  <2>2. writes' = [writes EXCEPT !["client"] = Append(writes["client"], Write("client", "nonce", 0))]
    BY <1>1, <1>9, AnswerIsZero DEF AnswerValidation
  <2>3. QED
    BY <1>1, <1>2, <2>1, <2>2, ZeroQueue, OpsTyped
<1>10. QED
  BY <1>1, <1>4, <1>5, <1>6, <1>7, <1>8, <1>9, EndChanges DEF ChangesAt

\* The server's number stays in front until it is written.
LEMMA FirstWriteStays ==
  ASSUME IndInv, HandshakeInv, [Next]_vars
  PROVE  FirstWriteOK'
<1>1. /\ writes \in [Ends -> Seq(WriteOps)] /\ stream \in [Ends -> Words] /\ "server" \in Ends
      /\ FirstWriteOK /\ AcceptOK /\ NumbersZero
  BY DEF IndInv, WritesOK, RestOK, HandshakeInv, Ends
<1> SUFFICES ASSUME accepted' = "yes"
             PROVE  FirstWriteOK'
  BY DEF FirstWriteOK
<1>2. Accept \/ accepted = "yes"
  BY LinkChange
<1>3. Accept => stream["server"] = <<>>
  BY <1>1 DEF Accept, AcceptHandler, AcceptOK, Untouched
<1>4. CASE Accept
  <2>1. writes'["server"] = <<[op |-> "nonce", n |-> 0, ec |-> "pending"]>>
    BY <1>1, <1>4 DEF Accept
  <2>2. stream'["server"] = <<>>
    BY <1>3, <1>4 DEF Accept
  <2>3. QED
    BY <2>1, <2>2 DEF FirstWriteOK, NumberWaits
<1>5. CASE Transfer("server") /\ accepted = "yes"
  <2>1. PICK i \in DOMAIN writes["server"] :
          /\ IsFirstPending(writes["server"], i)
          /\ stream' = [stream EXCEPT !["server"] = @ \o WordsOf("server", writes["server"][i])]
    BY <1>5 DEF Transfer
  <2>2. stream'["server"] = stream["server"] \o WordsOf("server", writes["server"][i])
    BY <1>1, <2>1
  <2>3. CASE stream["server"] = <<>>
    <3>1. NumberWaits(writes["server"])
      BY <1>1, <1>5, <2>3 DEF Transfer, FirstWriteOK
    <3>2. i = 1
      <4>1. i \in 1..Len(writes["server"]) /\ Len(writes["server"]) \in Nat
        BY <1>1
      <4>2. i # 1 => 1 \in 1..(i - 1)
        BY <4>1
      <4>3. QED
        BY <2>1, <3>1, <4>2 DEF IsFirstPending, NumberWaits
    <3>3. WordsOf("server", writes["server"][i]) = Pair(0)
      BY <3>1, <3>2 DEF WordsOf, NumberWaits, Answer
    <3>4. stream'["server"] = Pair(0)
      BY <2>2, <2>3, <3>3 DEF Pair
    <3>5. Opened("server")' /\ stream'["server"] # <<>>
      BY <3>4 DEF Opened, Pair
    <3>6. QED
      BY <3>5 DEF FirstWriteOK
  <2>4. CASE Opened("server")
    <3>1. Opened("server")'
      BY <1>1, <2>4, OpenedStays
    <3>2. stream'["server"] # <<>>
      BY <3>1, StreamGrows DEF Opened
    <3>3. QED
      BY <3>1, <3>2 DEF FirstWriteOK
  <2>5. QED
    BY <1>1, <1>5, <2>3, <2>4 DEF FirstWriteOK
<1>6. CASE ~Accept /\ ~Transfer("server") /\ accepted = "yes"
  <2>1. stream'["server"] = stream["server"]
    BY <1>1, <1>6, EndChanges DEF ChangesAt
  <2>2. SUFFICES ASSUME socket'["server"] = "open", stream["server"] = <<>>, "server" \notin reset'
                 PROVE  NumberWaits(writes'["server"])
    BY <1>1, <1>6, <2>1 DEF FirstWriteOK, Opened
  <2>3. ~RunClose("server") /\ ~Quit("server")
    BY <1>1, <2>2 DEF RunClose, Quit, IndInv, RestOK
  <2>4. socket["server"] = "open" /\ "server" \notin reset /\ linked
    <3>1. ~IdExists /\ ~AcceptFails
      BY <1>6 DEF IdExists, AcceptFails, AcceptHandler
    <3>2. QED
      BY <1>6, <2>2, <2>3, <3>1, <1>1, LinkChange DEF AcceptOK
  <2>5. NumberWaits(writes["server"])
    BY <1>1, <1>6, <2>2, <2>4 DEF FirstWriteOK
  <2>6. Head(writes["server"]).ec = "pending" /\ writes["server"] # <<>>
    BY <1>1, <2>5 DEF NumberWaits
  <2>7. /\ ~WriteFails("server") /\ ~WriteError("server") /\ ~HeaderWritten("server")
        /\ ~BodyWritten("server") /\ ~NonceWritten("server")
    BY <2>4, <2>6 DEF WriteFails, WriteError, HeaderWritten, BodyWritten, NonceWritten
  <2>8. CASE RunSend("server")
    <3>1. PICK n \in 1..Len(sent["server"]) :
            writes' = [writes EXCEPT !["server"] = Append(writes["server"], Write("server", "header", n))]
      BY <1>1, <2>8, RunSendEffect
    <3>2. n \in Nat /\ Write("server", "header", n) \in WriteOps
      BY <1>1, OpsTyped DEF IndInv, RestOK
    <3>3. writes'["server"] = Append(writes["server"], Write("server", "header", n))
      BY <1>1, <3>1
    <3>4. QED
      BY <1>1, <2>5, <3>2, <3>3 DEF NumberWaits
  <2>9. QED
    BY <1>1, <1>6, <2>3, <2>5, <2>7, <2>8, EndChanges DEF ChangesAt
<1>7. QED
  BY <1>2, <1>4, <1>5, <1>6

\* Nothing that is read changes: words are only added.
LEMMA NumberReadStays ==
  ASSUME IndInv, [Next]_vars, NEW f \in Ends, NEW r, NEW t, NumberRead(r, f, t)
  PROVE  r.op = "nonce" =>
           IF r.ec = "ok"
           THEN Len(stream'[f]) >= 2 /\ r.data[1] = stream'[f][1] /\ r.data[2] = stream'[f][2]
           ELSE t = 0
  BY StreamGrows DEF NumberRead

\* The words read first are the first on the wire.
LEMMA FirstWordsRead ==
  ASSUME NEW s \in Words, Len(s) >= 2
  PROVE  /\ SubSeq(s, 1, 2) \in Words /\ Len(SubSeq(s, 1, 2)) = 2
         /\ SubSeq(s, 1, 2)[1] = s[1] /\ SubSeq(s, 1, 2)[2] = s[2]
  BY DEF Words

\* After a header or a body, a read of a header or a body waits.
LEMMA NextReadWaits ==
  ASSUME IndInv, NEW e \in Ends, HeaderRead(e) \/ BodyRead(e)
  PROVE  \E op \in {"header", "body"} : \E len, head : reads'[e] = <<Read(e, op, len, head)>>
<1>1. DOMAIN reads = Ends
  BY DEF IndInv, ReadsOK
<1>2. CASE HeaderRead(e)
  <2> DEFINE r == reads[e][1]
  <2>1. \/ \E size : reads' = [reads EXCEPT ![e] = <<Read(e, "body", size, r.data)>>]
        \/ reads' = [reads EXCEPT ![e] = <<Read(e, "header", PairLen, <<>>)>>]
    BY <1>2, HeaderReadEffect
  <2>2. \/ \E size : reads'[e] = <<Read(e, "body", size, r.data)>>
        \/ reads'[e] = <<Read(e, "header", PairLen, <<>>)>>
    BY <1>1, <2>1
  <2>3. QED
    BY <2>2
<1>3. CASE BodyRead(e)
  <2>1. reads'[e] = <<Read(e, "header", PairLen, <<>>)>>
    BY <1>1, <1>3, BodyReadEffect
  <2>2. QED
    BY <2>1
<1>4. QED
  BY <1>2, <1>3

LEMMA ReadAborted ==
  ASSUME IndInv, NEW e \in Ends, reads'[e] = Abort(reads[e])
  PROVE  reads'[e] # <<>> => reads[e] # <<>> /\ reads'[e][1].op = reads[e][1].op
<1>1. reads[e] \in ReadQueues
  BY DEF IndInv, ReadsOK
<1>2. CASE reads[e] = <<>>
  BY <1>1, <1>2, ReadQueueAbort
<1>3. CASE reads[e] # <<>>
  <2>1. reads[e] = <<reads[e][1]>> /\ reads[e][1] \in ReadOps
    BY <1>3, ReadHandled
  <2>2. \/ reads'[e][1] = reads[e][1]
        \/ reads'[e][1] = [reads[e][1] EXCEPT !.ec = "failed"]
    BY <2>1 DEF Abort
  <2>3. QED
    BY <1>3, <2>1, <2>2 DEF ReadOps
<1>4. QED
  BY <1>2, <1>3

\* The kernel finishes a read of some kind: the read is still there.
LEMMA ReadSettled ==
  ASSUME IndInv, NEW e \in Ends, Arrive(e) \/ ReadFails(e)
  PROVE  reads[e] # <<>> /\ reads'[e] # <<>> /\ reads'[e][1].op = reads[e][1].op
<1> DEFINE r == reads[e][1]
<1>1. DOMAIN reads = Ends
  BY DEF IndInv, ReadsOK
<1>2. CASE Arrive(e)
  <2> DEFINE data == SubSeq(stream[Peer(e)], taken[e] + 1, taken[e] + r.len)
  <2>1. /\ reads[e] = <<r>> /\ r \in ReadOps
        /\ reads' = [reads EXCEPT ![e] = <<[r EXCEPT !.ec = "ok", !.data = data]>>]
    BY <1>2, ArriveEffect
  <2> HIDE DEF data
  <2>2. reads'[e] = <<[r EXCEPT !.ec = "ok", !.data = data]>>
    BY <1>1, <2>1
  <2>3. [r EXCEPT !.ec = "ok", !.data = data].op = r.op
    BY <2>1 DEF ReadOps
  <2>4. QED
    BY <2>1, <2>2, <2>3
<1>3. CASE ReadFails(e)
  <2>1. /\ reads[e] = <<r>> /\ r \in ReadOps
        /\ reads' = [reads EXCEPT ![e] = <<[r EXCEPT !.ec = "failed"]>>]
    BY <1>3, ReadFailsEffect
  <2>2. reads'[e] = <<[r EXCEPT !.ec = "failed"]>>
    BY <1>1, <2>1
  <2>3. [r EXCEPT !.ec = "failed"].op = r.op
    BY <2>1 DEF ReadOps
  <2>4. QED
    BY <2>1, <2>2, <2>3
<1>4. QED
  BY <1>2, <1>3

LEMMA FirstReadStays ==
  ASSUME IndInv, HandshakeInv, [Next]_vars
  PROVE  FirstReadOK'
<1>1. /\ reads \in [Ends -> ReadQueues] /\ taken \in [Ends -> Nat] /\ stream \in [Ends -> Words]
      /\ FirstReadOK /\ AcceptOK /\ "client" \in Ends /\ "server" \in Ends
      /\ \A e \in Ends : Peer(e) \in Ends
  BY DEF IndInv, ReadsOK, RestOK, HandshakeInv, Ends, Peer
<1>2. connect' \in {"no", "pending", "ok"} => taken'["client"] = 0
  <2> SUFFICES ASSUME connect' \in {"no", "pending", "ok"} PROVE taken'["client"] = 0
    OBVIOUS
  <2>1. connect \in {"no", "pending", "ok"}
    BY LinkChange
  <2>2. taken["client"] = 0 /\ reads["client"] = <<>>
    BY <1>1, <2>1 DEF FirstReadOK, IndInv, TurnsOK
  <2>3. ~Arrive("client")
    BY <2>2 DEF Arrive
  <2>4. QED
    BY <1>1, <2>2, <2>3, EndChanges DEF ChangesAt
<1> SUFFICES ASSUME NEW e \in Ends, reads'[e] # <<>>
             PROVE  NumberRead(reads[e][1], Peer(e), taken[e])'
  BY <1>2 DEF FirstReadOK
<1> DEFINE Known(r, t) ==
      r.op = "nonce" =>
        IF r.ec = "ok"
        THEN /\ Len(stream'[Peer(e)]) >= 2
             /\ r.data[1] = stream'[Peer(e)][1] /\ r.data[2] = stream'[Peer(e)][2]
        ELSE t = 0
<1>3. reads[e] # <<>> => Known(reads[e][1], taken[e])
  BY <1>1, NumberReadStays DEF FirstReadOK
<1>4. SUFFICES Known(reads'[e][1], taken'[e])
  BY DEF NumberRead, Peer
<1>5. CASE Arrive(e)
  <2> DEFINE r == reads[e][1]
             last == taken[e] + r.len
             data == SubSeq(stream[Peer(e)], taken[e] + 1, last)
  <2>1. /\ reads[e] = <<r>> /\ r \in ReadOps /\ WellRead(r) /\ r.ec = "pending"
        /\ last <= Len(stream[Peer(e)])
        /\ taken' = [taken EXCEPT ![e] = last]
        /\ reads' = [reads EXCEPT ![e] = <<[r EXCEPT !.ec = "ok", !.data = data]>>]
    BY <1>5, ArriveEffect
  <2>2. reads'[e][1] = [r EXCEPT !.ec = "ok", !.data = data]
    BY <1>1, <2>1
  <2>3. reads'[e][1].op = r.op /\ reads'[e][1].ec = "ok" /\ reads'[e][1].data = data
    BY ZenonT(40), <2>1, <2>2 DEF ReadOps
  <2>4. CASE r.op = "nonce"
    <3>1. taken[e] = 0 /\ r.len = 2
      BY <1>3, <2>1, <2>4 DEF WellRead, PairLen
    <3>2. data = SubSeq(stream[Peer(e)], 1, 2) /\ Len(stream[Peer(e)]) >= 2
      BY <2>1, <3>1
    <3>3. data[1] = stream[Peer(e)][1] /\ data[2] = stream[Peer(e)][2]
      BY <1>1, <3>2, FirstWordsRead
    <3>4. Len(stream'[Peer(e)]) >= 2 /\ stream'[Peer(e)][1] = stream[Peer(e)][1]
            /\ stream'[Peer(e)][2] = stream[Peer(e)][2]
      <4>1. Len(stream[Peer(e)]) \in Nat
        BY <1>1, StreamGrows
      <4>2. 1 \in 1..Len(stream[Peer(e)]) /\ 2 \in 1..Len(stream[Peer(e)])
        BY <3>2, <4>1
      <4>3. QED
        BY <1>1, <3>2, <4>2, StreamGrows
    <3>5. QED
      BY <2>3, <3>3, <3>4
  <2>5. QED
    BY <2>3, <2>4
<1>6. CASE ~Arrive(e) /\ reads'[e] = reads[e]
  BY <1>3, <1>6, EndChanges DEF ChangesAt
<1>7. CASE ReadFails(e)
  <2> DEFINE r == reads[e][1]
  <2>1. /\ reads[e] = <<r>> /\ r \in ReadOps /\ r.ec = "pending"
        /\ reads' = [reads EXCEPT ![e] = <<[r EXCEPT !.ec = "failed"]>>] /\ taken' = taken
    BY <1>7, ReadFailsEffect DEF ReadFails
  <2>2. reads'[e][1] = [r EXCEPT !.ec = "failed"]
    BY <1>1, <2>1
  <2>3. reads'[e][1].op = r.op /\ reads'[e][1].ec = "failed"
    BY <2>1, <2>2 DEF ReadOps
  <2>4. QED
    BY <1>3, <2>1, <2>3
<1>8. CASE RunClose(e)
  <2>1. reads'[e] = Abort(reads[e]) /\ taken' = taken /\ reads[e] # <<>>
    BY <1>1, <1>8, ReadQueueAbort DEF RunClose, Abort
  <2> DEFINE r == reads[e][1]
  <2>2. reads[e] = <<r>> /\ r \in ReadOps
    BY <2>1, ReadHandled
  <2>3. \/ reads'[e][1] = r
        \/ r.ec = "pending" /\ reads'[e][1] = [r EXCEPT !.ec = "failed"]
    BY <2>1, <2>2 DEF Abort
  <2>4. \/ reads'[e][1] = r
        \/ r.ec = "pending" /\ reads'[e][1].op = r.op /\ reads'[e][1].ec = "failed"
    BY <2>2, <2>3 DEF ReadOps
  <2>5. QED
    BY <1>3, <2>1, <2>4
<1>9. ASSUME NEW op, NEW len, NEW head, reads'[e] = <<Read(e, op, len, head)>>, op # "nonce"
      PROVE  Known(reads'[e][1], taken'[e])
  BY <1>9 DEF Read
<1>10. CASE HeaderRead(e) \/ BodyRead(e)
  BY <1>9, <1>10, NextReadWaits
<1>11. CASE NonceWritten(e)
  <2>1. CASE e = "client"
    <3>1. reads[e] = <<>>
      BY <1>11, <2>1, WriteRemoved DEF NonceWritten, IndInv, TurnsOK
    <3>2. reads'[e] = <<Read(e, "header", PairLen, <<>>)>>
      BY <1>1, <1>11, <2>1, <3>1, AppendToNone DEF NonceWritten
    <3>3. QED
      BY <1>9, <3>2
  <2>2. CASE e # "client"
    BY <1>3, <1>11, <2>2 DEF NonceWritten
  <2>3. QED
    BY <2>1, <2>2
<1>12. CASE \/ ReadError(e) \/ Quit(e) \/ (e = "client" /\ AnswerValidation)
            \/ (e = "server" /\ ClientRejected)
  <2>1. reads'[e] = <<>>
    BY <1>1, <1>12, ReadQueueHead DEF ReadError, Quit, AnswerValidation, ClientRejected, HasRead
  <2>2. QED
    BY <2>1
<1>13. CASE e = "client" /\ ConnectDone
  <2>1. connect = "ok" /\ taken' = taken
    BY <1>13 DEF ConnectDone
  <2>2. reads[e] = <<>> /\ taken[e] = 0
    BY <1>13, <2>1 DEF IndInv, TurnsOK, FirstReadOK, HandshakeInv
  <2>3. reads'[e] = <<Read(e, "nonce", PairLen, <<>>)>>
    BY <1>1, <1>13, <2>2, AppendToNone DEF ConnectDone
  <2>4. reads'[e][1].ec # "ok"
    BY <2>3 DEF Read, Started
  <2>5. QED
    BY <2>1, <2>2, <2>4
<1>14. CASE e = "server" /\ Accept
  <2>1. /\ reads'[e] = <<[op |-> "nonce", len |-> PairLen, head |-> <<>>,
                          data |-> <<>>, ec |-> "pending"]>>
        /\ taken'[e] = 0
    BY <1>1, <1>14 DEF Accept, AcceptHandler, AcceptOK, Untouched
  <2>2. QED
    BY <2>1
<1>15. CASE e = "server" /\ ClientValidated
  <2>1. reads[e] # <<>>
    BY <1>15 DEF ClientValidated, HasRead
  <2>2. reads'[e] = <<Read(e, "header", PairLen, <<>>)>>
    BY <1>1, <1>15, <2>1, ReadHandled DEF ClientValidated
  <2>3. reads'[e][1].op = "header"
    BY <2>2 DEF Read
  <2>4. QED
    BY <2>3
<1>16. \/ Arrive(e) \/ (~Arrive(e) /\ reads'[e] = reads[e]) \/ ReadFails(e) \/ RunClose(e)
       \/ HeaderRead(e) \/ BodyRead(e) \/ NonceWritten(e) \/ ReadError(e) \/ Quit(e)
       \/ (e = "client" /\ AnswerValidation) \/ (e = "server" /\ ClientRejected)
       \/ (e = "client" /\ ConnectDone) \/ (e = "server" /\ Accept)
       \/ (e = "server" /\ ClientValidated)
  BY EndChanges DEF ChangesAt
<1>17. QED
  BY <1>5, <1>6, <1>7, <1>8, <1>10, <1>11, <1>12, <1>13, <1>14, <1>15, <1>16

\* The server hears nothing before the right answer, and takes one answer.
LEMMA HeardStays ==
  ASSUME IndInv, HandshakeInv, [Next]_vars
  PROVE  HeardOK'
<1> DEFINE e == "server"
<1>1. /\ reads \in [Ends -> ReadQueues] /\ recv \in [Ends -> Seq(Words)] /\ e \in Ends
      /\ stream \in [Ends -> Words] /\ "client" \in Ends /\ Peer(e) = "client"
      /\ HeardOK /\ AcceptOK /\ FirstReadOK
  BY DEF IndInv, ReadsOK, RestOK, HandshakeInv, Ends, Peer
<1>2. Opened("client") => Opened("client")'
  BY <1>1, OpenedStays
\* The read that the server has is of the same kind, or it has none.
<1>3. ASSUME recv'[e] = recv[e], validated' = validated,
             reads'[e] # <<>> => reads[e] # <<>> /\ reads'[e][1].op = reads[e][1].op
      PROVE  HeardOK'
  BY <1>1, <1>2, <1>3 DEF HeardOK
<1>4. CASE HeaderRead(e) \/ BodyRead(e)
  <2>1. reads[e] # <<>> /\ reads[e][1].op # "nonce" /\ validated' = validated
    BY <1>1, <1>4, HeaderReadEffect, BodyReadEffect DEF HeaderRead, BodyRead, HasRead
  <2>2. validated = "yes"
    BY <1>1, <2>1 DEF HeardOK
  <2>3. \E op \in {"header", "body"} : \E len, head : reads'[e] = <<Read(e, op, len, head)>>
    BY <1>1, <1>4, NextReadWaits
  <2>4. reads'[e] # <<>> /\ reads'[e][1].op # "nonce"
    BY <2>3 DEF Read
  <2>5. QED
    BY <1>1, <1>2, <2>1, <2>2, <2>4 DEF HeardOK
<1>5. CASE ClientValidated
  <2> DEFINE r == reads[e][1]
  <2>1. /\ reads[e] # <<>> /\ Head(reads[e]).op = "nonce" /\ Head(reads[e]).ec = "ok"
        /\ Head(reads[e]).data = Pair(0) /\ validated' = "yes"
        /\ reads'[e] = Append(Tail(reads[e]), Read(e, "header", PairLen, <<>>))
    BY <1>1, <1>5 DEF ClientValidated, HasRead
  <2>2. Head(reads[e]) = r /\ reads'[e] = <<Read(e, "header", PairLen, <<>>)>>
    BY <1>1, <2>1, ReadHandled
  <2>3. Opened("client")
    <3>1. /\ Len(stream["client"]) >= 2
          /\ r.data[1] = stream["client"][1] /\ r.data[2] = stream["client"][2]
      BY <1>1, <2>1, <2>2 DEF FirstReadOK, NumberRead
    <3>2. r.data = <<<<0, 1>>, <<0, 2>>>>
      BY <2>1, <2>2 DEF Pair
    <3>3. QED
      BY <3>1, <3>2 DEF Opened
  <2>4. reads'[e][1].op = "header"
    BY <2>2 DEF Read
  <2>5. QED
    BY <1>2, <2>1, <2>3, <2>4 DEF HeardOK
<1>6. CASE ClientRejected
  <2>1. /\ reads[e] # <<>> /\ Head(reads[e]).op = "nonce" /\ validated' = "rejected"
        /\ reads'[e] = Tail(reads[e]) /\ recv' = recv
    BY <1>1, <1>6 DEF ClientRejected, HasRead
  <2>2. reads[e][1].op = "nonce" /\ reads'[e] = <<>>
    BY <1>1, <2>1, ReadHandled, ReadQueueHead
  <2>3. validated = "no" /\ recv[e] = <<>>
    BY <1>1, <2>1, <2>2 DEF HeardOK, IndInv, RestOK
  <2>4. QED
    BY <2>1, <2>2, <2>3 DEF HeardOK
<1>7. CASE Accept
  <2>1. /\ reads'[e] = <<[op |-> "nonce", len |-> PairLen, head |-> <<>>,
                          data |-> <<>>, ec |-> "pending"]>>
        /\ recv'[e] = <<>> /\ validated' = "no"
    BY <1>1, <1>7 DEF Accept, AcceptHandler, AcceptOK, Untouched
  <2>2. QED
    BY <2>1 DEF HeardOK
<1> DEFINE Others == ~HeaderRead(e) /\ ~BodyRead(e) /\ ~ClientValidated /\ ~ClientRejected /\ ~Accept
<1>8. CASE Others
  <2>1. recv'[e] = recv[e] /\ validated' = validated
    BY <1>1, <1>8, EndChanges DEF ChangesAt
  <2>2. CASE reads'[e] = reads[e]
    BY <1>3, <2>1, <2>2
  <2>3. CASE Arrive(e) \/ ReadFails(e)
    BY <1>1, <1>3, <2>1, <2>3, ReadSettled
  <2>4. CASE RunClose(e)
    <3>1. reads'[e] = Abort(reads[e])
      BY <1>1, <2>4 DEF RunClose
    <3>2. QED
      BY <1>1, <1>3, <2>1, <3>1, ReadAborted
  <2>5. CASE ReadError(e) \/ Quit(e)
    <3>1. reads'[e] = <<>>
      BY <1>1, <2>5, ReadQueueHead DEF ReadError, Quit
    <3>2. QED
      BY <1>3, <2>1, <3>1
  <2>6. CASE NonceWritten(e)
    BY <1>3, <2>1, <2>6 DEF NonceWritten
  <2>7. QED
    BY <1>1, <1>8, <2>2, <2>3, <2>4, <2>5, <2>6, EndChanges DEF ChangesAt
<1>9. QED
  BY <1>4, <1>5, <1>6, <1>7, <1>8

\* A server that has written and read nothing yet, or one header, goes on so.
LEMMA ServerIdles ==
  ASSUME IndInv, HandshakeInv, [Next]_vars, accepted # "yes"
  PROVE  /\ ~Arrive("server") /\ ~ReadFails("server") /\ ~ReadError("server")
         /\ ~HeaderRead("server") /\ ~BodyRead("server") /\ ~ClientValidated /\ ~ClientRejected
         /\ ~Broadcast /\ ~ServerHandles
         /\ ~HeaderRead("client") /\ ~BodyRead("client")
         /\ ~BodyWritten("server") /\ ~NonceWritten("server")
<1>1. /\ Unserved /\ reads["server"] = <<>> /\ recv["server"] = <<>> /\ DOMAIN <<>> = {}
  BY DEF HandshakeInv, Unserved
<1>2. /\ ~Arrive("server") /\ ~ReadFails("server") /\ ~ReadError("server")
      /\ ~HeaderRead("server") /\ ~BodyRead("server") /\ ~ClientValidated /\ ~ClientRejected
  BY <1>1 DEF Arrive, ReadFails, ReadError, HeaderRead, BodyRead, ClientValidated,
              ClientRejected, HasRead
<1>3. ~Broadcast /\ ~ServerHandles
  <2>1. handled["server"] \in Nat /\ Len(recv["server"]) = 0
    BY <1>1 DEF IndInv, RestOK, Ends
  <2>2. QED
    BY <2>1 DEF Broadcast, ServerHandles
<1>4. ~HeaderRead("client") /\ ~BodyRead("client")
  <2>1. "client" \in Ends
    BY DEF Ends
  <2>2. reads["client"] # <<>> => Head(reads["client"]) = reads["client"][1]
    BY <2>1, ReadHandled
  <2>3. QED
    BY <1>1, <2>2 DEF Unserved, LittleRead, HeaderRead, BodyRead, HasRead
<1>5. ~BodyWritten("server") /\ ~NonceWritten("server")
  <2>1. writes["server"] \in Seq(WriteOps)
    BY DEF IndInv, WritesOK, Ends
  <2>2. writes["server"] # <<>> => Head(writes["server"]).op = "header"
    BY <1>1, <2>1 DEF Unserved, LittleWritten, OneHeader
  <2>3. QED
    BY <2>2 DEF BodyWritten, NonceWritten
<1>6. QED
  BY <1>2, <1>3, <1>4, <1>5

LEMMA SingleSeq ==
  ASSUME NEW S, NEW q \in Seq(S)
  PROVE  /\ Len(q) = 1 => q = <<q[1]>>
         /\ q = <<q[1]>> => Len(q) = 1 /\ DOMAIN q = {1}
<1>1. Len(q) = 1 => q = <<q[1]>>
  OBVIOUS
<1>2. ASSUME q = <<q[1]>> PROVE Len(q) = 1 /\ DOMAIN q = {1}
  <2>1. \A x : Len(<<x>>) = 1 /\ DOMAIN <<x>> = {1}
    OBVIOUS
  <2>2. QED
    BY <1>2, <2>1, Zenon
<1>3. QED
  BY <1>1, <1>2

LEMMA LittleWrittenStays ==
  ASSUME IndInv, HandshakeInv, [Next]_vars, accepted # "yes", accepted' # "yes"
  PROVE  LittleWritten'
<1> DEFINE s == "server"
<1>1. /\ s \in Ends /\ DOMAIN tasks = Ends /\ DOMAIN writes = Ends /\ DOMAIN stream = Ends
      /\ tasks[s] \in Seq(Tasks) /\ writes[s] \in Seq(WriteOps) /\ stream[s] \in Words
      /\ sent[s] \in Seq(Kinds)
  BY DEF IndInv, TasksOK, WritesOK, RestOK, Ends
<1>2. LittleWritten
  BY DEF HandshakeInv, Unserved
<1>3. ~Accept
  BY DEF Accept
<1>4. CASE IdExists
  <2>1. /\ tasks[s] = <<>> /\ writes[s] = <<>> /\ stream[s] = <<>> /\ sent[s] = <<>>
    BY <1>4 DEF IdExists, AcceptHandler, HandshakeInv, AcceptOK, Untouched
  <2>2. sent'[s] = <<"ServerAccept">> /\ writes'[s] = <<>> /\ stream'[s] = <<>>
    BY <1>1, <1>4, <2>1, AppendToNone DEF IdExists, ioVars, IndInv, RestOK
  <2>3. tasks'[s] = <<SendTask(1), CloseTask>>
    BY <1>1, <1>4, <2>1 DEF IdExists
  <2>4. OneSend(tasks'[s])
    BY <2>3 DEF OneSend, SendTask, CloseTask
  <2>5. QED
    BY <2>2, <2>4 DEF LittleWritten
<1>5. CASE ~IdExists
  <2>1. sent'[s] = sent[s]
    BY <1>3, <1>5, ProgramChanges, ServerIdles
  <2>2. tasks'[s] = tasks[s] \/ RunSend(s) \/ RunClose(s) \/ Quit(s) \/ Disconnect(s)
    <3>1. \A k : Send(s, k) => sent'[s] # sent[s]
      <4>1. \A k : Len(Append(sent[s], k)) = Len(sent[s]) + 1 /\ Len(sent[s]) \in Nat
        BY <1>1
      <4>2. \A k : Append(sent[s], k) # sent[s]
        BY <4>1
      <4>3. QED
        BY <1>1, <4>2 DEF Send, IndInv, RestOK
    <3>2. QED
      BY <1>1, <1>5, <2>1, <3>1, EndChanges DEF ChangesAt
  <2>3. /\ OneSend(tasks'[s])
        /\ Sending(tasks'[s]) => Sending(tasks[s]) /\ ~RunSend(s)
    <3>1. CASE tasks'[s] = tasks[s] /\ ~RunSend(s)
      BY <1>2, <3>1 DEF LittleWritten
    <3>2. CASE RunSend(s) \/ RunClose(s)
      <4>1. tasks[s] # <<>> /\ tasks'[s] = Tail(tasks[s])
        BY <1>1, <3>2 DEF RunSend, RunClose
      <4>2. /\ Len(Tail(tasks[s])) = Len(tasks[s]) - 1 /\ Len(tasks[s]) \in Nat
            /\ \A i \in 1..Len(Tail(tasks[s])) : Tail(tasks[s])[i] = tasks[s][i + 1]
            /\ Head(tasks[s]) = tasks[s][1]
        BY <1>1, <4>1
      <4>3. \A i \in 1..Len(tasks'[s]) : i + 1 \in 1..Len(tasks[s]) /\ tasks'[s][i] = tasks[s][i + 1]
        BY <4>1, <4>2
      <4>4. OneSend(tasks'[s]) /\ (Sending(tasks'[s]) => Sending(tasks[s]))
        <5>1. OneSend(tasks[s])
          BY <1>2 DEF LittleWritten
        <5>2. OneSend(tasks'[s])
          BY <4>1, <4>2, <4>3, <5>1 DEF OneSend
        <5>3. Sending(tasks'[s]) => Sending(tasks[s])
          BY <4>3 DEF Sending
        <5>4. QED
          BY <5>2, <5>3
      <4>5. RunSend(s) => ~Sending(tasks'[s])
        <5> SUFFICES ASSUME RunSend(s), NEW i \in 1..Len(tasks'[s]), tasks'[s][i].op = "send"
                     PROVE  FALSE
          BY DEF Sending
        <5>1. tasks[s][1].op = "send" /\ tasks[s][i + 1].op = "send"
          BY <4>2, <4>3 DEF RunSend
        <5>2. 1 \in 1..Len(tasks[s]) /\ i + 1 \in 1..Len(tasks[s]) /\ i + 1 # 1
          BY <4>2, <4>3
        <5>3. QED
          BY <1>2, <5>1, <5>2 DEF LittleWritten, OneSend
      <4>6. QED
        BY <4>4, <4>5
    <3>3. CASE Quit(s)
      <4>1. tasks'[s] = <<>>
        BY <1>1, <3>3 DEF Quit
      <4>2. QED
        BY <4>1 DEF OneSend, Sending
    <3>4. CASE Disconnect(s) /\ tasks'[s] # tasks[s] /\ ~RunSend(s)
      <4>1. tasks'[s] = Append(tasks[s], CloseTask) /\ CloseTask.op # "send"
        BY <1>1, <3>4 DEF Disconnect, Post, CloseTask
      <4>2. /\ Len(tasks'[s]) = Len(tasks[s]) + 1 /\ Len(tasks[s]) \in Nat
            /\ tasks'[s][Len(tasks[s]) + 1] = CloseTask
            /\ \A i \in 1..Len(tasks[s]) : tasks'[s][i] = tasks[s][i]
        BY <1>1, <4>1
      <4>3. \A i \in 1..Len(tasks'[s]) : tasks'[s][i].op = "send" =>
               i \in 1..Len(tasks[s]) /\ tasks[s][i].op = "send"
        BY <4>1, <4>2
      <4>4. QED
        BY <1>2, <3>4, <4>3 DEF LittleWritten, OneSend, Sending
    <3>5. QED
      BY <2>2, <3>1, <3>2, <3>3, <3>4
  <2> DEFINE w == writes[s][1]
             Good == /\ writes'[s] # <<>> => OneHeader(writes'[s])
                     /\ writes'[s] # <<>> /\ writes'[s][1].ec = "pending" => stream'[s] = <<>>
                     /\ stream'[s] \in {<<>>, Pair(1)}
                     /\ Sending(tasks[s]) /\ ~RunSend(s) => writes'[s] = <<>> /\ stream'[s] = <<>>
  <2>4. writes[s] # <<>> => /\ writes[s] = <<w>> /\ w \in WriteOps /\ w.op = "header" /\ w.n = 1
                            /\ Tail(writes[s]) = <<>> /\ Head(writes[s]) = w
                            /\ sent[s][1] = "ServerAccept" /\ ~Sending(tasks[s])
    <3> SUFFICES ASSUME writes[s] # <<>>
                 PROVE  /\ writes[s] = <<w>> /\ w \in WriteOps /\ w.op = "header" /\ w.n = 1
                        /\ Tail(writes[s]) = <<>> /\ Head(writes[s]) = w
                        /\ sent[s][1] = "ServerAccept" /\ ~Sending(tasks[s])
      OBVIOUS
    <3>1. Len(writes[s]) = 1 /\ w.op = "header" /\ ~Sending(tasks[s])
      BY <1>2 DEF LittleWritten, OneHeader
    <3>2. writes[s] = <<w>> /\ w \in WriteOps /\ Tail(writes[s]) = <<>> /\ Head(writes[s]) = w
      <4>1. writes[s] = <<w>>
        BY <1>1, <3>1, SingleSeq
      <4>2. w \in WriteOps
        BY <1>1, <3>1
      <4>3. \A x : Tail(<<x>>) = <<>> /\ Head(<<x>>) = x
        OBVIOUS
      <4>4. QED
        BY <4>1, <4>2, <4>3
    <3>3. w.n \in 1..Len(sent[s])
      BY <1>1, <3>1 DEF IndInv, WritesOK, NamesSent
    <3>4. sent[s] = <<"ServerAccept">> /\ w.n = 1
      <4>1. sent[s] # <<>>
        BY <3>3
      <4>2. sent[s] = <<"ServerAccept">>
        BY <1>2, <4>1 DEF LittleWritten
      <4>3. QED
        BY <3>3, <4>2
    <3>5. QED
      BY <3>1, <3>2, <3>4
  <2>5. ~Transfer(s) => stream'[s] = stream[s]
    BY <1>1, EndChanges DEF ChangesAt
  <2>6. ASSUME ~Transfer(s) /\ writes'[s] = writes[s] /\ ~RunSend(s) PROVE Good
    BY <1>2, <2>5, <2>6 DEF LittleWritten
  <2>7. ASSUME Transfer(s) PROVE Good
    <3>1. PICK i \in DOMAIN writes[s] :
            /\ IsFirstPending(writes[s], i)
            /\ stream' = [stream EXCEPT ![s] = @ \o WordsOf(s, writes[s][i])]
            /\ writes' = [writes EXCEPT ![s] = Finish(@, i, "ok")]
      BY <2>7 DEF Transfer
    <3>2. writes[s] # <<>>
      BY <3>1
    <3>3. DOMAIN writes[s] = {1}
      BY <1>1, <2>4, <3>2, SingleSeq
    <3>4. i = 1 /\ w.ec = "pending"
      BY <3>1, <3>3 DEF IsFirstPending
    <3>5. stream[s] = <<>> /\ WordsOf(s, w) = Pair(1)
      BY <1>2, <2>4, <3>2, <3>4 DEF LittleWritten, WordsOf
    <3>6. stream'[s] = Pair(1)
      BY <1>1, <3>1, <3>4, <3>5 DEF Pair
    <3>7. writes'[s] = Finish(writes[s], 1, "ok") /\ "ok" \in Results
      BY <1>1, <3>1, <3>4 DEF Results
    <3>8. /\ Len(writes'[s]) = 1 /\ writes'[s][1].op = "header" /\ writes'[s][1].ec = "ok"
      <4>1. Len(writes[s]) = 1 /\ 1 \in DOMAIN writes[s]
        BY <1>1, <2>4, <3>2, SingleSeq
      <4>2. QED
        BY <1>1, <2>4, <3>2, <3>7, <4>1, FinishWrite, FinishOutcome
    <3>9. QED
      BY <2>4, <3>2, <3>6, <3>8 DEF OneHeader
  <2>8. ASSUME WriteFails(s) \/ RunClose(s) PROVE Good
    <3>1. CASE writes[s] = <<>>
      <4>1. ~WriteFails(s)
        BY <3>1 DEF WriteFails
      <4>2. Abort(<<>>) = <<>>
        BY DEF Abort
      <4>3. writes'[s] = <<>>
        BY <1>1, <2>8, <3>1, <4>1, <4>2 DEF RunClose
      <4>4. QED
        BY <1>2, <2>5, <2>8, <4>3 DEF LittleWritten, WriteFails, RunClose, Transfer
    <3>2. CASE writes[s] # <<>>
      <4>1. \/ \E i \in DOMAIN writes[s] : writes'[s] = Finish(writes[s], i, "failed")
            \/ writes'[s] = Abort(writes[s])
        BY <1>1, <2>8 DEF WriteFails, RunClose
      <4>2. Len(writes[s]) = 1 /\ DOMAIN writes[s] = {1} /\ "failed" \in Results
        BY <1>1, <2>4, <3>2, SingleSeq DEF Results
      <4>3. /\ Len(writes'[s]) = 1 /\ writes'[s][1].op = "header"
            /\ writes'[s][1].ec # "pending" \/ writes'[s][1] = w
        <5>1. CASE \E i \in DOMAIN writes[s] : writes'[s] = Finish(writes[s], i, "failed")
          BY <1>1, <2>4, <3>2, <4>2, <5>1, FinishWrite, FinishOutcome
        <5>2. CASE writes'[s] = Abort(writes[s])
          <6>1. 1 \in 1..Len(writes[s])
            BY <4>2
          <6>2. /\ Len(writes'[s]) = 1 /\ writes'[s][1].op = w.op
            BY <1>1, <4>2, <5>2, <6>1, AbortWrite
          <6>3. IF w.ec = "pending" THEN writes'[s][1].ec = "failed" ELSE writes'[s][1] = w
            BY <1>1, <5>2, <6>1, AbortOutcome
          <6>4. QED
            BY <2>4, <3>2, <6>2, <6>3
        <5>3. QED
          BY <4>1, <5>1, <5>2
      <4>4. stream'[s] = stream[s]
        BY <2>8 DEF WriteFails, RunClose
      <4>5. QED
        BY <1>2, <2>4, <3>2, <4>3, <4>4 DEF LittleWritten, OneHeader
    <3>3. QED
      BY <3>1, <3>2
  <2>9. ASSUME RunSend(s) PROVE Good
    <3>1. Sending(tasks[s])
      BY <1>1, <2>9 DEF RunSend, Sending
    <3>2. writes[s] = <<>> /\ stream[s] = <<>>
      BY <1>2, <3>1 DEF LittleWritten
    <3>3. \E n : writes'[s] = <<Write(s, "header", n)>>
      BY <1>1, <2>9, <3>2, RunSendEffect, AppendToNone
    <3>4. OneHeader(writes'[s])
      BY <3>3 DEF OneHeader, Write
    <3>5. stream'[s] = <<>>
      BY <2>9, <3>2 DEF RunSend
    <3>6. QED
      BY <2>9, <3>4, <3>5
  <2>10. ASSUME WriteError(s) \/ HeaderWritten(s) \/ Quit(s) PROVE Good
    <3>1. writes'[s] = <<>>
      <4>1. CASE Quit(s)
        BY <1>1, <4>1 DEF Quit
      <4>2. CASE WriteError(s)
        BY <1>1, <2>4, <4>2 DEF WriteError
      <4>3. CASE HeaderWritten(s)
        <5>1. writes[s] # <<>>
          BY <4>3 DEF HeaderWritten
        <5>2. ~(BodyLen[sent[s][Head(writes[s]).n]] > 0)
          BY <2>4, <5>1 DEF BodyLen, Kinds
        <5>3. writes'[s] = Tail(writes[s])
          BY <1>1, <4>3, <5>2, HeaderWrittenEffect
        <5>4. QED
          BY <2>4, <5>1, <5>3
      <4>4. QED
        BY <2>10, <4>1, <4>2, <4>3
    <3>2. stream'[s] = stream[s]
      BY <2>10 DEF WriteError, HeaderWritten, Quit
    <3>3. QED
      BY <1>2, <3>1, <3>2 DEF LittleWritten
  <2>11. Good
    <3> HIDE DEF Good
    <3>1. QED
      BY <1>1, <1>3, <2>6, <2>7, <2>8, <2>9, <2>10, ServerIdles, EndChanges DEF ChangesAt
  <2>12. QED
    BY <1>2, <2>1, <2>3, <2>11 DEF LittleWritten
<1>6. QED
  BY <1>4, <1>5

\* No handler but the answer's own puts a number into the client's queue.
LEMMA NoNonceStays ==
  ASSUME IndInv, [Next]_vars, NoNonce(writes["client"]), ~AnswerValidation
  PROVE  NoNonce(writes'["client"])
<1> DEFINE c == "client"
           q == writes["client"]
<1>1. c \in Ends /\ DOMAIN writes = Ends /\ q \in Seq(WriteOps)
  BY DEF IndInv, WritesOK, Ends
<1>2. CASE Transfer(c) \/ WriteFails(c)
  <2>1. PICK i \in DOMAIN q, ec \in Results : writes'[c] = Finish(q, i, ec)
    BY <1>1, <1>2 DEF Transfer, WriteFails, Results
  <2>2. QED
    BY <1>1, <2>1, FinishWrite, NonceSame
<1>3. CASE RunSend(c)
  <2>1. PICK n \in 1..Len(sent[c]) : writes'[c] = Append(q, Write(c, "header", n))
    BY <1>1, <1>3, RunSendEffect
  <2>2. Write(c, "header", n).op # "nonce" /\ Write(c, "header", n) \in WriteOps
    BY <1>1, OpsTyped DEF IndInv, RestOK
  <2>3. QED
    BY <1>1, <2>1, <2>2, NonceAppend
<1>4. CASE RunClose(c)
  BY <1>1, <1>4, AbortWrite, NonceSame DEF RunClose
<1>5. CASE Quit(c)
  BY <1>1, <1>5 DEF Quit, NoNonce
<1>6. CASE WriteError(c) \/ HeaderWritten(c) \/ BodyWritten(c) \/ NonceWritten(c)
  <2>1. q # <<>> /\ NoNonce(Tail(q)) /\ Tail(q) \in Seq(WriteOps) /\ Head(q) \in WriteOps
    BY <1>1, <1>6, NonceTail DEF WriteError, HeaderWritten, BodyWritten, NonceWritten
  <2>2. writes'[c] = Tail(q) \/ writes'[c] = Append(Tail(q), Write(c, "body", Head(q).n))
    BY <1>1, <1>6, HeaderWrittenEffect, BodyWrittenEffect DEF WriteError, NonceWritten
  <2>3. /\ Write(c, "body", Head(q).n) \in WriteOps
        /\ Write(c, "body", Head(q).n).op # "nonce"
    BY <1>1, <2>1, OpsTyped DEF WriteOps
  <2>4. QED
    BY <2>1, <2>2, <2>3, NonceAppend
<1>7. QED
  BY <1>1, <1>2, <1>3, <1>4, <1>5, <1>6, EndChanges DEF ChangesAt

LEMMA LittleReadStays ==
  ASSUME IndInv, HandshakeInv, [Next]_vars, accepted # "yes"
  PROVE  LittleRead'
<1> DEFINE c == "client"
           s == "server"
           r == reads[c][1]
<1>1. /\ c \in Ends /\ s \in Ends /\ Peer(c) = s
      /\ DOMAIN reads = Ends /\ DOMAIN taken = Ends /\ DOMAIN writes = Ends
      /\ taken[c] \in Nat /\ Len(stream[s]) \in Nat /\ Len(stream'[s]) \in Nat
      /\ Len(stream[s]) <= Len(stream'[s])
  BY StreamGrows DEF IndInv, ReadsOK, WritesOK, RestOK, Ends, Peer
<1>2. LittleRead /\ LittleWritten
  BY DEF HandshakeInv, Unserved
<1>3. Len(stream[s]) <= 2
  <2>1. stream[s] = <<>> \/ stream[s] = Pair(1)
    BY <1>2, Zenon DEF LittleWritten
  <2>2. ASSUME NEW x, x = Pair(1) PROVE Len(x) <= 2
    BY <2>2 DEF Pair
  <2>3. ASSUME NEW x, x = <<>> PROVE Len(x) <= 2
    BY <2>3
  <2>4. QED
    BY <2>1, <2>2, <2>3, Zenon
\* Only a read of the number can be given its words: those of a header.
<1>4. CASE Arrive(c)
  <2>1. /\ reads[c] = <<r>> /\ r \in ReadOps /\ WellRead(r) /\ r.ec = "pending"
        /\ taken[c] + r.len <= Len(stream[s])
        /\ taken'[c] = taken[c] + r.len
    BY <1>1, <1>4, ArriveEffect
  <2>2. r.op \in {"nonce", "header"} /\ reads[c] # <<>>
    BY <1>2, <2>1 DEF LittleRead
  <2>3. r.len = 2
    BY <2>1, <2>2 DEF WellRead, PairLen
  <2>4. taken[c] = 0 /\ taken'[c] = 2 /\ r.op = "nonce"
    BY <1>1, <1>2, <1>3, <2>1, <2>2, <2>3 DEF LittleRead
  <2>5. reads'[c] # <<>> /\ reads'[c][1].op = "nonce"
    BY <1>1, <1>4, <2>4, ReadSettled
  <2>6. QED
    BY <1>1, <2>1, <2>4, <2>5 DEF LittleRead
<1>5. CASE ~Arrive(c)
  <2>1. taken'[c] = taken[c]
    BY <1>1, <1>5, EndChanges DEF ChangesAt
  <2>2. taken'[c] <= Len(stream'[s])
    BY <1>1, <1>2, <2>1 DEF LittleRead
  <2> DEFINE Waits(q) ==
               q # <<>> => /\ q[1].op = "nonce" \/ (q[1].op = "header" /\ q[1].ec # "ok")
                           /\ taken[c] < 2 => q[1].op = "nonce" /\ q[1].ec # "ok"
  <2>3. Waits(reads[c])
    BY <1>2 DEF LittleRead
  <2>4. AnswerValidation => ~(taken[c] < 2)
    <3>1. AnswerValidation => reads[c] # <<>> /\ Head(reads[c]).ec = "ok"
      BY DEF AnswerValidation, HasRead
    <3>2. QED
      BY <1>1, <1>2, <3>1, ReadHandled DEF LittleRead
  <2>5. taken[c] < 2 => NoNonce(writes'[c])
    BY <1>2, <2>4, NoNonceStays DEF LittleRead
  <2>6. Waits(reads'[c])
    <3>1. CASE reads'[c] = reads[c]
      BY <2>3, <3>1
    <3>2. CASE ReadFails(c)
      <4>1. /\ reads[c] = <<r>> /\ r \in ReadOps
            /\ reads' = [reads EXCEPT ![c] = <<[r EXCEPT !.ec = "failed"]>>]
        BY <1>1, <3>2, ReadFailsEffect
      <4>2. reads'[c][1] = [r EXCEPT !.ec = "failed"]
        BY <1>1, <4>1
      <4>3. reads[c] # <<>> /\ reads'[c][1].ec = "failed" /\ reads'[c][1].op = r.op
        BY <4>1, <4>2 DEF ReadOps
      <4>4. QED
        BY <2>3, <4>3
    <3>3. CASE RunClose(c)
      <4> SUFFICES ASSUME reads'[c] # <<>>
                   PROVE  /\ reads'[c][1].op = "nonce" \/ (reads'[c][1].op = "header" /\ reads'[c][1].ec # "ok")
                          /\ taken[c] < 2 => reads'[c][1].op = "nonce" /\ reads'[c][1].ec # "ok"
        OBVIOUS
      <4>1. reads'[c] = Abort(reads[c])
        BY <1>1, <3>3 DEF RunClose
      <4>2. /\ reads[c] # <<>> /\ reads'[c][1].op = r.op
        BY <1>1, <4>1, ReadAborted
      <4>3. reads[c] = <<r>> /\ r \in ReadOps
        BY <1>1, <4>2, ReadHandled
      <4>4. \/ reads'[c][1] = r
            \/ reads'[c][1].ec = "failed"
        BY <4>1, <4>3 DEF Abort, ReadOps
      <4>5. QED
        BY <2>3, <4>2, <4>4
    <3>4. CASE ReadError(c) \/ Quit(c) \/ AnswerValidation
      <4>1. reads'[c] = <<>>
        BY <1>1, <3>4, ReadQueueHead DEF ReadError, Quit, AnswerValidation, HasRead, IndInv, ReadsOK
      <4>2. QED
        BY <4>1
    <3>5. CASE NonceWritten(c)
      <4>1. writes[c] # <<>> /\ Head(writes[c]).op = "nonce"
        BY <3>5 DEF NonceWritten
      <4>2. ~NoNonce(writes[c])
        BY <1>1, <4>1, WriteRemoved
      <4>3. reads[c] = <<>>
        BY <4>2 DEF IndInv, TurnsOK
      <4>4. reads'[c] = <<Read(c, "header", PairLen, <<>>)>>
        BY <1>1, <3>5, <4>3, AppendToNone DEF NonceWritten
      <4>5. reads'[c][1].op = "header" /\ reads'[c][1].ec # "ok"
        BY <4>4 DEF Read, Started
      <4>6. ~(taken[c] < 2)
        BY <1>2, <4>2 DEF LittleRead
      <4>7. QED
        BY <4>5, <4>6
    <3>6. CASE ConnectDone
      <4>1. reads[c] = <<>>
        BY <3>6 DEF ConnectDone, IndInv, TurnsOK
      <4>2. reads'[c] = <<Read(c, "nonce", PairLen, <<>>)>>
        BY <1>1, <3>6, <4>1, AppendToNone DEF ConnectDone
      <4>3. reads'[c][1].op = "nonce" /\ reads'[c][1].ec # "ok"
        BY <4>2 DEF Read, Started
      <4>4. QED
        BY <4>3
    <3>7. \/ reads'[c] = reads[c] \/ ReadFails(c) \/ RunClose(c) \/ ReadError(c) \/ Quit(c)
          \/ AnswerValidation \/ NonceWritten(c) \/ ConnectDone
      BY <1>1, <1>5, ServerIdles, EndChanges DEF ChangesAt
    <3> HIDE DEF Waits
    <3>8. QED
      BY <3>1, <3>2, <3>3, <3>4, <3>5, <3>6, <3>7
  <2>7. QED
    BY <2>1, <2>2, <2>5, <2>6 DEF LittleRead
<1>6. QED
  BY <1>4, <1>5

LEMMA UnservedStays ==
  ASSUME IndInv, HandshakeInv, [Next]_vars
  PROVE  Unserved'
<1> SUFFICES ASSUME accepted' # "yes"
             PROVE  /\ validated' = "no" /\ reads'["server"] = <<>>
                    /\ recv'["server"] = <<>> /\ recv'["client"] = <<>>
                    /\ LittleWritten' /\ LittleRead'
  BY DEF Unserved
<1>1. accepted # "yes" /\ ~Accept
  BY LinkChange DEF Accept
<1>2. LittleWritten' /\ LittleRead'
  BY <1>1, LittleWrittenStays, LittleReadStays
<1>3. /\ "server" \in Ends /\ "client" \in Ends /\ DOMAIN reads = Ends
      /\ validated = "no" /\ reads["server"] = <<>>
      /\ recv["server"] = <<>> /\ recv["client"] = <<>>
  BY <1>1 DEF HandshakeInv, Unserved, IndInv, ReadsOK, Ends
<1>4. validated' = "no" /\ recv'["server"] = <<>> /\ recv'["client"] = <<>>
  BY <1>1, <1>3, ServerIdles, EndChanges DEF ChangesAt
<1>5. reads'["server"] = <<>>
  <2>1. Abort(<<>>) = <<>>
    BY DEF Abort
  <2>2. RunClose("server") \/ Quit("server") => reads'["server"] = <<>>
    BY <1>3, <2>1 DEF RunClose, Quit
  <2>3. QED
    BY <1>1, <1>3, <2>2, ServerIdles, EndChanges DEF ChangesAt
<1>6. QED
  BY <1>2, <1>4, <1>5

LEMMA HandshakeStep ==
  ASSUME IndInv, HandshakeInv, [Next]_vars
  PROVE  HandshakeInv'
  BY AcceptStays, ZeroStays, FirstWriteStays, FirstReadStays, HeardStays, UnservedStays
     DEF HandshakeInv

LEMMA HandshakeHolds == Spec => [](IndInv /\ HandshakeInv)
<1>1. IndInv /\ HandshakeInv /\ [Next]_vars => (IndInv /\ HandshakeInv)'
  BY NextIndInv, HandshakeStep
<1>2. QED
  BY <1>1, InitIndInv, InitHandshake, PTL DEF Spec

LEMMA PairOfTwo ==
  ASSUME NEW S, NEW s \in Seq(S), Len(s) = 2
  PROVE  s = <<s[1], s[2]>>
OBVIOUS

\* What an opened stream begins with.
LEMMA OpenedPair ==
  ASSUME IndInv, NEW e \in Ends, Opened(e)
  PROVE  SubSeq(stream[e], 1, PairLen) = Pair(0)
<1>1. stream[e] \in Words /\ Len(stream[e]) >= 2
  BY DEF IndInv, RestOK, Opened
<1>2. /\ Len(SubSeq(stream[e], 1, 2)) = 2 /\ SubSeq(stream[e], 1, 2) \in Seq(Nat \X Nat)
      /\ SubSeq(stream[e], 1, 2)[1] = <<0, 1>> /\ SubSeq(stream[e], 1, 2)[2] = <<0, 2>>
  BY <1>1, FirstWordsRead DEF Opened, Words
<1>3. SubSeq(stream[e], 1, 2) = <<<<0, 1>>, <<0, 2>>>>
  BY <1>2, PairOfTwo
<1>4. QED
  BY <1>3 DEF Pair, PairLen

\* Whatever is posted before it, the handshake number is what the server writes
\* first to every client it accepts; to one whose id is taken it writes the header
\* of ServerAccept at most, and that client hears no message at all.
THEOREM NumberGoesFirst == Spec => []HandshakeComesFirst
<1>1. IndInv /\ HandshakeInv => HandshakeComesFirst
  <2> SUFFICES ASSUME IndInv, HandshakeInv, Len(stream["server"]) >= PairLen
               PROVE  \/ accepted = "yes" /\ SubSeq(stream["server"], 1, PairLen) = Pair(0)
                      \/ accepted = "never" /\ stream["server"] = Pair(1) /\ recv["client"] = <<>>
    BY DEF HandshakeComesFirst
  <2>1. stream["server"] # <<>> /\ "server" \in Ends /\ accepted \in {"no", "yes", "never"}
    BY DEF PairLen, Ends, IndInv, RestOK
  <2>2. CASE accepted = "yes"
    BY <2>1, <2>2, OpenedPair DEF HandshakeInv, FirstWriteOK
  <2>3. CASE accepted = "never"
    <3>1. stream["server"] \in {<<>>, Pair(1)} /\ recv["client"] = <<>>
      BY <2>3 DEF HandshakeInv, Unserved, LittleWritten
    <3>2. QED
      BY <2>1, <2>3, <3>1, Zenon
  <2>4. CASE accepted = "no"
    BY <2>1, <2>4 DEF HandshakeInv, AcceptOK, Untouched
  <2>5. QED
    BY <2>1, <2>2, <2>3, <2>4
<1>2. QED
  BY <1>1, HandshakeHolds, PTL

\* The server's program gets nothing from a client before the right answer was
\* the first thing that client has sent.
THEOREM OnlyValidatedHeard == Spec => []HeardOnlyIfValidated
<1>1. IndInv /\ HandshakeInv => HeardOnlyIfValidated
  BY OpenedPair DEF HandshakeInv, HeardOK, HeardOnlyIfValidated, Ends
<1>2. QED
  BY <1>1, HandshakeHolds, PTL

-----------------------------------------------------------------------------
(* The client that waits.                                                  *)

\* A client whose answer is not on the wire yet has sent and heard nothing.
NoAnswer(s) == \A i \in 1..Len(s) : s[i].op = "nonce" => s[i].ec # "ok"
Waiting ==
    /\ stream["client"] = <<>> /\ sent["client"] = <<>>
    /\ recv["client"] = <<>> /\ handled["client"] = 0
    /\ reads["client"] # <<>> => reads["client"][1].op = "nonce"
    /\ NoAnswer(writes["client"])

PatientInv == /\ accepted # "never" => Opened("client") \/ Waiting
              /\ validated # "rejected"

LEMMA InitPatient == Init => PatientInv
  BY DEF Init, PatientInv, Waiting, NoAnswer, Ends

\* Only Transfer makes a write succeed.
LEMMA NoAnswerQueue ==
  ASSUME NEW s \in Seq(WriteOps), NoAnswer(s)
  PROVE  /\ s # <<>> => /\ NoAnswer(Tail(s)) /\ Tail(s) \in Seq(WriteOps)
                        /\ Head(s).op = "nonce" => Head(s).ec # "ok"
         /\ \A x \in WriteOps : (x.op = "nonce" => x.ec # "ok") => NoAnswer(Append(s, x))
         /\ NoAnswer(Abort(s))
         /\ \A i \in DOMAIN s : NoAnswer(Finish(s, i, "failed"))
<1>1. s # <<>> => /\ NoAnswer(Tail(s)) /\ Tail(s) \in Seq(WriteOps)
                  /\ Head(s).op = "nonce" => Head(s).ec # "ok"
  BY DEF NoAnswer
<1>2. ASSUME NEW x \in WriteOps, x.op = "nonce" => x.ec # "ok" PROVE NoAnswer(Append(s, x))
  BY <1>2 DEF NoAnswer
<1>3. NoAnswer(Abort(s))
  BY AbortWrite, AbortOutcome DEF NoAnswer
<1>4. ASSUME NEW i \in DOMAIN s PROVE NoAnswer(Finish(s, i, "failed"))
  <2>1. "failed" \in Results /\ DOMAIN s = 1..Len(s)
    BY DEF Results
  <2>2. QED
    BY <1>4, <2>1, FinishWrite, FinishOutcome DEF NoAnswer
<1>5. QED
  BY <1>1, <1>2, <1>3, <1>4

\* The first that a client puts on the wire is its answer, if it has sent nothing.
LEMMA FirstTransfer ==
  ASSUME IndInv, HandshakeInv, [Next]_vars, Waiting, Transfer("client"), accepted # "never"
  PROVE  Opened("client")'
<1> DEFINE e == "client"
<1>1. PICK i \in DOMAIN writes[e] : stream' = [stream EXCEPT ![e] = @ \o WordsOf(e, writes[e][i])]
  BY DEF Transfer
<1>2. e \in Ends /\ Len(sent[e]) = 0 /\ stream[e] = <<>> /\ DOMAIN stream = Ends
  BY DEF Ends, Waiting, IndInv, RestOK
<1>3. /\ writes[e][i] \in WriteOps /\ i \in 1..Len(writes[e])
      /\ writes[e][i].op # "body" /\ writes[e][i].op # "header"
  BY <1>1, <1>2, TransferEffect
<1>4. writes[e][i].op = "nonce" /\ writes[e][i].n = 0
  <2>1. writes[e][i].op = "nonce"
    BY <1>3 DEF WriteOps
  <2>2. accepted = "yes"
    <3>1. ~NoNonce(writes[e])
      BY <1>3, <2>1 DEF NoNonce
    <3>2. ~(accepted = "no")
      <4>1. accepted = "no" => stream["server"] = <<>> /\ taken["client"] <= Len(stream["server"])
        BY DEF HandshakeInv, AcceptOK, Untouched, Unserved, LittleRead
      <4>2. Len(<<>>) = 0 /\ taken["client"] \in Nat
        BY DEF IndInv, RestOK, Ends
      <4>3. accepted = "no" => NoNonce(writes[e])
        BY <4>1, <4>2 DEF HandshakeInv, Unserved, LittleRead
      <4>4. QED
        BY <3>1, <4>3
    <3>3. QED
      BY <3>2 DEF IndInv, RestOK
  <2>3. QED
    BY <1>2, <1>3, <2>1, <2>2 DEF HandshakeInv, NumbersZero, AllZero, Zero
<1>5. stream'[e] = <<>> \o Pair(0)
  BY <1>1, <1>2, <1>4 DEF WordsOf, Answer
<1>6. stream'[e] = Pair(0)
  BY <1>5 DEF Pair
<1>7. QED
  BY <1>6 DEF Opened, Pair

LEMMA WaitingStep ==
  ASSUME ~Eager, IndInv, HandshakeInv, [Next]_vars, Waiting, ~Transfer("client"),
         accepted # "never"
  PROVE  Waiting'
<1> DEFINE e == "client"
<1>1. /\ reads \in [Ends -> ReadQueues] /\ writes \in [Ends -> Seq(WriteOps)]
      /\ e \in Ends /\ handled \in [Ends -> Nat]
  BY DEF IndInv, ReadsOK, WritesOK, RestOK, Ends
<1>2. stream'[e] = <<>>
  BY <1>1, EndChanges DEF ChangesAt, Waiting
<1>3. ~HeaderRead(e) /\ ~BodyRead(e)
  <2>1. HeaderRead(e) => reads[e] # <<>> /\ reads[e][1].op = "header"
    BY <1>1, HeaderReadEffect DEF HeaderRead, HasRead
  <2>2. BodyRead(e) => reads[e] # <<>> /\ reads[e][1].op = "body"
    BY <1>1, BodyReadEffect DEF BodyRead, HasRead
  <2>3. QED
    BY <2>1, <2>2 DEF Waiting
<1>4. recv'[e] = <<>>
  BY <1>1, <1>3, EndChanges DEF ChangesAt, Waiting
\* What the client has not heard it has not handled.
<1>5. sent'[e] = <<>> /\ handled'[e] = 0
  <2>1. ~ClientHandles
    BY DEF ClientHandles, Waiting
  <2>2. HandledByClient("ServerAccept") = {}
    BY DEF HandledByClient, Waiting
  <2>3. ~PingServer
    BY <2>2 DEF PingServer
  <2>4. QED
    BY <2>1, <2>3, ProgramChanges DEF Waiting
<1>6. ~NonceWritten(e)
  <2>1. writes[e] # <<>> => Head(writes[e]) = writes[e][1] /\ 1 \in 1..Len(writes[e])
    BY <1>1
  <2>2. QED
    BY <2>1 DEF NonceWritten, Waiting, NoAnswer
<1>7. reads'[e] # <<>> => reads'[e][1].op = "nonce"
  <2> SUFFICES ASSUME reads'[e] # <<>> PROVE reads'[e][1].op = "nonce"
    OBVIOUS
  <2>1. CASE reads'[e] = reads[e]
    BY <2>1 DEF Waiting
  <2>2. CASE Arrive(e) \/ ReadFails(e)
    BY <1>1, <2>2, ReadSettled DEF Waiting
  <2>3. CASE RunClose(e)
    BY <1>1, <2>3, ReadAborted DEF RunClose, Waiting
  <2>4. CASE ReadError(e) \/ Quit(e) \/ AnswerValidation
    BY <1>1, <2>4, ReadQueueHead DEF ReadError, Quit, AnswerValidation, HasRead
  <2>5. CASE ConnectDone
    <3>1. reads[e] = <<>>
      BY <2>5 DEF ConnectDone, IndInv, TurnsOK
    <3>2. reads'[e] = <<Read(e, "nonce", PairLen, <<>>)>>
      BY <1>1, <2>5, <3>1, AppendToNone DEF ConnectDone
    <3>3. QED
      BY <3>2 DEF Read
  <2>6. QED
    BY <1>1, <1>3, <1>6, <2>1, <2>2, <2>3, <2>4, <2>5, EndChanges DEF ChangesAt
<1>8. NoAnswer(writes'[e])
  <2>1. writes[e] \in Seq(WriteOps) /\ NoAnswer(writes[e])
    BY <1>1 DEF Waiting
  <2>2. CASE writes'[e] = writes[e]
    BY <2>1, <2>2
  <2>3. CASE WriteFails(e)
    <3>1. PICK i \in DOMAIN writes[e] : writes' = [writes EXCEPT ![e] = Finish(writes[e], i, "failed")]
      BY <2>3 DEF WriteFails
    <3>2. writes'[e] = Finish(writes[e], i, "failed")
      BY <1>1, <3>1
    <3>3. QED
      BY <2>1, <3>2, NoAnswerQueue
  <2>4. CASE RunSend(e) \/ HeaderWritten(e)
    <3>1. Len(sent[e]) = 0
      BY DEF Waiting
    <3>2. ~RunSend(e)
      <4>1. 1..Len(sent[e]) = {}
        BY <3>1
      <4>2. QED
        BY <1>1, <4>1, RunSendEffect
    <3>3. ~HeaderWritten(e)
      BY <1>1, <3>1, WriteRemoved DEF HeaderWritten
    <3>4. QED
      BY <2>4, <3>2, <3>3
  <2>5. CASE RunClose(e) \/ Quit(e)
    <3>1. NoAnswer(<<>>)
      BY DEF NoAnswer
    <3>2. QED
      BY <1>1, <2>1, <2>5, <3>1, NoAnswerQueue DEF RunClose, Quit
  <2>6. CASE WriteError(e) \/ BodyWritten(e)
    <3>1. writes[e] # <<>> /\ writes'[e] = Tail(writes[e])
      BY <1>1, <2>6, BodyWrittenEffect DEF WriteError, BodyWritten
    <3>2. QED
      BY <2>1, <3>1, NoAnswerQueue
  <2>7. CASE AnswerValidation
    <3>1. writes'[e] = Append(writes[e], Write(e, "nonce", 0))
      BY <1>1, <2>7, AnswerIsZero DEF AnswerValidation
    <3>2. 0 \in Nat /\ Write(e, "nonce", 0).ec # "ok"
      BY DEF Write, Started
    <3>3. Write(e, "nonce", 0) \in WriteOps
      BY <1>1, <3>2, OpsTyped
    <3>4. QED
      BY <2>1, <3>1, <3>2, <3>3, NoAnswerQueue
  <2>8. QED
    BY <1>1, <1>6, <2>2, <2>3, <2>4, <2>5, <2>6, <2>7, EndChanges DEF ChangesAt
<1>9. QED
  BY <1>2, <1>4, <1>5, <1>7, <1>8 DEF Waiting

\* The only wrong answer is words of a message, and they come behind the number.
LEMMA NoRejection ==
  ASSUME IndInv, HandshakeInv, PatientInv
  PROVE  ~ClientRejected
<1> SUFFICES ASSUME ClientRejected PROVE FALSE
  OBVIOUS
<1> DEFINE r == reads["server"][1]
<1>1. /\ "server" \in Ends /\ Peer("server") = "client" /\ reads["server"] # <<>>
      /\ Head(reads["server"]).op = "nonce" /\ Head(reads["server"]).ec = "ok"
      /\ Head(reads["server"]).data # Pair(0)
  BY DEF ClientRejected, HasRead, Ends, Peer
<1>2. Head(reads["server"]) = r
  BY <1>1, ReadHandled
<1>3. /\ Len(stream["client"]) >= 2
      /\ r.data[1] = stream["client"][1] /\ r.data[2] = stream["client"][2]
  BY <1>1, <1>2 DEF HandshakeInv, FirstReadOK, NumberRead
<1>4. Opened("client")
  <2>1. accepted = "yes"
    BY <1>1 DEF HandshakeInv, Unserved
  <2>2. QED
    BY <1>3, <2>1 DEF PatientInv, Waiting
<1>5. r.data \in Seq(Nat \X Nat) /\ Len(r.data) = 2
  BY <1>1, <1>2, DataRead DEF Words
<1>6. r.data = <<<<0, 1>>, <<0, 2>>>>
  BY <1>3, <1>4, <1>5, PairOfTwo DEF Opened
<1>7. QED
  BY <1>1, <1>2, <1>6 DEF Pair

LEMMA PatientStep ==
  ASSUME ~Eager, IndInv, HandshakeInv, PatientInv, [Next]_vars
  PROVE  PatientInv'
<1>1. "client" \in Ends
  BY DEF Ends
<1>2. accepted' # "never" => (Opened("client") \/ Waiting)'
  <2> SUFFICES ASSUME accepted # "never"
               PROVE  (Opened("client") \/ Waiting)'
    BY LinkChange
  <2>1. CASE Opened("client")
    BY <1>1, <2>1, OpenedStays
  <2>2. CASE Waiting /\ Transfer("client")
    BY <2>2, FirstTransfer
  <2>3. CASE Waiting /\ ~Transfer("client")
    BY <2>3, WaitingStep
  <2>4. QED
    BY <2>1, <2>2, <2>3 DEF PatientInv
<1>3. validated' # "rejected"
  <2>1. ClientValidated => validated' = "yes"
    BY DEF ClientValidated
  <2>2. QED
    BY <1>1, <2>1, NoRejection, EndChanges DEF ChangesAt, PatientInv
<1>4. QED
  BY <1>2, <1>3 DEF PatientInv

\* A client that sends nothing before ServerAccept is never refused: the words
\* the server takes for its answer are its answer.
THEOREM PatientClientsPass ==
  ASSUME ~Eager
  PROVE  Spec => []PatientClientAccepted
<1> DEFINE Inv == IndInv /\ HandshakeInv /\ PatientInv
<1>1. Init => Inv
  BY InitIndInv, InitHandshake, InitPatient
<1>2. Inv /\ [Next]_vars => Inv'
  BY NextIndInv, HandshakeStep, PatientStep
<1>3. Inv => PatientClientAccepted
  BY DEF PatientInv, PatientClientAccepted
<1>4. QED
  BY <1>1, <1>2, <1>3, PTL DEF Spec

-----------------------------------------------------------------------------
(* The server's end as its program sees it.                                *)

\* A closed socket has no read pending: its last read has finished, or failed.  A
\* process that has ended has nothing at all.
SettledOK ==
    /\ socket["server"] # "open" /\ reads["server"] # <<>> => reads["server"][1].ec # "pending"
    /\ socket["server"] = "gone" => tasks["server"] = <<>> /\ reads["server"] = <<>>

LEMMA InitSettled == Init => SettledOK
  BY DEF Init, SettledOK, Ends

\* What changes the server's socket, pops its messages, and wakes an ended process.
LEMMA ServerEndChanges ==
  ASSUME IndInv, [Next]_vars
  PROVE  LET s == "server" IN
         /\ socket'[s] = socket[s] \/ Accept \/ IdExists \/ AcceptFails \/ RunClose(s) \/ Quit(s)
         /\ handled'[s] = handled[s] \/ ServerHandles
         /\ socket[s] = "gone" /\ tasks[s] = <<>> /\ reads[s] = <<>> => tasks'[s] = <<>>
<1> DEFINE s == "server"
           Nothing == socket[s] = "gone" /\ tasks[s] = <<>> /\ reads[s] = <<>>
<1>1. /\ "client" \in Ends /\ s \in Ends /\ DOMAIN socket = Ends /\ DOMAIN handled = Ends
      /\ DOMAIN tasks = Ends
  BY DEF IndInv, TasksOK, RestOK, Ends
<1>2. \A f \in Ends : Disconnect(f) /\ Nothing => tasks'[s] = <<>>
  BY <1>1 DEF Disconnect, Post
<1>3. ASSUME NEW f \in Ends, Kernel(f)
      PROVE  UNCHANGED <<socket, handled, tasks>>
  BY <1>3 DEF Kernel, Reset, Transfer, WriteFails, Arrive, ReadFails, appVars
<1>4. ASSUME NEW f \in Ends, Handlers(f)
      PROVE  /\ handled' = handled
             /\ socket'[s] = socket[s] \/ RunClose(s)
             /\ Nothing => tasks'[s] = <<>>
  <2>1. handled' = handled /\ (RunClose(f) \/ UNCHANGED socket)
    BY <1>4 DEF Handlers, RunSend, RunClose, WriteError, HeaderWritten, BodyWritten,
                NonceWritten, ReadError, HeaderRead, BodyRead, appVars
  <2>2. f # s => socket'[s] = socket[s] /\ tasks'[s] = tasks[s]
    BY <1>1, <1>4, OtherEnd
  <2>3. f = s /\ Nothing => tasks'[s] = <<>>
    BY <1>1, <1>2, <1>4 DEF Handlers, RunSend, RunClose, WriteError, HeaderWritten, BodyWritten,
                NonceWritten, ReadError, HeaderRead, BodyRead, HasRead
  <2>4. QED
    BY <2>1, <2>2, <2>3
<1>5. ASSUME NEW f \in Ends, Quit(f)
      PROVE  /\ handled' = handled /\ (f # s => socket'[s] = socket[s])
             /\ Nothing => tasks'[s] = <<>>
  BY <1>1, <1>5 DEF Quit, appVars
<1>6. CASE \/ UNCHANGED vars \/ ConnectToServer \/ LinkUp \/ Refuse \/ ConnectDone \/ Expire
           \/ AnswerValidation \/ ClientHandles
  BY <1>1, <1>6 DEF vars, ConnectToServer, LinkUp, Refuse, ConnectDone, Expire,
                    AnswerValidation, ClientHandles, appVars
<1>7. CASE ConnectTimeOut \/ ClientRejected
  <2>1. UNCHANGED <<socket, handled>> /\ \E f \in Ends : Disconnect(f)
    BY <1>1, <1>7 DEF ConnectTimeOut, ClientRejected, appVars
  <2>2. QED
    BY <1>2, <2>1
<1>8. CASE \/ Accept \/ ClientValidated \/ Broadcast \/ ServerHandles \/ PingServer
           \/ IdExists \/ AcceptFails \/ ListenerStops
  BY <1>1, <1>8 DEF Accept, ClientValidated, HasRead, Broadcast, ServerHandles, PingServer, Send, Post,
                    IdExists, AcceptFails, ListenerStops, AcceptHandler, appVars
<1>9. QED
  BY <1>1, <1>3, <1>4, <1>5, <1>6, <1>7, <1>8, ConnectionAssumption DEF Next, Ends

\* The outcome of a read is decided where it starts, if its socket is not open.
LEMMA LateRead ==
  ASSUME NEW e \in Ends, socket[e] # "open"
  PROVE  \A op, len, head : /\ Read(e, op, len, head).ec = "failed"
                            /\ Read(e, op, len, head).op = op
  BY DEF Read, Started

\* A close fails what is pending and leaves what has finished.
LEMMA AbortSettles ==
  ASSUME IndInv, NEW e \in Ends, reads'[e] = Abort(reads[e]), reads'[e] # <<>>
  PROVE  /\ reads[e] # <<>> /\ reads'[e][1].op = reads[e][1].op /\ reads'[e][1].ec # "pending"
         /\ reads[e][1].ec # "pending" => reads'[e][1] = reads[e][1]
<1>1. reads[e] # <<>> /\ reads'[e][1].op = reads[e][1].op
  BY ReadAborted
<1>2. reads[e] = <<reads[e][1]>> /\ reads[e][1] \in ReadOps
  BY <1>1, ReadHandled
<1>3. IF reads[e][1].ec = "pending"
      THEN reads'[e][1] = [reads[e][1] EXCEPT !.ec = "failed"]
      ELSE reads'[e][1] = reads[e][1]
  BY <1>2 DEF Abort
<1>4. QED
  BY <1>1, <1>2, <1>3 DEF ReadOps

\* The kernel finishes nothing for a socket that is not open.
LEMMA NothingArrives ==
  ASSUME IndInv, SettledOK, socket["server"] # "open"
  PROVE  ~Arrive("server") /\ ~ReadFails("server")
<1> DEFINE r == reads["server"][1]
<1>1. "server" \in Ends
  BY DEF Ends
<1>2. Arrive("server") => reads["server"] = <<r>> /\ r.ec = "pending"
  BY <1>1, ArriveEffect
<1>3. ReadFails("server") => reads["server"] = <<r>> /\ r.ec = "pending"
  BY <1>1, ReadFailsEffect
<1>4. reads["server"] = <<r>> => reads["server"] # <<>>
  OBVIOUS
<1>5. QED
  BY <1>2, <1>3, <1>4 DEF SettledOK

LEMMA SettledStep ==
  ASSUME IndInv, HandshakeInv, SettledOK, [Next]_vars
  PROVE  SettledOK'
<1> DEFINE s == "server"
<1>1. s \in Ends /\ DOMAIN reads = Ends /\ DOMAIN socket = Ends /\ DOMAIN tasks = Ends
  BY DEF IndInv, TasksOK, ReadsOK, RestOK, Ends
<1>2. CASE Quit(s)
  BY <1>1, <1>2 DEF Quit, SettledOK
<1>3. CASE Accept \/ IdExists \/ AcceptFails
  <2>1. reads["server"] = <<>>
    BY <1>3 DEF Accept, IdExists, AcceptFails, AcceptHandler, HandshakeInv, AcceptOK, Untouched
  <2>2. QED
    BY <1>1, <1>3, <2>1 DEF Accept, IdExists, AcceptFails, SettledOK, ioVars
<1>4. CASE RunClose(s)
  <2>1. reads'[s] = Abort(reads[s]) /\ socket'[s] = "closed"
    BY <1>1, <1>4 DEF RunClose
  <2>2. QED
    BY <1>1, <2>1, AbortSettles DEF SettledOK
<1>5. CASE ~Quit(s) /\ ~Accept /\ ~IdExists /\ ~AcceptFails /\ ~RunClose(s)
  <2>1. socket'[s] = socket[s]
    BY <1>5, ServerEndChanges
  <2>2. CASE reads'[s] = reads[s]
    BY <2>1, <2>2, ServerEndChanges DEF SettledOK
  <2>3. CASE reads'[s] # reads[s] /\ socket[s] = "open"
    BY <2>1, <2>3 DEF SettledOK
  <2>4. CASE reads'[s] # reads[s] /\ socket[s] # "open"
    <3>1. ~Arrive(s) /\ ~ReadFails(s)
      BY <2>4, NothingArrives
    <3>2. ~NonceWritten(s)
      BY <2>4 DEF NonceWritten
    <3>3. CASE ReadError(s) \/ ClientRejected
      <4>1. reads[s] # <<>> /\ reads'[s] = <<>>
        BY <1>1, <3>3, ReadQueueHead DEF ReadError, ClientRejected, HasRead, IndInv, ReadsOK
      <4>2. QED
        BY <2>1, <4>1 DEF SettledOK
    <3>4. CASE HeaderRead(s) \/ BodyRead(s) \/ ClientValidated
      <4>1. \E op \in {"header", "body"} : \E len, head : reads'[s] = <<Read(s, op, len, head)>>
        <5>1. CASE HeaderRead(s) \/ BodyRead(s)
          BY <1>1, <5>1, NextReadWaits
        <5>2. CASE ClientValidated
          <6>1. reads'[s] = <<Read(s, "header", PairLen, <<>>)>>
            BY <1>1, <5>2, ReadHandled DEF ClientValidated, HasRead
          <6>2. QED
            BY <6>1
        <5>3. QED
          BY <3>4, <5>1, <5>2
      <4>2. reads'[s] # <<>> /\ reads'[s][1].ec = "failed" /\ reads[s] # <<>>
        BY <1>1, <2>4, <3>4, <4>1, LateRead DEF HeaderRead, BodyRead, ClientValidated, HasRead
      <4>3. QED
        BY <2>1, <4>2 DEF SettledOK
    <3>5. QED
      BY <1>1, <1>5, <2>4, <3>1, <3>2, <3>3, <3>4, EndChanges DEF ChangesAt
  <2>5. QED
    BY <2>2, <2>3, <2>4
<1>6. QED
  BY <1>2, <1>3, <1>4, <1>5

\* The state of the server's end, case by case.
LEMMA StateIs ==
  /\ accepted # "yes" => ServerState = "none"
  /\ accepted = "yes" =>
       /\ socket["server"] = "open" =>
            ServerState = IF validated = "yes" THEN "validated" ELSE "new"
       /\ socket["server"] = "closed" =>
            ServerState = IF MessageRead("server") THEN "closing" ELSE "closed"
       /\ socket["server"] = "gone" => ServerState = "closed"
  BY DEF ServerState

LEMMA NextStateIs ==
  /\ accepted' # "yes" => ServerState' = "none"
  /\ accepted' = "yes" =>
       /\ socket'["server"] = "open" =>
            ServerState' = IF validated' = "yes" THEN "validated" ELSE "new"
       /\ socket'["server"] = "closed" =>
            ServerState' = IF MessageRead("server")' THEN "closing" ELSE "closed"
       /\ socket'["server"] = "gone" => ServerState' = "closed"
  BY DEF ServerState

LEMMA MessageReadIs ==
  ASSUME IndInv, IndInv'
  PROVE  LET s == "server" IN
         /\ MessageRead(s) <=> /\ reads[s] # <<>> /\ reads[s][1].ec = "ok"
                               /\ reads[s][1].op \in {"header", "body"}
         /\ MessageRead(s)' <=> /\ reads'[s] # <<>> /\ reads'[s][1].ec = "ok"
                                /\ reads'[s][1].op \in {"header", "body"}
<1>1. "server" \in Ends /\ reads["server"] \in ReadQueues /\ reads'["server"] \in ReadQueues
  BY DEF IndInv, ReadsOK, Ends
<1>2. \A q \in ReadQueues : q # <<>> => Head(q) = q[1]
  BY DEF ReadQueues
<1>3. QED
  BY <1>1, <1>2 DEF MessageRead, HasRead

LEMMA ServerMoves ==
  ASSUME IndInv, IndInv', HandshakeInv, SettledOK, [Next]_vars
  PROVE  [ServerSide!Next]_(ServerSide!vars)
<1> DEFINE s == "server"
           W == Len(recv[s]) - handled[s]
<1>1. /\ s \in Ends /\ DOMAIN reads = Ends /\ DOMAIN socket = Ends /\ DOMAIN recv = Ends
      /\ DOMAIN handled = Ends
      /\ Len(recv[s]) \in Nat /\ handled[s] \in Nat
      /\ socket[s] \in {"none", "open", "closed", "gone"}
  BY DEF IndInv, ReadsOK, RestOK, Ends
<1>2. CASE Accept
  <2>1. /\ accepted # "yes" /\ accepted' = "yes" /\ socket'[s] = "open" /\ validated' = "no"
        /\ W' = W
    BY <1>1, <1>2 DEF Accept, AcceptHandler, HandshakeInv, AcceptOK, Untouched
  <2>2. ServerState = "none" /\ ServerState' = "new"
    BY <2>1, StateIs, NextStateIs
  <2>3. QED
    BY <2>1, <2>2 DEF ServerSide!Next, ServerSide!Accept
\* A client that is not accepted is no connection: nothing of it is ever queued.
<1>3. CASE accepted # "yes" /\ ~Accept
  <2>1. accepted' # "yes"
    BY <1>3, LinkChange
  <2>2. ServerState = "none" /\ ServerState' = "none"
    BY <1>3, <2>1, StateIs, NextStateIs
  <2>3. recv[s] = <<>> /\ recv'[s] = <<>>
    BY <1>3, <2>1, HandshakeStep DEF HandshakeInv, Unserved
  <2>4. handled'[s] = handled[s]
    BY <1>3, ServerEndChanges, ServerIdles
  <2>5. QED
    BY <2>2, <2>3, <2>4 DEF ServerSide!vars
<1> SUFFICES ASSUME accepted = "yes"
             PROVE  [ServerSide!Next]_(ServerSide!vars)
  BY <1>2, <1>3
<1>4. /\ accepted' = "yes" /\ socket[s] # "none"
      /\ ~Accept /\ ~IdExists /\ ~AcceptFails
  BY LinkChange DEF HandshakeInv, AcceptOK, Accept, IdExists, AcceptFails, AcceptHandler
<1>5. reads[s] # <<>> =>
         /\ Head(reads[s]) = reads[s][1]
         /\ validated # "yes" => reads[s][1].op = "nonce"
         /\ validated # "no" => reads[s][1].op # "nonce"
  BY <1>1, ReadHandled DEF HandshakeInv, HeardOK
<1>6. CASE RunClose(s)
  <2>1. /\ reads'[s] = Abort(reads[s]) /\ socket'[s] = "closed" /\ validated' = validated
        /\ W' = W /\ tasks[s] # <<>>
    BY <1>1, <1>6 DEF RunClose, appVars
  <2>2. CASE socket[s] = "open" /\ validated = "yes"
    <3>1. ServerState = "validated" /\ ServerState' \in {"closing", "closed"}
      BY <2>1, <2>2, <1>4, StateIs, NextStateIs
    <3>2. QED
      BY <2>1, <3>1 DEF ServerSide!Next, ServerSide!Close
  <2>3. CASE socket[s] = "open" /\ validated # "yes"
    <3>1. ~MessageRead(s)'
      BY <1>1, <1>5, <2>1, <2>3, AbortSettles, MessageReadIs
    <3>2. ServerState = "new" /\ ServerState' = "closed"
      BY <2>1, <2>3, <3>1, <1>4, StateIs, NextStateIs
    <3>3. QED
      BY <2>1, <3>2 DEF ServerSide!Next, ServerSide!Close
  <2>4. CASE socket[s] = "closed"
    <3>1. reads[s] = <<>> => reads'[s] = <<>>
      BY <1>1, <2>1, ReadQueueAbort DEF IndInv, ReadsOK
    <3>2. reads[s] # <<>> => reads'[s] # <<>>
      BY <1>1, <2>1, ReadHandled DEF Abort
    <3>3. MessageRead(s)' <=> MessageRead(s)
      BY <1>1, <2>1, <2>4, <3>1, <3>2, AbortSettles, MessageReadIs DEF SettledOK
    <3>4. ServerState' = ServerState
      BY <2>1, <2>4, <3>3, <1>4, StateIs, NextStateIs
    <3>5. QED
      BY <2>1, <3>4 DEF ServerSide!vars
  <2>5. QED
    BY <1>1, <1>4, <2>1, <2>2, <2>3, <2>4 DEF SettledOK
<1>7. CASE Quit(s)
  <2>1. /\ socket[s] \in {"open", "closed"} /\ socket'[s] = "gone" /\ W' = W
    BY <1>1, <1>4, <1>7 DEF Quit, appVars
  <2>2. ServerState \in {"new", "validated", "closing", "closed"} /\ ServerState' = "closed"
    BY <2>1, <1>4, StateIs, NextStateIs
  <2>3. QED
    BY <2>1, <2>2 DEF ServerSide!Next, ServerSide!Close, ServerSide!vars
<1>8. CASE ServerHandles
  <2>1. /\ socket' = socket /\ reads' = reads /\ validated' = validated
        /\ W > 0 /\ W' = W - 1
    BY <1>1, <1>8 DEF ServerHandles, ioVars
  <2>2. MessageRead(s)' <=> MessageRead(s)
    BY <2>1, MessageReadIs
  <2>3. ServerState' = ServerState
    BY <1>1, <2>1, <2>2, <1>4, StateIs, NextStateIs
  <2>4. QED
    BY <2>1, <2>3 DEF ServerSide!Next, ServerSide!Take
<1>9. CASE ClientValidated
  <2>1. /\ reads[s] # <<>> /\ Head(reads[s]).op = "nonce" /\ validated' = "yes"
        /\ socket' = socket /\ W' = W
        /\ reads' = [reads EXCEPT ![s] = Append(Tail(reads[s]), Read(s, "header", PairLen, <<>>))]
    BY <1>9 DEF ClientValidated, HasRead
  <2>2. validated # "yes" /\ ~MessageRead(s)
    BY <1>4, <1>5, <2>1, MessageReadIs
  <2>3. CASE socket[s] = "open"
    <3>1. ServerState = "new" /\ ServerState' = "validated"
      BY <2>1, <2>2, <2>3, <1>4, StateIs, NextStateIs
    <3>2. QED
      BY <2>1, <3>1 DEF ServerSide!Next, ServerSide!Validate
  <2>4. CASE socket[s] # "open"
    <3>1. reads'[s] = <<Read(s, "header", PairLen, <<>>)>>
      BY <1>1, <2>1, ReadHandled
    <3>2. reads'[s][1].ec = "failed"
      BY <1>1, <2>4, <3>1, LateRead
    <3>3. ~MessageRead(s)'
      BY <3>2, MessageReadIs
    <3>4. ServerState' = ServerState
      BY <1>1, <2>1, <2>2, <2>4, <3>3, <1>4, StateIs, NextStateIs
    <3>5. QED
      BY <2>1, <3>4 DEF ServerSide!vars
  <2>5. QED
    BY <2>3, <2>4
<1>10. CASE ClientRejected
  <2>1. /\ reads[s] # <<>> /\ Head(reads[s]).op = "nonce" /\ validated' = "rejected"
        /\ socket' = socket /\ W' = W /\ reads' = [reads EXCEPT ![s] = Tail(reads[s])]
    BY <1>10 DEF ClientRejected, HasRead
  <2>2. reads'[s] = <<>>
    BY <1>1, <2>1, ReadQueueHead DEF IndInv, ReadsOK
  <2>3. validated # "yes" /\ ~MessageRead(s) /\ ~MessageRead(s)'
    BY <1>5, <2>1, <2>2, MessageReadIs
  <2>4. ServerState' = ServerState
    BY <1>1, <2>1, <2>3, <1>4, StateIs, NextStateIs
  <2>5. QED
    BY <2>1, <2>4 DEF ServerSide!vars
<1>11. CASE HeaderRead(s) \/ BodyRead(s)
  <2>1. /\ reads[s] # <<>> /\ Head(reads[s]).ec = "ok" /\ Head(reads[s]).op \in {"header", "body"}
        /\ UNCHANGED <<socket, handled, validated>>
    BY <1>11 DEF HeaderRead, BodyRead, HasRead
  <2>2. validated = "yes" /\ socket[s] \in {"open", "closed"} /\ MessageRead(s)
    BY <1>1, <1>4, <1>5, <2>1, MessageReadIs DEF SettledOK
  <2>3. recv'[s] = recv[s] \/ \E x : recv' = [recv EXCEPT ![s] = Append(recv[s], x)]
    BY <1>1, <1>11, HeaderReadEffect, BodyReadEffect
  <2>4. recv'[s] = recv[s] \/ Len(recv'[s]) = Len(recv[s]) + 1
    <3>1. recv[s] \in Seq(Words) /\ recv'[s] \in Seq(Words)
      BY <1>1 DEF IndInv, RestOK
    <3>2. ASSUME NEW x, recv' = [recv EXCEPT ![s] = Append(recv[s], x)]
          PROVE  Len(recv'[s]) = Len(recv[s]) + 1
      <4>1. recv'[s] = Append(recv[s], x)
        BY <1>1, <3>2
      <4>2. Len(Append(recv[s], x)) = Len(recv[s]) + 1
        BY <3>1
      <4>3. QED
        BY <4>1, <4>2
    <3>3. QED
      BY <2>3, <3>2
  <2>5. W' = W \/ W' = W + 1
    BY <1>1, <2>1, <2>4
  <2>6. CASE socket[s] = "open"
    <3>1. ServerState = "validated" /\ ServerState' = "validated"
      BY <2>1, <2>2, <2>6, <1>4, StateIs, NextStateIs
    <3>2. QED
      BY <2>5, <3>1 DEF ServerSide!Next, ServerSide!Receive, ServerSide!vars
  <2>7. CASE socket[s] = "closed"
    <3>1. PICK op \in {"header", "body"} : \E len, head : reads'[s] = <<Read(s, op, len, head)>>
      BY <1>1, <1>11, NextReadWaits
    <3>2. reads'[s][1].ec = "failed"
      BY <1>1, <2>7, <3>1, LateRead
    <3>3. ServerState = "closing" /\ ServerState' = "closed"
      BY <2>1, <2>2, <2>7, <3>2, MessageReadIs, <1>4, StateIs, NextStateIs
    <3>4. QED
      BY <2>5, <3>3 DEF ServerSide!Next, ServerSide!Receive, ServerSide!Lapse
  <2>8. QED
    BY <2>2, <2>6, <2>7
<1> DEFINE Others == /\ ~RunClose(s) /\ ~Quit(s) /\ ~ServerHandles
                     /\ ~ClientValidated /\ ~ClientRejected /\ ~HeaderRead(s) /\ ~BodyRead(s)
<1>12. CASE Others
  <2>1. socket'[s] = socket[s] /\ handled'[s] = handled[s]
    BY <1>4, <1>12, ServerEndChanges
  <2>2. recv'[s] = recv[s] /\ validated' = validated
    BY <1>1, <1>4, <1>12, EndChanges DEF ChangesAt
  <2>3. socket[s] = "closed" => (MessageRead(s)' <=> MessageRead(s))
    <3> SUFFICES ASSUME socket[s] = "closed" PROVE MessageRead(s)' <=> MessageRead(s)
      OBVIOUS
    <3>1. ~Arrive(s) /\ ~ReadFails(s)
      BY NothingArrives
    <3>2. CASE reads'[s] = reads[s]
      BY <3>2, MessageReadIs
    <3>3. CASE ReadError(s)
      <4>1. reads[s] # <<>> /\ Head(reads[s]).ec = "failed" /\ reads'[s] = <<>>
        BY <1>1, <3>3, ReadQueueHead DEF ReadError, IndInv, ReadsOK
      <4>2. QED
        BY <1>5, <4>1, MessageReadIs
    <3>4. NonceWritten(s) => reads'[s] = reads[s]
      BY DEF NonceWritten
    <3>5. QED
      BY <1>1, <1>4, <1>12, <3>1, <3>2, <3>3, <3>4, EndChanges DEF ChangesAt
  <2>4. ServerState' = ServerState
    BY <1>1, <2>1, <2>2, <2>3, <1>4, StateIs, NextStateIs
  <2>5. QED
    BY <2>1, <2>2, <2>4 DEF ServerSide!vars
<1>13. QED
  BY <1>6, <1>7, <1>8, <1>9, <1>10, <1>11, <1>12

\* The server's end of every connection behaves as ServerRegistry takes it to:
\* no client is heard that was not validated, none that is closed is ever open
\* again, and after its close at most one message of it is queued.
THEOREM ServerSeesAConnection == Spec => ImplementsServerConnection
<1> DEFINE Inv == IndInv /\ HandshakeInv /\ SettledOK
<1>1. Init => Inv
  BY InitIndInv, InitHandshake, InitSettled
<1>2. Inv /\ [Next]_vars => Inv'
  BY NextIndInv, HandshakeStep, SettledStep
<1>3. Init => ServerSide!Init
  BY StateIs DEF Init, Ends, ServerSide!Init
<1>4. Inv /\ Inv' /\ [Next]_vars => [ServerSide!Next]_(ServerSide!vars)
  BY ServerMoves
<1>5. QED
  BY <1>1, <1>2, <1>3, <1>4, PTL DEF Spec, ImplementsServerConnection, ServerSide!Spec
=============================================================================
