-------------------------- MODULE ConnectionProofs --------------------------
(***************************************************************************)
(* Theorems about Connection, for any number of sends and broadcasts, any  *)
(* sizes read off wrong headers, any choice of who may quit: its types,    *)
(* the queue that never holds a message, and asio's rule for readers.      *)
(*                                                                         *)
(* OneReadAtATime is not inductive: a second read at the client would come *)
(* from a second nonce to answer, or from a nonce written while a read is  *)
(* pending.  TurnsOK says that the client's turn is in one place only: it  *)
(* still connects, or it reads, or it writes its answer.                   *)
(***************************************************************************)
EXTENDS Connection, SequenceTheorems, TLAPS

-----------------------------------------------------------------------------
(* The inductive invariant.                                                *)

\* What s holds of kind op is about messages among the m that were sent.
NamesSent(s, op, m) == \A i \in 1..Len(s) : s[i].op = op => s[i].n \in 1..m

TasksOK ==
    /\ tasks \in [Ends -> Seq(Tasks)]
    /\ \A e \in Ends : NamesSent(tasks[e], "send", Len(sent[e]))

WritesOK ==
    /\ writes \in [Ends -> Seq(WriteOps)]
    /\ \A e \in Ends : /\ NamesSent(writes[e], "header", Len(sent[e]))
                       /\ NamesSent(writes[e], "body", Len(sent[e]))

\* The data of a finished read are as long as it asked for; only a body's
\* length is not fixed.
WellRead(r) ==
    /\ r \in ReadOps
    /\ r.op # "body" => r.len = PairLen
    /\ r.ec = "ok" => Len(r.data) = r.len

\* No read, or one.
ReadQueues == {<<>>} \cup {<<r>> : r \in {x \in ReadOps : WellRead(x)}}

ReadsOK == reads \in [Ends -> ReadQueues]

NoNonce(s) == \A i \in 1..Len(s) : s[i].op # "nonce"
OneNonce(s) == \A i, j \in 1..Len(s) : s[i].op = "nonce" /\ s[j].op = "nonce" => i = j

\* The client connects, reads, or writes its answer: one at a time.
TurnsOK ==
    /\ connect \in {"no", "pending", "ok"} =>
          reads["client"] = <<>> /\ NoNonce(writes["client"])
    /\ reads["client"] # <<>> => NoNonce(writes["client"])
    /\ OneNonce(writes["client"])

\* The types of the rest; m_qMessageOut is empty between handlers.
RestOK ==
    /\ socket \in [Ends -> {"none", "open", "closed", "gone"}]
    /\ linked \in BOOLEAN
    /\ reset \subseteq Ends
    /\ connect \in {"no", "pending", "ok", "failed", "done"}
    /\ timer \in {"idle", "armed", "expired", "done"}
    /\ accepted \in {"no", "yes", "never"}
    /\ outq = [e \in Ends |-> <<>>]
    /\ stream \in [Ends -> Words]
    /\ taken \in [Ends -> Nat]
    /\ sent \in [Ends -> Seq(Kinds)]
    /\ recv \in [Ends -> Seq(Words)]
    /\ handled \in [Ends -> Nat]
    /\ validated \in {"no", "yes", "rejected"}

IndInv == TasksOK /\ WritesOK /\ ReadsOK /\ TurnsOK /\ RestOK

-----------------------------------------------------------------------------
(* Sequences of operations.                                                *)

LEMMA FunctionIsSeq ==
  ASSUME NEW S, NEW n \in Nat, NEW f \in [1..n -> S]
  PROVE  f \in Seq(S) /\ Len(f) = n
<1>1. f \in Seq(S)
  BY SeqDef
<1>2. QED
  BY <1>1

\* Finishing an operation changes only its outcome.
LEMMA FinishWrite ==
  ASSUME NEW s \in Seq(WriteOps), NEW i \in DOMAIN s, NEW ec \in Results
  PROVE  /\ Finish(s, i, ec) \in Seq(WriteOps)
         /\ Len(Finish(s, i, ec)) = Len(s)
         /\ \A j \in 1..Len(s) : /\ Finish(s, i, ec)[j].op = s[j].op
                                 /\ Finish(s, i, ec)[j].n = s[j].n
<1>1. s \in [1..Len(s) -> WriteOps] /\ Len(s) \in Nat /\ i \in 1..Len(s)
  OBVIOUS
<1>2. [s[i] EXCEPT !.ec = ec] \in WriteOps
  BY <1>1 DEF WriteOps
<1>3. Finish(s, i, ec) \in [1..Len(s) -> WriteOps]
  BY <1>1, <1>2 DEF Finish
<1>4. \A j \in 1..Len(s) : /\ Finish(s, i, ec)[j].op = s[j].op
                           /\ Finish(s, i, ec)[j].n = s[j].n
  BY <1>1, <1>2 DEF Finish, WriteOps
<1>5. QED
  BY <1>1, <1>3, <1>4, FunctionIsSeq

LEMMA AbortWrite ==
  ASSUME NEW s \in Seq(WriteOps)
  PROVE  /\ Abort(s) \in Seq(WriteOps)
         /\ Len(Abort(s)) = Len(s)
         /\ \A j \in 1..Len(s) : Abort(s)[j].op = s[j].op /\ Abort(s)[j].n = s[j].n
<1>1. s \in [1..Len(s) -> WriteOps] /\ Len(s) \in Nat
  OBVIOUS
<1>2. \A j \in 1..Len(s) : /\ Abort(s)[j] \in WriteOps
                           /\ Abort(s)[j].op = s[j].op
                           /\ Abort(s)[j].n = s[j].n
  BY <1>1 DEF Abort, WriteOps, Results
<1>3. Abort(s) \in [1..Len(s) -> WriteOps]
  BY <1>1, <1>2 DEF Abort
<1>4. QED
  BY <1>1, <1>2, <1>3, FunctionIsSeq

\* What a queue names stays sent when one is appended, removed or finished.
LEMMA NamesAppend ==
  ASSUME NEW S, NEW s \in Seq(S), NEW x \in S, NEW op, NEW m \in Nat, NEW k \in Nat,
         NamesSent(s, op, m), m <= k, x.op = op => x.n \in 1..k
  PROVE  NamesSent(Append(s, x), op, k)
  BY DEF NamesSent

LEMMA NamesTail ==
  ASSUME NEW S, NEW s \in Seq(S), s # <<>>, NEW op, NEW m \in Nat, NamesSent(s, op, m)
  PROVE  /\ Head(s) \in S /\ Tail(s) \in Seq(S)
         /\ NamesSent(Tail(s), op, m)
         /\ Head(s).op = op => Head(s).n \in 1..m
  BY DEF NamesSent

LEMMA NonceTail ==
  ASSUME NEW S, NEW s \in Seq(S), s # <<>>
  PROVE  /\ NoNonce(s) => NoNonce(Tail(s)) /\ Head(s).op # "nonce"
         /\ OneNonce(s) => OneNonce(Tail(s))
         /\ OneNonce(s) /\ Head(s).op = "nonce" => NoNonce(Tail(s))
  BY DEF NoNonce, OneNonce

LEMMA NonceAppend ==
  ASSUME NEW S, NEW s \in Seq(S), NEW x \in S
  PROVE  /\ NoNonce(s) /\ x.op # "nonce" => NoNonce(Append(s, x))
         /\ OneNonce(s) /\ x.op # "nonce" => OneNonce(Append(s, x))
         /\ NoNonce(s) => OneNonce(Append(s, x))
  BY DEF NoNonce, OneNonce

LEMMA NonceSame ==
  ASSUME NEW s, NEW t, Len(t) = Len(s), \A j \in 1..Len(s) : t[j].op = s[j].op
  PROVE  /\ NoNonce(s) => NoNonce(t)
         /\ OneNonce(s) => OneNonce(t)
  BY DEF NoNonce, OneNonce

LEMMA NamesSame ==
  ASSUME NEW s, NEW t, NEW op, NEW m, NamesSent(s, op, m), Len(t) = Len(s),
         \A j \in 1..Len(s) : t[j].op = s[j].op /\ t[j].n = s[j].n
  PROVE  NamesSent(t, op, m)
  BY DEF NamesSent

LEMMA NamesMore ==
  ASSUME NEW s, NEW op, NEW m \in Nat, NEW k \in Nat, NamesSent(s, op, m), m <= k
  PROVE  NamesSent(s, op, k)
  BY DEF NamesSent

\* The words a write puts on the wire.
LEMMA FrameWords ==
  ASSUME NEW n \in Nat
  PROVE  /\ Pair(n) \in Words /\ Len(Pair(n)) = PairLen
         /\ Answer(n) \in Words /\ Len(Answer(n)) = PairLen
         /\ \A k \in Kinds : Body(n, k) \in Words
<1>1. Pair(n) \in Words /\ Len(Pair(n)) = PairLen
  BY DEF Pair, Words, PairLen
<1>2. Pair(0) \in Words /\ Len(Pair(0)) = PairLen
  BY DEF Pair, Words, PairLen
<1>3. Answer(n) \in Words /\ Len(Answer(n)) = PairLen
  <2>1. <<<<0, 3>>, <<0, 4>>>> \in Words /\ Len(<<<<0, 3>>, <<0, 4>>>>) = PairLen
    BY DEF Words, PairLen
  <2>2. Answer(n) = Pair(0) \/ Answer(n) = <<<<0, 3>>, <<0, 4>>>>
    BY Zenon DEF Answer
  <2>3. QED
    BY <1>2, <2>1, <2>2
<1>4. \A k \in Kinds : Body(n, k) \in Words
  BY DEF Body, Words, BodyLen, Kinds, PairLen
<1>5. QED
  BY <1>1, <1>3, <1>4

\* A stretch of a stream.
LEMMA StretchOfWords ==
  ASSUME NEW s \in Words, NEW a \in Nat, NEW b \in Nat, a + b <= Len(s)
  PROVE  SubSeq(s, a + 1, a + b) \in Words /\ Len(SubSeq(s, a + 1, a + b)) = b
  BY DEF Words

LEMMA OpsTyped ==
  ASSUME NEW e \in Ends
  PROVE  /\ CloseTask \in Tasks /\ CloseTask.op = "close"
         /\ \A n \in Nat : /\ SendTask(n) \in Tasks
                           /\ SendTask(n).n = n
         /\ \A op \in {"nonce", "header", "body"}, n \in Nat :
              /\ Write(e, op, n) \in WriteOps
              /\ Write(e, op, n).op = op /\ Write(e, op, n).n = n
         /\ \A op \in {"nonce", "header", "body"}, len \in Nat, head \in Words :
              /\ Read(e, op, len, head) \in ReadOps
              /\ op # "body" /\ len = PairLen => WellRead(Read(e, op, len, head))
              /\ op = "body" => WellRead(Read(e, op, len, head))
  BY DEF CloseTask, SendTask, Tasks, Write, WriteOps, Read, ReadOps, Started, Results,
         Words, WellRead

\* A queue of reads holds at most one; it is emptied, filled, finished, aborted.
LEMMA ReadQueueEmpty == <<>> \in ReadQueues
  BY DEF ReadQueues

LEMMA ReadQueueHead ==
  ASSUME NEW s \in ReadQueues, s # <<>>
  PROVE  /\ Tail(s) = <<>> /\ s = <<Head(s)>>
         /\ Head(s) \in ReadOps /\ WellRead(Head(s))
<1>1. PICK r \in ReadOps : WellRead(r) /\ s = <<r>>
  BY DEF ReadQueues
<1>2. QED
  BY <1>1

LEMMA ReadQueueShort ==
  ASSUME NEW s \in ReadQueues
  PROVE  s \in Seq(ReadOps) /\ Len(s) <= 1
<1>1. CASE s = <<>>
  BY <1>1
<1>2. CASE s # <<>>
  <2>1. PICK r \in ReadOps : s = <<r>>
    BY <1>2 DEF ReadQueues
  <2>2. QED
    BY <2>1
<1>3. QED
  BY <1>1, <1>2

LEMMA ReadQueueAppend ==
  ASSUME NEW r \in ReadOps, WellRead(r)
  PROVE  Append(<<>>, r) \in ReadQueues /\ Append(<<>>, r) # <<>>
  BY DEF ReadQueues

LEMMA ReadQueueFinish ==
  ASSUME NEW s \in ReadQueues, NEW i \in DOMAIN s
  PROVE  /\ i = 1 /\ s[1] \in ReadOps /\ WellRead(s[1])
         /\ Finish(s, i, "failed") \in ReadQueues
         /\ \A d \in Words : Len(d) = s[i].len =>
               [s EXCEPT ![i].ec = "ok", ![i].data = d] \in ReadQueues
<1>1. PICK r \in ReadOps : WellRead(r) /\ s = <<r>>
  BY DEF ReadQueues
<1>2. i = 1 /\ s[1] = r
  BY <1>1
<1>3. /\ [r EXCEPT !.ec = "failed"] \in ReadOps
      /\ WellRead([r EXCEPT !.ec = "failed"])
  BY <1>1 DEF ReadOps, Results, WellRead
<1>4. Finish(s, i, "failed") = <<[r EXCEPT !.ec = "failed"]>>
  BY <1>1, <1>2 DEF Finish
<1>5. ASSUME NEW d \in Words, Len(d) = s[i].len
      PROVE  [s EXCEPT ![i].ec = "ok", ![i].data = d] \in ReadQueues
  <2>1. /\ [r EXCEPT !.ec = "ok", !.data = d] \in ReadOps
        /\ WellRead([r EXCEPT !.ec = "ok", !.data = d])
    BY <1>1, <1>2, <1>5 DEF ReadOps, Results, WellRead
  <2>2. [s EXCEPT ![i].ec = "ok", ![i].data = d] = <<[r EXCEPT !.ec = "ok", !.data = d]>>
    BY <1>1, <1>2
  <2>3. QED
    BY <2>1, <2>2 DEF ReadQueues
<1>6. QED
  BY <1>1, <1>2, <1>3, <1>4, <1>5 DEF ReadQueues

LEMMA ReadQueueAbort ==
  ASSUME NEW s \in ReadQueues
  PROVE  Abort(s) \in ReadQueues /\ (s = <<>> => Abort(s) = <<>>)
<1>1. CASE s = <<>>
  BY <1>1, ReadQueueEmpty DEF Abort
<1>2. CASE s # <<>>
  <2>1. PICK r \in ReadOps : WellRead(r) /\ s = <<r>>
    BY <1>2 DEF ReadQueues
  <2> DEFINE a == IF r.ec = "pending" THEN [r EXCEPT !.ec = "failed"] ELSE r
  <2>2. a \in ReadOps /\ WellRead(a)
    BY <2>1 DEF ReadOps, Results, WellRead
  <2>3. Abort(s) = <<a>>
    BY <2>1 DEF Abort
  <2>4. QED
    BY <1>2, <2>2, <2>3 DEF ReadQueues
<1>3. QED
  BY <1>1, <1>2

-----------------------------------------------------------------------------
(* What the calls shared by several handlers do to the invariant.          *)

LEMMA DisconnectTasks ==
  ASSUME TasksOK, RestOK, NEW e \in Ends, Disconnect(e), sent' = sent
  PROVE  TasksOK'
<1>1. CASE tasks' = tasks
  BY <1>1 DEF TasksOK
<1>2. CASE tasks' = [tasks EXCEPT ![e] = Append(@, CloseTask)]
  <2>1. tasks[e] \in Seq(Tasks) /\ CloseTask \in Tasks /\ Len(sent[e]) \in Nat
    BY OpsTyped DEF TasksOK, RestOK
  <2>2. NamesSent(Append(tasks[e], CloseTask), "send", Len(sent[e]))
    BY <2>1, OpsTyped, NamesAppend DEF TasksOK
  <2>3. QED
    BY <1>2, <2>1, <2>2 DEF TasksOK
<1>3. QED
  BY <1>1, <1>2 DEF Disconnect, Post

LEMMA SendGrows ==
  ASSUME TasksOK, RestOK, NEW e \in Ends, NEW k \in Kinds, Send(e, k)
  PROVE  /\ sent' \in [Ends -> Seq(Kinds)]
         /\ \A f \in Ends : /\ Len(sent[f]) \in Nat /\ Len(sent'[f]) \in Nat
                           /\ Len(sent[f]) <= Len(sent'[f])
         /\ TasksOK'
<1>1. /\ sent' = [sent EXCEPT ![e] = Append(@, k)]
      /\ tasks' = [tasks EXCEPT ![e] = Append(@, SendTask(Len(sent[e]) + 1))]
  BY DEF Send, Post
<1>2. /\ sent' \in [Ends -> Seq(Kinds)]
      /\ Len(sent'[e]) = Len(sent[e]) + 1
      /\ \A f \in Ends : Len(sent[f]) \in Nat /\ Len(sent'[f]) \in Nat
      /\ \A f \in Ends : Len(sent[f]) <= Len(sent'[f])
  BY <1>1 DEF RestOK
<1>3. /\ tasks[e] \in Seq(Tasks)
      /\ SendTask(Len(sent[e]) + 1) \in Tasks
      /\ SendTask(Len(sent[e]) + 1).n \in 1..Len(sent'[e])
  BY <1>2, OpsTyped DEF TasksOK
<1>4. NamesSent(tasks'[e], "send", Len(sent'[e]))
  BY <1>1, <1>2, <1>3, NamesAppend DEF TasksOK
<1>5. \A f \in Ends : f # e => NamesSent(tasks'[f], "send", Len(sent'[f]))
  BY <1>1, <1>2 DEF TasksOK
<1>6. QED
  BY <1>1, <1>2, <1>3, <1>4, <1>5 DEF TasksOK

LEMMA SendWrites ==
  ASSUME TasksOK, WritesOK, RestOK, NEW e \in Ends, NEW k \in Kinds, Send(e, k),
         UNCHANGED writes
  PROVE  WritesOK'
  BY SendGrows, NamesMore DEF WritesOK

\* One queue of writes, or of reads, is replaced by another good one.
LEMMA WritesReplaced ==
  ASSUME WritesOK, NEW e \in Ends, NEW s \in Seq(WriteOps), UNCHANGED sent,
         NamesSent(s, "header", Len(sent[e])), NamesSent(s, "body", Len(sent[e])),
         writes' = [writes EXCEPT ![e] = s]
  PROVE  WritesOK' /\ writes'[e] = s
  BY DEF WritesOK

LEMMA ReadsReplaced ==
  ASSUME ReadsOK, NEW e \in Ends, NEW s \in ReadQueues, reads' = [reads EXCEPT ![e] = s]
  PROVE  ReadsOK' /\ reads'[e] = s
  BY DEF ReadsOK

-----------------------------------------------------------------------------
(* Connecting.                                                             *)

LEMMA InitIndInv == Init => IndInv
<1> SUFFICES ASSUME Init PROVE IndInv
  OBVIOUS
<1>1. TasksOK
  BY DEF Init, TasksOK, NamesSent
<1>2. WritesOK
  BY DEF Init, WritesOK, NamesSent
<1>3. ReadsOK
  BY ReadQueueEmpty DEF Init, ReadsOK
<1>4. TurnsOK
  BY DEF Init, TurnsOK, NoNonce, OneNonce, Ends
<1>5. RestOK
  <2>1. <<>> \in Words
    BY DEF Words
  <2>2. /\ stream \in [Ends -> Words]
        /\ recv \in [Ends -> Seq(Words)]
        /\ sent \in [Ends -> Seq(Kinds)]
    BY <2>1 DEF Init
  <2>3. taken \in [Ends -> Nat] /\ handled \in [Ends -> Nat]
    BY DEF Init
  <2>4. QED
    BY <2>2, <2>3 DEF Init, RestOK
<1>6. QED
  BY <1>1, <1>2, <1>3, <1>4, <1>5 DEF IndInv

\* The steps that touch no queue.
LEMMA PlainStep ==
  ASSUME IndInv, \/ ConnectToServer \/ LinkUp \/ Refuse \/ Expire \/ ClientHandles
                 \/ AcceptFails \/ ListenerStops
                 \/ \E e \in Ends : Reset(e)
  PROVE  IndInv'
<1>1. UNCHANGED <<tasks, sent, writes, reads>>
  BY DEF ConnectToServer, LinkUp, Refuse, Expire, ClientHandles, Reset, AcceptFails,
         ListenerStops, linkVars, ioVars, appVars
<1>2. TasksOK' /\ WritesOK' /\ ReadsOK'
  BY <1>1 DEF IndInv, TasksOK, WritesOK, ReadsOK
<1>3. TurnsOK'
  BY <1>1 DEF IndInv, TurnsOK, ConnectToServer, LinkUp, Refuse, Expire, ClientHandles,
              Reset, AcceptFails, ListenerStops, linkVars
<1>4. RestOK'
  <2>1. CASE ConnectToServer
    BY <2>1 DEF IndInv, RestOK, ConnectToServer, ioVars, appVars
  <2>2. CASE LinkUp \/ Refuse \/ Expire
    BY <2>2 DEF IndInv, RestOK, LinkUp, Refuse, Expire, ioVars, appVars
  <2>3. CASE ClientHandles
    <3>1. handled \in [Ends -> Nat] /\ handled' = [handled EXCEPT !["client"] = @ + 1]
      BY <2>3 DEF IndInv, RestOK, ClientHandles
    <3>2. handled' \in [Ends -> Nat]
      BY <3>1 DEF Ends
    <3>3. QED
      BY <2>3, <3>2 DEF IndInv, RestOK, ClientHandles, linkVars, ioVars
  <2>4. CASE \E e \in Ends : Reset(e)
    BY <2>4 DEF IndInv, RestOK, Reset, ioVars, appVars
  <2>5. CASE AcceptFails \/ ListenerStops
    BY <2>5 DEF IndInv, RestOK, AcceptFails, ListenerStops, ioVars, appVars
  <2>6. QED
    BY <2>1, <2>2, <2>3, <2>4, <2>5
<1>5. QED
  BY <1>2, <1>3, <1>4 DEF IndInv

LEMMA ConnectDoneStep ==
  ASSUME IndInv, ConnectDone PROVE IndInv'
<1> DEFINE r == Read("client", "nonce", PairLen, <<>>)
<1>0. "client" \in Ends /\ <<>> \in Words /\ PairLen \in Nat
  BY DEF Ends, Words, PairLen
<1>1. r \in ReadOps /\ WellRead(r)
  BY <1>0, OpsTyped
<1>2. reads["client"] = <<>> /\ NoNonce(writes["client"])
  BY DEF IndInv, TurnsOK, ConnectDone
<1>3. reads' = [reads EXCEPT !["client"] = Append(<<>>, r)]
  BY <1>2 DEF ConnectDone
<1>4. ReadsOK'
  BY <1>0, <1>1, <1>3, ReadQueueAppend, ReadsReplaced DEF IndInv
<1>5. TasksOK' /\ WritesOK'
  BY DEF IndInv, TasksOK, WritesOK, ConnectDone, appVars
<1>6. TurnsOK'
  BY <1>2 DEF IndInv, TurnsOK, ConnectDone
<1>7. RestOK'
  BY DEF IndInv, RestOK, ConnectDone, appVars
<1>8. QED
  BY <1>4, <1>5, <1>6, <1>7 DEF IndInv

LEMMA ConnectTimeOutStep ==
  ASSUME IndInv, ConnectTimeOut PROVE IndInv'
<1>1. TasksOK'
  BY DisconnectTasks DEF IndInv, ConnectTimeOut, appVars, Ends
<1>2. WritesOK' /\ ReadsOK'
  BY DEF IndInv, WritesOK, ReadsOK, ConnectTimeOut, ioVars, appVars
<1>3. TurnsOK'
  BY DEF IndInv, TurnsOK, ConnectTimeOut, ioVars
<1>4. RestOK'
  BY DEF IndInv, RestOK, ConnectTimeOut, ioVars, appVars
<1>5. QED
  BY <1>1, <1>2, <1>3, <1>4 DEF IndInv

LEMMA AcceptStep ==
  ASSUME IndInv, Accept PROVE IndInv'
<1> DEFINE w == [op |-> "nonce", n |-> 0, ec |-> "pending"]
           r == [op |-> "nonce", len |-> PairLen, head |-> <<>>,
                 data |-> <<>>, ec |-> "pending"]
<1>0. "server" \in Ends /\ "ServerAccept" \in Kinds
  BY DEF Ends, Kinds
<1>1. /\ sent' \in [Ends -> Seq(Kinds)]
      /\ \A f \in Ends : /\ Len(sent[f]) \in Nat /\ Len(sent'[f]) \in Nat
                        /\ Len(sent[f]) <= Len(sent'[f])
      /\ TasksOK'
  BY <1>0, SendGrows DEF IndInv, Accept
<1>2. w \in WriteOps /\ r \in ReadOps /\ WellRead(r)
  BY DEF WriteOps, ReadOps, Results, WellRead, Words, PairLen
<1>3. NamesSent(<<w>>, "header", Len(sent'["server"])) /\ NamesSent(<<w>>, "body", Len(sent'["server"]))
  BY DEF NamesSent
<1>4. writes' = [writes EXCEPT !["server"] = <<w>>] /\ reads' = [reads EXCEPT !["server"] = <<r>>]
  BY DEF Accept
<1>5. WritesOK'
  <2>1. writes' \in [Ends -> Seq(WriteOps)]
    <3>1. <<w>> \in Seq(WriteOps) /\ writes \in [Ends -> Seq(WriteOps)]
      BY <1>2 DEF IndInv, WritesOK
    <3>2. QED
      BY <1>4, <3>1
  <2>2. \A f \in Ends : f # "server" =>
          /\ NamesSent(writes'[f], "header", Len(sent'[f]))
          /\ NamesSent(writes'[f], "body", Len(sent'[f]))
    BY <1>1, <1>4, NamesMore DEF IndInv, WritesOK
  <2>3. writes'["server"] = <<w>>
    BY <1>0, <1>4 DEF IndInv, WritesOK
  <2>4. QED
    BY <1>3, <2>1, <2>2, <2>3 DEF WritesOK
<1>6. ReadsOK'
  BY <1>0, <1>2, <1>4, ReadsReplaced DEF IndInv, ReadQueues
<1>7. TurnsOK'
  <2>1. connect' = connect
    BY DEF Accept
  <2>2. writes'["client"] = writes["client"] /\ reads'["client"] = reads["client"]
    BY <1>4 DEF IndInv, WritesOK, ReadsOK, Ends
  <2>3. QED
    BY <2>1, <2>2 DEF IndInv, TurnsOK
<1>8. RestOK'
  BY <1>1 DEF IndInv, RestOK, Accept
<1>9. QED
  BY <1>1, <1>5, <1>6, <1>7, <1>8 DEF IndInv

LEMMA IdExistsStep ==
  ASSUME IndInv, IdExists PROVE IndInv'
<1> DEFINE old == tasks["server"]
           new == Append(Append(old, SendTask(1)), CloseTask)
<1>0. "server" \in Ends /\ "ServerAccept" \in Kinds /\ sent["server"] \in Seq(Kinds)
  BY DEF Ends, Kinds, IndInv, RestOK
<1>1. /\ sent' \in [Ends -> Seq(Kinds)]
      /\ \A f \in Ends : /\ Len(sent[f]) \in Nat /\ Len(sent'[f]) \in Nat
                        /\ Len(sent[f]) <= Len(sent'[f])
      /\ Len(sent'["server"]) = Len(sent["server"]) + 1
  BY <1>0 DEF IndInv, RestOK, IdExists
<1>2. old \in Seq(Tasks) /\ SendTask(1) \in Tasks /\ CloseTask \in Tasks
  BY <1>0, OpsTyped DEF IndInv, TasksOK
<1>3. tasks' = [tasks EXCEPT !["server"] = new]
  <2>1. \A x, y \in Tasks : old \o <<x, y>> = Append(Append(old, x), y)
    BY <1>2
  <2>2. tasks' = [tasks EXCEPT !["server"] = old \o <<SendTask(1), CloseTask>>]
    BY DEF IdExists
  <2>3. QED
    BY <1>2, <2>1, <2>2
<1>4. TasksOK'
  <2>1. NamesSent(Append(old, SendTask(1)), "send", Len(sent'["server"]))
    <3>1. SendTask(1).n \in 1..Len(sent'["server"])
      BY <1>0, <1>1 DEF SendTask
    <3>2. NamesSent(old, "send", Len(sent["server"]))
      BY <1>0 DEF IndInv, TasksOK
    <3>3. QED
      BY <1>0, <1>1, <1>2, <3>1, <3>2, NamesAppend
  <2>2. NamesSent(new, "send", Len(sent'["server"]))
    <3>1. Append(old, SendTask(1)) \in Seq(Tasks)
      BY <1>2
    <3>2. CloseTask.op # "send" /\ Len(sent'["server"]) <= Len(sent'["server"])
      BY <1>0, <1>1, OpsTyped
    <3>3. QED
      BY <1>0, <1>1, <1>2, <2>1, <3>1, <3>2, NamesAppend
  <2>3. \A f \in Ends : f # "server" => NamesSent(tasks'[f], "send", Len(sent'[f]))
    BY <1>1, <1>3, NamesMore DEF IndInv, TasksOK
  <2>4. new \in Seq(Tasks)
    BY <1>2
  <2>5. QED
    BY <1>0, <1>3, <2>2, <2>3, <2>4 DEF IndInv, TasksOK
<1>5. UNCHANGED <<writes, reads, connect>>
  BY DEF IdExists, ioVars
<1>6. WritesOK' /\ ReadsOK' /\ TurnsOK'
  BY <1>1, <1>5, NamesMore DEF IndInv, WritesOK, ReadsOK, TurnsOK
<1>7. RestOK'
  BY <1>1 DEF IndInv, RestOK, IdExists, ioVars
<1>8. QED
  BY <1>4, <1>6, <1>7 DEF IndInv

-----------------------------------------------------------------------------
(* The kernel.                                                             *)

\* Finishing a write, well or not, leaves the queues' shape as it was.
LEMMA WriteFinished ==
  ASSUME WritesOK, ReadsOK, TurnsOK, NEW e \in Ends, NEW i \in DOMAIN writes[e],
         NEW ec \in Results, writes' = [writes EXCEPT ![e] = Finish(@, i, ec)],
         UNCHANGED <<sent, reads, connect>>
  PROVE  WritesOK' /\ ReadsOK' /\ TurnsOK'
<1> DEFINE s == Finish(writes[e], i, ec)
<1>1. writes[e] \in Seq(WriteOps)
  BY DEF WritesOK
<1>2. /\ s \in Seq(WriteOps) /\ Len(s) = Len(writes[e])
      /\ \A j \in 1..Len(writes[e]) : s[j].op = writes[e][j].op /\ s[j].n = writes[e][j].n
  BY <1>1, FinishWrite
<1>3. NamesSent(s, "header", Len(sent[e])) /\ NamesSent(s, "body", Len(sent[e]))
  BY <1>2, NamesSame DEF WritesOK
<1>4. WritesOK'
  BY <1>2, <1>3, WritesReplaced
<1>5. /\ NoNonce(writes[e]) => NoNonce(s)
      /\ OneNonce(writes[e]) => OneNonce(s)
  BY <1>2, NonceSame
<1>6. writes' = [writes EXCEPT ![e] = s]
  OBVIOUS
<1>7. TurnsOK'
  BY <1>5, <1>6 DEF TurnsOK, WritesOK, Ends
<1>8. QED
  BY <1>4, <1>7 DEF ReadsOK

LEMMA TransferStep ==
  ASSUME IndInv, NEW e \in Ends, Transfer(e) PROVE IndInv'
<1>1. PICK i \in DOMAIN writes[e] :
        /\ stream' = [stream EXCEPT ![e] = @ \o WordsOf(e, writes[e][i])]
        /\ writes' = [writes EXCEPT ![e] = Finish(@, i, "ok")]
  BY DEF Transfer
<1>2. TasksOK' /\ UNCHANGED <<sent, reads, connect>>
  BY DEF IndInv, TasksOK, Transfer, appVars, linkVars
<1>3. WritesOK' /\ ReadsOK' /\ TurnsOK'
  BY <1>1, <1>2, WriteFinished DEF IndInv, Results
<1>4. WordsOf(e, writes[e][i]) \in Words
  <2>1. /\ writes[e][i] \in WriteOps
        /\ writes[e][i].op = "body" => writes[e][i].n \in 1..Len(sent[e])
    BY DEF IndInv, WritesOK, NamesSent
  <2>2. writes[e][i].n \in Nat
    BY <2>1 DEF WriteOps
  <2>3. writes[e][i].op = "body" => sent[e][writes[e][i].n] \in Kinds
    BY <2>1 DEF IndInv, RestOK
  <2>4. QED
    BY <2>1, <2>2, <2>3, FrameWords DEF WordsOf, WriteOps
<1>5. stream' \in [Ends -> Words]
  BY <1>1, <1>4 DEF IndInv, RestOK, Words
<1>6. RestOK'
  BY <1>5 DEF IndInv, RestOK, Transfer, linkVars, appVars
<1>7. QED
  BY <1>2, <1>3, <1>6 DEF IndInv

LEMMA WriteFailsStep ==
  ASSUME IndInv, NEW e \in Ends, WriteFails(e) PROVE IndInv'
<1>1. PICK i \in DOMAIN writes[e] : writes' = [writes EXCEPT ![e] = Finish(@, i, "failed")]
  BY DEF WriteFails
<1>2. TasksOK' /\ UNCHANGED <<sent, reads, connect>>
  BY DEF IndInv, TasksOK, WriteFails, appVars, linkVars
<1>3. WritesOK' /\ ReadsOK' /\ TurnsOK'
  BY <1>1, <1>2, WriteFinished DEF IndInv, Results
<1>4. RestOK'
  BY DEF IndInv, RestOK, WriteFails, linkVars, appVars
<1>5. QED
  BY <1>2, <1>3, <1>4 DEF IndInv

\* Finishing a read does not empty the queue of reads.
LEMMA ReadFinished ==
  ASSUME IndInv, NEW e \in Ends, NEW s \in ReadQueues, reads[e] # <<>>,
         reads' = [reads EXCEPT ![e] = s],
         UNCHANGED <<tasks, sent, writes, connect>>
  PROVE  TasksOK' /\ WritesOK' /\ ReadsOK' /\ TurnsOK'
<1>1. TasksOK' /\ WritesOK'
  BY DEF IndInv, TasksOK, WritesOK
<1>2. ReadsOK'
  BY ReadsReplaced DEF IndInv
<1>3. TurnsOK'
  BY DEF IndInv, TurnsOK, ReadsOK, Ends
<1>4. QED
  BY <1>1, <1>2, <1>3

LEMMA ArriveStep ==
  ASSUME IndInv, NEW e \in Ends, Arrive(e) PROVE IndInv'
<1> DEFINE last(i) == taken[e] + reads[e][i].len
           data(i) == SubSeq(stream[Peer(e)], taken[e] + 1, last(i))
<1>1. PICK i \in DOMAIN reads[e] :
        /\ last(i) <= Len(stream[Peer(e)])
        /\ taken' = [taken EXCEPT ![e] = last(i)]
        /\ reads' = [reads EXCEPT ![e][i].ec = "ok", ![e][i].data = data(i)]
  BY DEF Arrive
<1>2. reads[e] \in ReadQueues /\ reads[e] # <<>>
  BY DEF IndInv, ReadsOK
<1>3. i = 1 /\ reads[e][i] \in ReadOps
  BY <1>2, ReadQueueFinish
<1>4. reads[e][i].len \in Nat /\ taken[e] \in Nat /\ stream[Peer(e)] \in Words
  BY <1>3 DEF ReadOps, IndInv, RestOK, Peer, Ends
<1>5. data(i) \in Words /\ Len(data(i)) = reads[e][i].len
  BY <1>1, <1>4, StretchOfWords
<1>6. [reads[e] EXCEPT ![i].ec = "ok", ![i].data = data(i)] \in ReadQueues
  BY <1>2, <1>5, ReadQueueFinish
<1>7. reads' = [reads EXCEPT ![e] = [reads[e] EXCEPT ![i].ec = "ok", ![i].data = data(i)]]
  BY <1>1, <1>2 DEF IndInv, ReadsOK
<1>8. UNCHANGED <<tasks, sent, writes, connect>>
  BY DEF Arrive, linkVars, appVars
<1>9. TasksOK' /\ WritesOK' /\ ReadsOK' /\ TurnsOK'
  BY <1>2, <1>6, <1>7, <1>8, ReadFinished
<1>10. RestOK'
  <2>1. last(i) \in Nat
    BY <1>4
  <2>2. taken' \in [Ends -> Nat]
    BY <1>1, <2>1 DEF IndInv, RestOK
  <2>3. QED
    BY <2>2 DEF IndInv, RestOK, Arrive, linkVars, appVars
<1>11. QED
  BY <1>9, <1>10 DEF IndInv

LEMMA ReadFailsStep ==
  ASSUME IndInv, NEW e \in Ends, ReadFails(e) PROVE IndInv'
<1>1. PICK i \in DOMAIN reads[e] : reads' = [reads EXCEPT ![e] = Finish(@, i, "failed")]
  BY DEF ReadFails
<1>2. reads[e] \in ReadQueues /\ reads[e] # <<>>
  BY DEF IndInv, ReadsOK
<1>3. Finish(reads[e], i, "failed") \in ReadQueues
  BY <1>2, ReadQueueFinish
<1>4. UNCHANGED <<tasks, sent, writes, connect>>
  BY DEF ReadFails, linkVars, appVars
<1>5. TasksOK' /\ WritesOK' /\ ReadsOK' /\ TurnsOK'
  BY <1>1, <1>2, <1>3, <1>4, ReadFinished
<1>6. RestOK'
  BY DEF IndInv, RestOK, ReadFails, linkVars, appVars
<1>7. QED
  BY <1>5, <1>6 DEF IndInv

-----------------------------------------------------------------------------
(* Writing.                                                                *)

\* The head of the queue of writes is removed.
LEMMA WriteRemoved ==
  ASSUME IndInv, NEW e \in Ends, writes[e] # <<>>
  PROVE  /\ Head(writes[e]) \in WriteOps
         /\ Head(writes[e]).op # "nonce" => Head(writes[e]).n \in 1..Len(sent[e])
         /\ Tail(writes[e]) \in Seq(WriteOps)
         /\ NamesSent(Tail(writes[e]), "header", Len(sent[e]))
         /\ NamesSent(Tail(writes[e]), "body", Len(sent[e]))
         /\ NoNonce(writes[e]) => NoNonce(Tail(writes[e])) /\ Head(writes[e]).op # "nonce"
         /\ OneNonce(writes[e]) => OneNonce(Tail(writes[e]))
         /\ OneNonce(writes[e]) /\ Head(writes[e]).op = "nonce" => NoNonce(Tail(writes[e]))
<1>1. /\ writes[e] \in Seq(WriteOps) /\ Len(sent[e]) \in Nat
      /\ NamesSent(writes[e], "header", Len(sent[e]))
      /\ NamesSent(writes[e], "body", Len(sent[e]))
  BY DEF IndInv, WritesOK, RestOK
<1>2. /\ Head(writes[e]) \in WriteOps /\ Tail(writes[e]) \in Seq(WriteOps)
      /\ NamesSent(Tail(writes[e]), "header", Len(sent[e]))
      /\ NamesSent(Tail(writes[e]), "body", Len(sent[e]))
      /\ Head(writes[e]).op = "header" => Head(writes[e]).n \in 1..Len(sent[e])
      /\ Head(writes[e]).op = "body" => Head(writes[e]).n \in 1..Len(sent[e])
  BY <1>1, NamesTail
<1>3. Head(writes[e]).op \in {"nonce", "header", "body"}
  BY <1>2 DEF WriteOps
<1>4. QED
  BY <1>1, <1>2, <1>3, NonceTail

\* A header or a body is queued behind the writes s.
LEMMA WriteAdded ==
  ASSUME IndInv, NEW e \in Ends, NEW s \in Seq(WriteOps),
         NamesSent(s, "header", Len(sent[e])), NamesSent(s, "body", Len(sent[e])),
         NEW op \in {"header", "body"}, NEW n \in 1..Len(sent[e])
  PROVE  /\ Append(s, Write(e, op, n)) \in Seq(WriteOps)
         /\ NamesSent(Append(s, Write(e, op, n)), "header", Len(sent[e]))
         /\ NamesSent(Append(s, Write(e, op, n)), "body", Len(sent[e]))
         /\ NoNonce(s) => NoNonce(Append(s, Write(e, op, n)))
         /\ OneNonce(s) => OneNonce(Append(s, Write(e, op, n)))
<1>1. Len(sent[e]) \in Nat /\ n \in Nat
  BY DEF IndInv, RestOK
<1>2. Write(e, op, n) \in WriteOps /\ Write(e, op, n).op = op /\ Write(e, op, n).n = n
  BY <1>1, OpsTyped
<1>3. QED
  BY <1>1, <1>2, NamesAppend, NonceAppend

\* m_qMessageOut being empty, WriteHeader() finds nothing more to write.
LEMMA NothingQueued ==
  ASSUME RestOK, NEW e \in Ends, NEW s
  PROVE  /\ outq[e] = <<>>
         /\ QueueAfterWriteHeader(outq[e]) = <<>>
         /\ WritesAfterWriteHeader(e, outq[e], s) = s
         /\ [outq EXCEPT ![e] = QueueAfterWriteHeader(@)] = outq
  BY DEF RestOK, QueueAfterWriteHeader, WritesAfterWriteHeader

\* The queue of writes becomes s, and nothing else but it and tasks changes.
LEMMA OnlyWrites ==
  ASSUME IndInv, NEW e \in Ends, NEW s \in Seq(WriteOps),
         NamesSent(s, "header", Len(sent[e])), NamesSent(s, "body", Len(sent[e])),
         NoNonce(writes[e]) => NoNonce(s), OneNonce(writes[e]) => OneNonce(s),
         writes' = [writes EXCEPT ![e] = s], UNCHANGED <<sent, reads, connect>>
  PROVE  WritesOK' /\ ReadsOK' /\ TurnsOK'
<1>1. WritesOK' /\ writes'[e] = s
  BY WritesReplaced DEF IndInv
<1>2. ReadsOK'
  BY DEF IndInv, ReadsOK
<1>3. \A f \in Ends : f # e => writes'[f] = writes[f]
  BY DEF IndInv, WritesOK
<1>4. TurnsOK'
  BY <1>1, <1>3 DEF IndInv, TurnsOK, Ends
<1>5. QED
  BY <1>1, <1>2, <1>4

LEMMA RunSendStep ==
  ASSUME IndInv, NEW e \in Ends, RunSend(e) PROVE IndInv'
<1> DEFINE n == Head(tasks[e]).n
           s == Append(writes[e], Write(e, "header", n))
<1>1. /\ tasks[e] \in Seq(Tasks) /\ tasks[e] # <<>> /\ Len(sent[e]) \in Nat
      /\ NamesSent(tasks[e], "send", Len(sent[e]))
  BY DEF IndInv, TasksOK, RestOK, RunSend
<1>2. /\ Tail(tasks[e]) \in Seq(Tasks) /\ NamesSent(Tail(tasks[e]), "send", Len(sent[e]))
      /\ Head(tasks[e]).op = "send" => n \in 1..Len(sent[e])
  BY <1>1, NamesTail
<1>3. n \in 1..Len(sent[e])
  BY <1>2 DEF RunSend
<1>4. outq[e] = <<>>
  BY DEF IndInv, RestOK
<1>5. /\ outq' = [outq EXCEPT ![e] = QueueAfterWriteHeader(<<n>>)]
      /\ writes' = [writes EXCEPT ![e] = WritesAfterWriteHeader(e, <<n>>, writes[e])]
  BY <1>4 DEF RunSend
<1>6. outq' = outq /\ writes' = [writes EXCEPT ![e] = s]
  BY <1>4, <1>5 DEF QueueAfterWriteHeader, WritesAfterWriteHeader, IndInv, RestOK
<1>7. /\ tasks' = [tasks EXCEPT ![e] = Tail(tasks[e])]
      /\ UNCHANGED <<sent, reads, connect>>
  BY DEF RunSend, linkVars, appVars
<1>8. TasksOK'
  BY <1>2, <1>7 DEF IndInv, TasksOK
<1>9. /\ writes[e] \in Seq(WriteOps)
      /\ NamesSent(writes[e], "header", Len(sent[e]))
      /\ NamesSent(writes[e], "body", Len(sent[e]))
  BY DEF IndInv, WritesOK
<1>10. WritesOK' /\ ReadsOK' /\ TurnsOK'
  BY <1>3, <1>6, <1>7, <1>9, WriteAdded, OnlyWrites
<1>11. RestOK'
  BY <1>6 DEF IndInv, RestOK, RunSend, linkVars, appVars
<1>12. QED
  BY <1>8, <1>10, <1>11 DEF IndInv

LEMMA RunCloseStep ==
  ASSUME IndInv, NEW e \in Ends, RunClose(e) PROVE IndInv'
<1> DEFINE w == Abort(writes[e])
           r == Abort(reads[e])
<1>1. /\ tasks[e] \in Seq(Tasks) /\ tasks[e] # <<>> /\ Len(sent[e]) \in Nat
      /\ NamesSent(tasks[e], "send", Len(sent[e]))
  BY DEF IndInv, TasksOK, RestOK, RunClose
<1>2. Tail(tasks[e]) \in Seq(Tasks) /\ NamesSent(Tail(tasks[e]), "send", Len(sent[e]))
  BY <1>1, NamesTail
<1>3. /\ tasks' = [tasks EXCEPT ![e] = Tail(tasks[e])] /\ sent' = sent
      /\ writes' = [writes EXCEPT ![e] = w] /\ reads' = [reads EXCEPT ![e] = r]
  BY DEF RunClose, appVars
<1>4. TasksOK'
  BY <1>2, <1>3 DEF IndInv, TasksOK
<1>5. /\ w \in Seq(WriteOps) /\ Len(w) = Len(writes[e])
      /\ \A j \in 1..Len(writes[e]) : w[j].op = writes[e][j].op /\ w[j].n = writes[e][j].n
  BY AbortWrite DEF IndInv, WritesOK
<1>6. NamesSent(w, "header", Len(sent[e])) /\ NamesSent(w, "body", Len(sent[e]))
  BY <1>5, NamesSame DEF IndInv, WritesOK
<1>7. WritesOK' /\ writes'[e] = w
  BY <1>3, <1>5, <1>6, WritesReplaced DEF IndInv
<1>8. r \in ReadQueues /\ (reads[e] = <<>> => r = <<>>)
  BY ReadQueueAbort DEF IndInv, ReadsOK
<1>9. ReadsOK' /\ reads'[e] = r
  BY <1>3, <1>8, ReadsReplaced DEF IndInv
<1>10. /\ NoNonce(writes[e]) => NoNonce(w)
       /\ OneNonce(writes[e]) => OneNonce(w)
  BY <1>5, NonceSame
<1>11. TurnsOK'
  <2>1. CASE e = "client"
    BY <1>7, <1>8, <1>9, <1>10, <2>1 DEF IndInv, TurnsOK, RunClose
  <2>2. CASE e = "server"
    <3>1. writes'["client"] = writes["client"] /\ reads'["client"] = reads["client"]
      BY <1>3, <2>2 DEF IndInv, WritesOK, ReadsOK, Ends
    <3>2. QED
      BY <2>2, <3>1 DEF IndInv, TurnsOK, RunClose
  <2>3. QED
    BY <2>1, <2>2 DEF Ends
<1>12. RestOK'
  BY DEF IndInv, RestOK, RunClose, appVars
<1>13. QED
  BY <1>4, <1>7, <1>9, <1>11, <1>12 DEF IndInv

LEMMA WriteErrorStep ==
  ASSUME IndInv, NEW e \in Ends, WriteError(e) PROVE IndInv'
<1>1. writes[e] # <<>> /\ writes' = [writes EXCEPT ![e] = Tail(writes[e])]
  BY DEF WriteError
<1>2. UNCHANGED <<sent, reads, connect>> /\ Disconnect(e)
  BY DEF WriteError, linkVars, appVars
<1>3. TasksOK'
  BY <1>2, DisconnectTasks DEF IndInv
<1>4. WritesOK' /\ ReadsOK' /\ TurnsOK'
  BY <1>1, <1>2, WriteRemoved, OnlyWrites
<1>5. RestOK'
  BY DEF IndInv, RestOK, WriteError, linkVars, appVars
<1>6. QED
  BY <1>3, <1>4, <1>5 DEF IndInv

LEMMA HeaderWrittenStep ==
  ASSUME IndInv, NEW e \in Ends, HeaderWritten(e) PROVE IndInv'
<1> DEFINE n == Head(writes[e]).n
           ws == IF BodyLen[sent[e][n]] > 0
                 THEN Append(Tail(writes[e]), Write(e, "body", n)) ELSE Tail(writes[e])
<1>1. writes[e] # <<>> /\ Head(writes[e]).op = "header"
  BY DEF HeaderWritten
<1>2. outq' = outq /\ writes' = [writes EXCEPT ![e] = ws]
  BY NothingQueued DEF IndInv, HeaderWritten
<1>3. UNCHANGED <<tasks, sent, reads, connect>>
  BY DEF HeaderWritten, linkVars, appVars
<1>4. /\ ws \in Seq(WriteOps)
      /\ NamesSent(ws, "header", Len(sent[e])) /\ NamesSent(ws, "body", Len(sent[e]))
      /\ NoNonce(writes[e]) => NoNonce(ws)
      /\ OneNonce(writes[e]) => OneNonce(ws)
  BY <1>1, WriteRemoved, WriteAdded
<1>5. WritesOK' /\ ReadsOK' /\ TurnsOK'
  BY <1>2, <1>3, <1>4, OnlyWrites
<1>6. TasksOK'
  BY <1>3 DEF IndInv, TasksOK
<1>7. RestOK'
  BY <1>2 DEF IndInv, RestOK, HeaderWritten, linkVars, appVars
<1>8. QED
  BY <1>5, <1>6, <1>7 DEF IndInv

LEMMA BodyWrittenStep ==
  ASSUME IndInv, NEW e \in Ends, BodyWritten(e) PROVE IndInv'
<1>1. writes[e] # <<>>
  BY DEF BodyWritten
<1>2. outq' = outq /\ writes' = [writes EXCEPT ![e] = Tail(writes[e])]
  BY NothingQueued DEF IndInv, BodyWritten
<1>3. UNCHANGED <<tasks, sent, reads, connect>>
  BY DEF BodyWritten, linkVars, appVars
<1>4. WritesOK' /\ ReadsOK' /\ TurnsOK'
  BY <1>1, <1>2, <1>3, WriteRemoved, OnlyWrites
<1>5. TasksOK'
  BY <1>3 DEF IndInv, TasksOK
<1>6. RestOK'
  BY <1>2 DEF IndInv, RestOK, BodyWritten, linkVars, appVars
<1>7. QED
  BY <1>4, <1>5, <1>6 DEF IndInv

LEMMA NonceWrittenStep ==
  ASSUME IndInv, NEW e \in Ends, NonceWritten(e) PROVE IndInv'
<1> DEFINE r == Read(e, "header", PairLen, <<>>)
<1>1. writes[e] # <<>> /\ Head(writes[e]).op = "nonce"
  BY DEF NonceWritten
<1>2. writes' = [writes EXCEPT ![e] = Tail(writes[e])] /\ UNCHANGED <<tasks, sent, connect, outq>>
  BY DEF NonceWritten, linkVars, appVars
<1>3. TasksOK'
  BY <1>2 DEF IndInv, TasksOK
<1>4. WritesOK' /\ writes'[e] = Tail(writes[e])
  BY <1>1, <1>2, WriteRemoved, WritesReplaced DEF IndInv
<1>5. RestOK'
  BY DEF IndInv, RestOK, NonceWritten, linkVars, appVars
<1>6. ReadsOK' /\ TurnsOK'
  <2>1. CASE e = "client"
    <3>1. ~NoNonce(writes[e])
      BY <1>1, WriteRemoved
    <3>2. connect \notin {"no", "pending", "ok"} /\ reads[e] = <<>> /\ OneNonce(writes[e])
      BY <2>1, <3>1 DEF IndInv, TurnsOK
    <3>3. reads' = [reads EXCEPT ![e] = Append(<<>>, r)]
      BY <2>1, <3>2 DEF NonceWritten
    <3>4. r \in ReadOps /\ WellRead(r)
      <4>1. PairLen \in Nat /\ <<>> \in Words
        BY DEF PairLen, Words
      <4>2. QED
        BY <4>1, OpsTyped
    <3>5. ReadsOK'
      BY <3>3, <3>4, ReadQueueAppend, ReadsReplaced DEF IndInv
    <3>6. NoNonce(writes'[e]) /\ OneNonce(writes'[e])
      BY <1>1, <1>4, <3>2, WriteRemoved
    <3>7. QED
      BY <1>2, <2>1, <3>2, <3>5, <3>6 DEF TurnsOK
  <2>2. CASE e = "server"
    <3>1. reads' = reads
      BY <2>2 DEF NonceWritten
    <3>2. writes'["client"] = writes["client"]
      BY <1>2, <2>2 DEF IndInv, WritesOK, Ends
    <3>3. QED
      BY <1>2, <3>1, <3>2 DEF IndInv, ReadsOK, TurnsOK
  <2>3. QED
    BY <2>1, <2>2 DEF Ends
<1>7. QED
  BY <1>3, <1>4, <1>5, <1>6 DEF IndInv

-----------------------------------------------------------------------------
(* Reading.                                                                *)

\* The queue of reads, not empty, becomes s; writes and connect are unchanged.
LEMMA OnlyReads ==
  ASSUME IndInv, NEW e \in Ends, NEW s \in ReadQueues, reads[e] # <<>>,
         reads' = [reads EXCEPT ![e] = s], UNCHANGED <<writes, connect>>
  PROVE  ReadsOK' /\ TurnsOK'
<1>1. ReadsOK' /\ reads'[e] = s
  BY ReadsReplaced DEF IndInv
<1>2. \A f \in Ends : f # e => reads'[f] = reads[f]
  BY DEF IndInv, ReadsOK
<1>3. TurnsOK'
  BY <1>1, <1>2 DEF IndInv, TurnsOK, Ends
<1>4. QED
  BY <1>1, <1>3

\* After a read, the next one.
LEMMA NextRead ==
  ASSUME IndInv, NEW e \in Ends, reads[e] # <<>>, NEW op \in {"header", "body"},
         NEW len \in Nat, NEW head \in Words, op = "header" => len = PairLen
  PROVE  Append(Tail(reads[e]), Read(e, op, len, head)) \in ReadQueues
<1>1. Tail(reads[e]) = <<>>
  BY ReadQueueHead DEF IndInv, ReadsOK
<1>2. Read(e, op, len, head) \in ReadOps /\ WellRead(Read(e, op, len, head))
  BY OpsTyped
<1>3. QED
  BY <1>1, <1>2, ReadQueueAppend

\* What a read that has succeeded has read.
LEMMA DataRead ==
  ASSUME IndInv, NEW e \in Ends, reads[e] # <<>>, Head(reads[e]).ec = "ok"
  PROVE  /\ Head(reads[e]).data \in Words /\ Head(reads[e]).head \in Words
         /\ Head(reads[e]).op # "body" => /\ Len(Head(reads[e]).data) = 2
                                          /\ MessageNumber(Head(reads[e]).data) \in Nat
<1>1. Head(reads[e]) \in ReadOps /\ WellRead(Head(reads[e]))
  BY ReadQueueHead DEF IndInv, ReadsOK
<1>2. Head(reads[e]).data \in Words /\ Head(reads[e]).head \in Words
  BY <1>1 DEF ReadOps
<1>3. Head(reads[e]).op # "body" => Len(Head(reads[e]).data) = 2
  BY <1>1 DEF WellRead, PairLen
<1>4. Len(Head(reads[e]).data) = 2 => MessageNumber(Head(reads[e]).data) \in Nat
  BY <1>2 DEF Words, MessageNumber
<1>5. QED
  BY <1>2, <1>3, <1>4

LEMMA ReadErrorStep ==
  ASSUME IndInv, NEW e \in Ends, ReadError(e) PROVE IndInv'
<1>1. reads[e] # <<>> /\ reads' = [reads EXCEPT ![e] = Tail(reads[e])]
  BY DEF ReadError
<1>2. Disconnect(e) /\ UNCHANGED <<sent, writes, connect>>
  BY DEF ReadError, linkVars, appVars
<1>3. Tail(reads[e]) \in ReadQueues
  BY <1>1, ReadQueueHead, ReadQueueEmpty DEF IndInv, ReadsOK
<1>4. ReadsOK' /\ TurnsOK'
  BY <1>1, <1>2, <1>3, OnlyReads
<1>5. TasksOK'
  BY <1>2, DisconnectTasks DEF IndInv
<1>6. WritesOK'
  BY <1>2 DEF IndInv, WritesOK
<1>7. RestOK'
  BY DEF IndInv, RestOK, ReadError, linkVars, appVars
<1>8. QED
  BY <1>4, <1>5, <1>6, <1>7 DEF IndInv

LEMMA AnswerValidationStep ==
  ASSUME IndInv, AnswerValidation PROVE IndInv'
<1> DEFINE w == Write("client", "nonce", MessageNumber(Head(reads["client"]).data))
           s == Append(writes["client"], w)
<1>1. /\ reads["client"] # <<>> /\ Head(reads["client"]).ec = "ok"
      /\ Head(reads["client"]).op = "nonce" /\ "client" \in Ends
  BY DEF AnswerValidation, HasRead, Ends
<1>2. w \in WriteOps /\ w.op = "nonce"
  BY <1>1, DataRead, OpsTyped
<1>3. /\ reads' = [reads EXCEPT !["client"] = Tail(reads["client"])]
      /\ writes' = [writes EXCEPT !["client"] = s]
      /\ UNCHANGED <<tasks, sent, connect>>
  BY DEF AnswerValidation, linkVars, appVars
<1>4. Tail(reads["client"]) = <<>>
  BY <1>1, ReadQueueHead DEF IndInv, ReadsOK
<1>5. ReadsOK' /\ reads'["client"] = <<>>
  BY <1>1, <1>3, <1>4, ReadQueueEmpty, ReadsReplaced DEF IndInv
<1>6. /\ writes["client"] \in Seq(WriteOps) /\ Len(sent["client"]) \in Nat
      /\ NamesSent(writes["client"], "header", Len(sent["client"]))
      /\ NamesSent(writes["client"], "body", Len(sent["client"]))
  BY <1>1 DEF IndInv, WritesOK, RestOK
<1>7. /\ s \in Seq(WriteOps)
      /\ NamesSent(s, "header", Len(sent["client"])) /\ NamesSent(s, "body", Len(sent["client"]))
  BY <1>2, <1>6, NamesAppend
<1>8. WritesOK' /\ writes'["client"] = s
  BY <1>1, <1>3, <1>7, WritesReplaced DEF IndInv
<1>9. OneNonce(s) /\ connect \notin {"no", "pending", "ok"}
  BY <1>1, <1>2, <1>6, NonceAppend DEF IndInv, TurnsOK
<1>10. TurnsOK'
  BY <1>3, <1>5, <1>8, <1>9 DEF TurnsOK
<1>11. TasksOK'
  BY <1>3 DEF IndInv, TasksOK
<1>12. RestOK'
  BY DEF IndInv, RestOK, AnswerValidation, linkVars, appVars
<1>13. QED
  BY <1>5, <1>8, <1>10, <1>11, <1>12 DEF IndInv

LEMMA ClientValidatedStep ==
  ASSUME IndInv, ClientValidated PROVE IndInv'
<1> DEFINE s == Append(Tail(reads["server"]), Read("server", "header", PairLen, <<>>))
<1>1. /\ "server" \in Ends /\ "Client_Accepted" \in Kinds
      /\ PairLen \in Nat /\ <<>> \in Words
  BY DEF Ends, Kinds, PairLen, Words
<1>2. /\ reads["server"] # <<>> /\ reads' = [reads EXCEPT !["server"] = s]
      /\ UNCHANGED <<writes, connect>> /\ Send("server", "Client_Accepted")
  BY DEF ClientValidated, HasRead, linkVars
<1>3. s \in ReadQueues
  BY <1>1, <1>2, NextRead
<1>4. ReadsOK' /\ TurnsOK'
  BY <1>1, <1>2, <1>3, OnlyReads
<1>5. TasksOK' /\ WritesOK' /\ sent' \in [Ends -> Seq(Kinds)]
  BY <1>1, <1>2, SendGrows, SendWrites DEF IndInv
<1>6. RestOK'
  BY <1>5 DEF IndInv, RestOK, ClientValidated, linkVars
<1>7. QED
  BY <1>4, <1>5, <1>6 DEF IndInv

LEMMA ClientRejectedStep ==
  ASSUME IndInv, ClientRejected PROVE IndInv'
<1>1. "server" \in Ends
  BY DEF Ends
<1>2. /\ reads["server"] # <<>> /\ reads' = [reads EXCEPT !["server"] = Tail(reads["server"])]
      /\ UNCHANGED <<sent, writes, connect>> /\ Disconnect("server")
  BY DEF ClientRejected, HasRead, linkVars
<1>3. Tail(reads["server"]) \in ReadQueues
  BY <1>1, <1>2, ReadQueueHead, ReadQueueEmpty DEF IndInv, ReadsOK
<1>4. ReadsOK' /\ TurnsOK'
  BY <1>1, <1>2, <1>3, OnlyReads
<1>5. TasksOK'
  BY <1>1, <1>2, DisconnectTasks DEF IndInv
<1>6. WritesOK'
  BY <1>2 DEF IndInv, WritesOK
<1>7. RestOK'
  BY DEF IndInv, RestOK, ClientRejected, linkVars
<1>8. QED
  BY <1>4, <1>5, <1>6, <1>7 DEF IndInv

\* A message of words w is handed on and the next header is waited for.
LEMMA MessageAdded ==
  ASSUME IndInv, NEW e \in Ends, reads[e] # <<>>, NEW w \in Words,
         AddToIncomingMessageQueue(e, w), UNCHANGED <<writes, connect>>
  PROVE  ReadsOK' /\ TurnsOK' /\ recv' \in [Ends -> Seq(Words)]
<1> DEFINE s == Append(Tail(reads[e]), Read(e, "header", PairLen, <<>>))
<1>1. PairLen \in Nat /\ <<>> \in Words
  BY DEF PairLen, Words
<1>2. s \in ReadQueues
  BY <1>1, NextRead
<1>3. reads' = [reads EXCEPT ![e] = s] /\ recv' = [recv EXCEPT ![e] = Append(@, w)]
  BY DEF AddToIncomingMessageQueue
<1>4. recv' \in [Ends -> Seq(Words)]
  BY <1>3 DEF IndInv, RestOK
<1>5. QED
  BY <1>2, <1>3, <1>4, OnlyReads

LEMMA HeaderReadStep ==
  ASSUME IndInv, NEW e \in Ends, HeaderRead(e) PROVE IndInv'
<1> DEFINE d == Head(reads[e]).data
<1>1. /\ reads[e] # <<>> /\ Head(reads[e]).ec = "ok" /\ Head(reads[e]).op = "header"
      /\ UNCHANGED <<tasks, sent, writes, connect>>
  BY DEF HeaderRead, HasRead, linkVars
<1>2. d \in Words
  BY <1>1, DataRead
<1>3. SizesOf(Peer(e), d) \subseteq Nat
  <2>1. Peer(e) \in Ends
    BY DEF Peer, Ends
  <2>2. CASE ~HasHeaderOf(Peer(e), d)
    BY <2>2, ConnectionAssumption DEF SizesOf
  <2>3. CASE HasHeaderOf(Peer(e), d)
    <3>1. PICK n \in DOMAIN sent[Peer(e)] : SubSeq(d, 1, PairLen) = Pair(n)
      BY <2>3 DEF HasHeaderOf
    <3>2. Len(d) = 2 /\ d \in Seq(Nat \X Nat)
      BY <1>1, <1>2, DataRead DEF Words
    <3>3. d[1] = SubSeq(d, 1, PairLen)[1]
      BY <3>2 DEF PairLen
    <3>4. MessageNumber(d) = n
      <4>1. Pair(n)[1] = <<n, 1>>
        BY DEF Pair
      <4>2. d[1] = <<n, 1>>
        BY <3>1, <3>3, <4>1
      <4>3. QED
        BY <4>2 DEF MessageNumber
    <3>5. sent[Peer(e)][n] \in Kinds
      BY <2>1 DEF IndInv, RestOK
    <3>6. \A k \in Kinds : BodyLen[k] \in Nat
      BY DEF BodyLen, Kinds
    <3>7. QED
      BY <2>3, <3>4, <3>5, <3>6 DEF SizesOf
  <2>4. QED
    BY <2>2, <2>3
<1>4. PICK size \in SizesOf(Peer(e), d) :
          IF size > 0
          THEN /\ reads' = [reads EXCEPT ![e] = Append(Tail(@), Read(e, "body", size, Head(@).data))]
               /\ UNCHANGED recv
          ELSE AddToIncomingMessageQueue(e, d)
  BY DEF HeaderRead
<1>5. ReadsOK' /\ TurnsOK' /\ recv' \in [Ends -> Seq(Words)]
  <2>1. CASE size > 0
    <3>1. Append(Tail(reads[e]), Read(e, "body", size, d)) \in ReadQueues
      BY <1>1, <1>2, <1>3, NextRead
    <3>2. reads' = [reads EXCEPT ![e] = Append(Tail(reads[e]), Read(e, "body", size, d))]
      BY <1>4, <2>1
    <3>3. QED
      BY <1>1, <1>4, <2>1, <3>1, <3>2, OnlyReads DEF IndInv, RestOK
  <2>2. CASE ~(size > 0)
    BY <1>1, <1>2, <1>4, <2>2, MessageAdded
  <2>3. QED
    BY <2>1, <2>2
<1>6. TasksOK' /\ WritesOK'
  BY <1>1 DEF IndInv, TasksOK, WritesOK
<1>7. RestOK'
  BY <1>5 DEF IndInv, RestOK, HeaderRead, linkVars
<1>8. QED
  BY <1>5, <1>6, <1>7 DEF IndInv

LEMMA BodyReadStep ==
  ASSUME IndInv, NEW e \in Ends, BodyRead(e) PROVE IndInv'
<1> DEFINE w == Head(reads[e]).head \o Head(reads[e]).data
<1>1. /\ reads[e] # <<>> /\ Head(reads[e]).ec = "ok" /\ AddToIncomingMessageQueue(e, w)
      /\ UNCHANGED <<tasks, sent, writes, connect>>
  BY DEF BodyRead, HasRead, linkVars
<1>2. w \in Words
  BY <1>1, DataRead DEF Words
<1>3. ReadsOK' /\ TurnsOK' /\ recv' \in [Ends -> Seq(Words)]
  BY <1>1, <1>2, MessageAdded
<1>4. TasksOK' /\ WritesOK'
  BY <1>1 DEF IndInv, TasksOK, WritesOK
<1>5. RestOK'
  BY <1>3 DEF IndInv, RestOK, BodyRead, linkVars
<1>6. QED
  BY <1>3, <1>4, <1>5 DEF IndInv

-----------------------------------------------------------------------------
(* The programs.                                                           *)

\* A program's call of Send.
LEMMA ProgramSends ==
  ASSUME IndInv, NEW e \in Ends, NEW k \in Kinds, Send(e, k),
         UNCHANGED <<socket, linkVars, outq, ioVars, recv, validated>>,
         handled' \in [Ends -> Nat]
  PROVE  IndInv'
<1>1. TasksOK' /\ WritesOK' /\ sent' \in [Ends -> Seq(Kinds)]
  BY SendGrows, SendWrites DEF IndInv, ioVars
<1>2. ReadsOK' /\ TurnsOK'
  BY DEF IndInv, ReadsOK, TurnsOK, ioVars, linkVars
<1>3. RestOK'
  BY <1>1 DEF IndInv, RestOK, ioVars, linkVars
<1>4. QED
  BY <1>1, <1>2, <1>3 DEF IndInv

LEMMA ProgramStep ==
  ASSUME IndInv, PingServer \/ Broadcast \/ ServerHandles
  PROVE  IndInv'
<1>1. /\ "client" \in Ends /\ "server" \in Ends
      /\ "ServerPing" \in Kinds /\ "ServerMessage" \in Kinds
  BY DEF Ends, Kinds
<1>2. handled \in [Ends -> Nat]
  BY DEF IndInv, RestOK
<1>3. CASE PingServer
  BY <1>1, <1>2, <1>3, ProgramSends DEF PingServer
<1>4. CASE Broadcast
  BY <1>1, <1>2, <1>4, ProgramSends DEF Broadcast
<1>5. CASE ServerHandles
  <2>1. /\ UNCHANGED <<socket, linkVars, outq, ioVars, recv, validated>>
        /\ handled' = [handled EXCEPT !["server"] = @ + 1]
        /\ Send("server", "ServerPing") \/ UNCHANGED <<sent, tasks>>
    BY <1>5 DEF ServerHandles
  <2>2. handled' \in [Ends -> Nat]
    BY <1>1, <1>2, <2>1
  <2>3. CASE Send("server", "ServerPing")
    BY <1>1, <2>1, <2>2, <2>3, ProgramSends
  <2>4. CASE UNCHANGED <<sent, tasks>>
    <3>1. TasksOK' /\ WritesOK' /\ ReadsOK' /\ TurnsOK'
      BY <2>1, <2>4 DEF IndInv, TasksOK, WritesOK, ReadsOK, TurnsOK, ioVars, linkVars
    <3>2. RestOK'
      BY <2>1, <2>2, <2>4 DEF IndInv, RestOK, ioVars, linkVars
    <3>3. QED
      BY <3>1, <3>2 DEF IndInv
  <2>5. QED
    BY <2>1, <2>3, <2>4
<1>6. QED
  BY <1>3, <1>4, <1>5

LEMMA QuitStep ==
  ASSUME IndInv, NEW e \in Ends, Quit(e) PROVE IndInv'
<1>1. /\ tasks' = [tasks EXCEPT ![e] = <<>>]
      /\ writes' = [writes EXCEPT ![e] = <<>>]
      /\ reads' = [reads EXCEPT ![e] = <<>>]
      /\ sent' = sent
  BY DEF Quit, appVars
<1>2. /\ <<>> \in Seq(Tasks) /\ <<>> \in Seq(WriteOps) /\ <<>> \in ReadQueues
      /\ \A op, m : NamesSent(<<>>, op, m)
      /\ NoNonce(<<>>) /\ OneNonce(<<>>)
  BY DEF ReadQueues, NamesSent, NoNonce, OneNonce
<1>3. TasksOK'
  BY <1>1, <1>2 DEF IndInv, TasksOK
<1>4. WritesOK' /\ writes'[e] = <<>>
  BY <1>1, <1>2, WritesReplaced DEF IndInv
<1>5. ReadsOK' /\ reads'[e] = <<>>
  BY <1>1, <1>2, ReadsReplaced DEF IndInv
<1>6. TurnsOK'
  <2>1. CASE e = "client"
    BY <1>2, <1>4, <1>5, <2>1 DEF TurnsOK
  <2>2. CASE e = "server"
    <3>1. writes'["client"] = writes["client"] /\ reads'["client"] = reads["client"]
      BY <1>1, <2>2 DEF IndInv, WritesOK, ReadsOK, Ends
    <3>2. QED
      BY <2>2, <3>1 DEF IndInv, TurnsOK, Quit
  <2>3. QED
    BY <2>1, <2>2 DEF Ends
<1>7. RestOK'
  BY DEF IndInv, RestOK, Quit, appVars
<1>8. QED
  BY <1>3, <1>4, <1>5, <1>6, <1>7 DEF IndInv

-----------------------------------------------------------------------------
(* The theorems.                                                           *)

LEMMA NextIndInv == IndInv /\ [Next]_vars => IndInv'
<1> SUFFICES ASSUME IndInv, [Next]_vars PROVE IndInv'
  OBVIOUS
<1>1. CASE UNCHANGED vars
  <2>1. TasksOK' /\ WritesOK' /\ ReadsOK' /\ TurnsOK'
    BY <1>1 DEF IndInv, TasksOK, WritesOK, ReadsOK, TurnsOK, vars, ioVars, linkVars, appVars
  <2>2. RestOK'
    BY <1>1 DEF IndInv, RestOK, vars, ioVars, linkVars, appVars
  <2>3. QED
    BY <2>1, <2>2 DEF IndInv
<1>2. ASSUME NEW e \in Ends, Kernel(e) PROVE IndInv'
  BY <1>2, TransferStep, PlainStep, WriteFailsStep, ArriveStep, ReadFailsStep DEF Kernel
<1>3. ASSUME NEW e \in Ends, Handlers(e) PROVE IndInv'
  BY <1>3, RunSendStep, RunCloseStep, WriteErrorStep, HeaderWrittenStep, BodyWrittenStep,
     NonceWrittenStep, ReadErrorStep, HeaderReadStep, BodyReadStep DEF Handlers
<1>4. ASSUME NEW e \in Quitters, Quit(e) PROVE IndInv'
  BY <1>4, QuitStep, ConnectionAssumption DEF Ends
<1>5. CASE \/ ConnectToServer \/ LinkUp \/ Refuse \/ ConnectDone \/ Expire
           \/ ConnectTimeOut \/ Accept \/ IdExists \/ AcceptFails \/ ListenerStops
           \/ ClientHandles
  BY <1>5, PlainStep, ConnectDoneStep, ConnectTimeOutStep, AcceptStep, IdExistsStep
<1>6. CASE AnswerValidation \/ ClientValidated \/ ClientRejected
  BY <1>6, AnswerValidationStep, ClientValidatedStep, ClientRejectedStep
<1>7. CASE PingServer \/ Broadcast \/ ServerHandles
  BY <1>7, ProgramStep
<1>8. QED
  BY <1>1, <1>2, <1>3, <1>4, <1>5, <1>6, <1>7 DEF Next

LEMMA IndInvHolds == Spec => []IndInv
  BY InitIndInv, NextIndInv, PTL DEF Spec

\* Every variable of the connection keeps its type: in particular the words on
\* the wire, the operations and the tasks always name messages that were sent.
THEOREM TypeCorrect == Spec => []TypeOK
<1>1. IndInv => TypeOK
  <2> SUFFICES ASSUME IndInv PROVE TypeOK
    OBVIOUS
  <2>1. \A s \in ReadQueues : s \in Seq(ReadOps)
    BY ReadQueueShort
  <2>2. reads \in [Ends -> Seq(ReadOps)]
    BY <2>1 DEF IndInv, ReadsOK
  <2>3. outq \in [Ends -> Seq(Nat)]
    BY DEF IndInv, RestOK
  <2>4. QED
    BY <2>2, <2>3 DEF IndInv, TypeOK, TasksOK, WritesOK, RestOK
<1>2. QED
  BY <1>1, IndInvHolds, PTL

\* m_qMessageOut is empty between handlers, whatever is sent and when: the test
\* that should keep two messages from being written at once is never true.
THEOREM QueueNeverHolds == Spec => []OutQueueDrained
<1>1. IndInv => OutQueueDrained
  BY DEF IndInv, RestOK, OutQueueDrained
<1>2. QED
  BY <1>1, IndInvHolds, PTL

\* The chain of read handlers keeps asio's rule for readers.
THEOREM ReadersTakeTurns == Spec => []OneReadAtATime
<1>1. IndInv => OneReadAtATime
  <2>1. \A s \in ReadQueues : Len(s) <= 1
    BY ReadQueueShort
  <2>2. QED
    BY <2>1 DEF IndInv, ReadsOK, OneReadAtATime
<1>2. QED
  BY <1>1, IndInvHolds, PTL
=============================================================================
