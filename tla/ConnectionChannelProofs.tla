----------------------- MODULE ConnectionChannelProofs -----------------------
(***************************************************************************)
(* Theorems: the words of each end of a Connection leave in order, however *)
(* the sends overlap (WordsInOrder); and a Connection whose sends keep     *)
(* apart implements MessageChannel (ImplementsChannel).                    *)
(*                                                                         *)
(* The order of the words on the wire rests on the order of the writes     *)
(* that wait, and that on the order of the functions that will start them: *)
(* OrderAt relates the three.  What is posted is newer than all that is    *)
(* being written; a header that waits is newer than every word on the wire *)
(* and than every write ahead of it; a body is started when its header is  *)
(* out, and only once.                                                     *)
(*                                                                         *)
(* When the sends keep apart more holds (ApartInv).  As long as an end can *)
(* write, its writes form a line: each begins with the word that follows   *)
(* the last word of the one before it, or of the stream, and what is sent  *)
(* but not in the line is posted (WriterOK).  So the stream that begins    *)
(* with the number is a row of whole frames, but perhaps for the last.     *)
(* That the client's stream begins with it is known when the client has    *)
(* answered (ClientOK).  The reader is at a frame's end when it starts to  *)
(* read a header, at the header's end when it starts to read the body      *)
(* (ReaderOK): what it hands over are the frames, one by one.              *)
(***************************************************************************)
EXTENDS ConnectionHandshakeProofs

-----------------------------------------------------------------------------
(* The invariant.                                                          *)

\* Functions that will write headers run in the order of Send().
PostedInOrder(t) ==
    \A i, j \in 1..Len(t) : i < j /\ t[i].op = "send" /\ t[j].op = "send" => t[i].n < t[j].n

\* What is posted is newer than all that is being written or written.
PostedIsNew(t, s, st) ==
    \A i \in 1..Len(t) : t[i].op = "send" =>
        /\ \A j \in 1..Len(s) : s[j].op # "nonce" => s[j].n < t[i].n
        /\ \A k \in 1..Len(st) : st[k][1] < t[i].n

\* Whatever is as new as a header that is being written is a header behind it.
HeadersLead(s) ==
    \A i, j \in 1..Len(s) :
        s[i].op = "header" /\ s[j].op # "nonce" /\ s[j].n >= s[i].n =>
            s[j].op = "header" /\ j >= i

\* A header that waits is newer than all the words on the wire.
HeadersWait(s, st) ==
    \A i \in 1..Len(s), k \in 1..Len(st) :
        s[i].op = "header" /\ s[i].ec = "pending" => st[k][1] < s[i].n

\* If words of a body are on the wire, its header is not being written, and the
\* body does not wait.
BodiesFollow(s, st) ==
    \A i \in 1..Len(s), k \in 1..Len(st) :
        st[k][1] = s[i].n /\ st[k][2] > PairLen /\ s[i].op # "nonce" =>
            s[i].op = "body" /\ s[i].ec # "pending"

OneBodyEach(s) ==
    \A i, j \in 1..Len(s) : s[i].op = "body" /\ s[j].op = "body" /\ s[i].n = s[j].n => i = j

\* The order of the words themselves.
StreamInOrder(st) ==
    \A i, j \in 1..Len(st) :
        i < j /\ st[i][1] # 0 /\ st[j][1] # 0 =>
            /\ st[i][1] = st[j][1] => st[i][2] < st[j][2]
            /\ st[i][2] <= PairLen /\ st[j][2] <= PairLen => st[i][1] <= st[j][1]
WordsOfSent(st, m) == \A k \in 1..Len(st) : st[k][1] <= m

WriteOrder(s, st) == HeadersLead(s) /\ HeadersWait(s, st) /\ BodiesFollow(s, st) /\ OneBodyEach(s)
TaskOrder(t, s, st) == PostedInOrder(t) /\ PostedIsNew(t, s, st)
OrderAt(t, s, st, m) ==
    /\ TaskOrder(t, s, st) /\ WriteOrder(s, st)
    /\ StreamInOrder(st) /\ WordsOfSent(st, m)

-----------------------------------------------------------------------------
(* What each change of a queue does to the order.                          *)

\* Numbers are numbers.
LEMMA WriteTyped ==
  ASSUME NEW s \in Seq(WriteOps), NEW j \in 1..Len(s)
  PROVE  s[j] \in WriteOps /\ s[j].n \in Nat
<1>1. s[j] \in WriteOps
  OBVIOUS
<1>2. QED
  BY <1>1 DEF WriteOps

LEMMA WordTyped ==
  ASSUME NEW st \in Words, NEW k \in 1..Len(st)
  PROVE  st[k][1] \in Nat /\ st[k][2] \in Nat
<1>1. st[k] \in Nat \X Nat
  BY DEF Words
<1>2. QED
  BY <1>1

LEMMA OrderPostClose ==
  ASSUME NEW t \in Seq(Tasks), NEW s, NEW st, TaskOrder(t, s, st)
  PROVE  TaskOrder(Append(t, CloseTask), s, st)
<1>1. /\ Len(Append(t, CloseTask)) = Len(t) + 1 /\ Len(t) \in Nat
      /\ Append(t, CloseTask)[Len(t) + 1].op = "close"
      /\ \A i \in 1..Len(t) : Append(t, CloseTask)[i] = t[i]
  BY DEF CloseTask, Tasks
<1>2. \A i \in 1..(Len(t) + 1) : i \in 1..Len(t) \/ i = Len(t) + 1
  BY <1>1
<1>3. QED
  BY <1>1, <1>2 DEF TaskOrder, PostedInOrder, PostedIsNew

LEMMA OrderPostSend ==
  ASSUME NEW t \in Seq(Tasks), NEW s \in Seq(WriteOps), NEW st \in Words, NEW m \in Nat,
         TaskOrder(t, s, st), WordsOfSent(st, m), NamesSent(t, "send", m),
         \A j \in 1..Len(s) : s[j].op # "nonce" => s[j].n <= m
  PROVE  TaskOrder(Append(t, SendTask(m + 1)), s, st)
<1> DEFINE u == Append(t, SendTask(m + 1))
<1>1. /\ Len(u) = Len(t) + 1 /\ Len(t) \in Nat
      /\ u[Len(t) + 1].op = "send" /\ u[Len(t) + 1].n = m + 1
      /\ \A i \in 1..Len(t) : u[i] = t[i]
  BY DEF SendTask, Tasks
<1>2. \A i \in 1..Len(u) : i \in 1..Len(t) \/ i = Len(t) + 1
  BY <1>1
<1>3. /\ \A j \in 1..Len(s) : s[j].op # "nonce" => s[j].n < m + 1
      /\ \A k \in 1..Len(st) : st[k][1] < m + 1
      /\ \A i \in 1..Len(t) : t[i].op = "send" => t[i].n < m + 1
  <2>1. /\ \A j \in 1..Len(s) : s[j].n \in Nat
        /\ \A k \in 1..Len(st) : st[k][1] \in Nat
    BY WriteTyped, WordTyped
  <2>2. QED
    BY <2>1 DEF WordsOfSent, NamesSent
<1> HIDE DEF u
<1>4. PostedInOrder(u)
  BY <1>1, <1>2, <1>3 DEF TaskOrder, PostedInOrder
<1>5. PostedIsNew(u, s, st)
  BY <1>1, <1>2, <1>3 DEF TaskOrder, PostedIsNew
<1>6. QED
  BY <1>4, <1>5 DEF TaskOrder, u

LEMMA OrderRun ==
  ASSUME NEW t \in Seq(Tasks), t # <<>>, NEW s, NEW st, TaskOrder(t, s, st)
  PROVE  TaskOrder(Tail(t), s, st)
<1>1. /\ Len(Tail(t)) = Len(t) - 1 /\ Len(t) \in Nat
      /\ \A i \in 1..Len(Tail(t)) : Tail(t)[i] = t[i + 1] /\ i + 1 \in 1..Len(t)
  OBVIOUS
<1>2. QED
  BY <1>1 DEF TaskOrder, PostedInOrder, PostedIsNew

LEMMA OrderTail ==
  ASSUME NEW t, NEW s \in Seq(WriteOps), s # <<>>, NEW st, TaskOrder(t, s, st), WriteOrder(s, st)
  PROVE  TaskOrder(t, Tail(s), st) /\ WriteOrder(Tail(s), st) /\ Tail(s) \in Seq(WriteOps)
<1>1. /\ Len(Tail(s)) = Len(s) - 1 /\ Len(s) \in Nat /\ Tail(s) \in Seq(WriteOps)
      /\ \A i \in 1..Len(Tail(s)) : Tail(s)[i] = s[i + 1] /\ i + 1 \in 1..Len(s)
  OBVIOUS
<1>2. TaskOrder(t, Tail(s), st)
  BY <1>1 DEF TaskOrder, PostedIsNew
<1>3. HeadersLead(Tail(s))
  BY <1>1 DEF WriteOrder, HeadersLead
<1>4. HeadersWait(Tail(s), st) /\ BodiesFollow(Tail(s), st)
  BY <1>1 DEF WriteOrder, HeadersWait, BodiesFollow
<1>5. OneBodyEach(Tail(s))
  BY <1>1 DEF WriteOrder, OneBodyEach
<1>6. QED
  BY <1>1, <1>2, <1>3, <1>4, <1>5 DEF WriteOrder

\* Finishing and aborting change neither what is written nor its order.
LEMMA OrderSame ==
  ASSUME NEW t, NEW s, NEW u, NEW st, TaskOrder(t, s, st), WriteOrder(s, st), Len(u) = Len(s),
         \A j \in 1..Len(s) : /\ u[j].op = s[j].op /\ u[j].n = s[j].n
                              /\ u[j].ec = "pending" => s[j].ec = "pending"
  PROVE  TaskOrder(t, u, st) /\ WriteOrder(u, st)
  BY SMTT(30) DEF TaskOrder, WriteOrder, PostedIsNew, HeadersLead, HeadersWait, BodiesFollow, OneBodyEach

\* A function posted by Send() starts to write its header.
LEMMA OrderSend ==
  ASSUME NEW t \in Seq(Tasks), t # <<>>, Head(t).op = "send", NEW s \in Seq(WriteOps), NEW st \in Words,
         TaskOrder(t, s, st), WriteOrder(s, st),
         NEW x \in WriteOps, x.op = "header", x.n = Head(t).n
  PROVE  TaskOrder(Tail(t), Append(s, x), st) /\ WriteOrder(Append(s, x), st)
<1> DEFINE u == Append(s, x)
<1>1. /\ Len(u) = Len(s) + 1 /\ Len(s) \in Nat /\ u[Len(s) + 1] = x
      /\ \A j \in 1..Len(s) : u[j] = s[j]
  OBVIOUS
<1>2. \A j \in 1..Len(u) : j \in 1..Len(s) \/ j = Len(s) + 1
  BY <1>1
<1>3. /\ Len(Tail(t)) = Len(t) - 1 /\ Len(t) \in Nat /\ t[1] = Head(t) /\ 1 \in 1..Len(t)
      /\ \A i \in 1..Len(Tail(t)) : Tail(t)[i] = t[i + 1] /\ i + 1 \in 1..Len(t) /\ 1 < i + 1
  OBVIOUS
<1>4. /\ \A j \in 1..Len(s) : s[j].op # "nonce" => s[j].n < x.n
      /\ \A k \in 1..Len(st) : st[k][1] < x.n
  BY <1>3 DEF TaskOrder, PostedIsNew
<1>5. /\ \A j \in 1..Len(s) : s[j].n \in Nat
      /\ \A k \in 1..Len(st) : st[k][1] \in Nat
      /\ x.n \in Nat
  <2>1. x.n \in Nat
    BY DEF WriteOps
  <2>2. QED
    BY <2>1, WriteTyped, WordTyped
<1> HIDE DEF u
<1>6. PostedIsNew(Tail(t), u, st)
  <2>1. \A i \in 1..Len(Tail(t)) : Tail(t)[i].op = "send" => x.n < Tail(t)[i].n
    BY <1>3 DEF TaskOrder, PostedInOrder
  <2>2. \A i \in 1..Len(Tail(t)) : Tail(t)[i].op = "send" =>
          /\ \A j \in 1..Len(s) : s[j].op # "nonce" => s[j].n < Tail(t)[i].n
          /\ \A k \in 1..Len(st) : st[k][1] < Tail(t)[i].n
    BY <1>3 DEF TaskOrder, PostedIsNew
  <2>3. QED
    BY <1>1, <1>2, <2>1, <2>2 DEF PostedIsNew
<1>7. PostedInOrder(Tail(t))
  BY <1>3 DEF TaskOrder, PostedInOrder
<1>8. HeadersLead(u)
  BY SMTT(30), <1>1, <1>2, <1>4, <1>5 DEF WriteOrder, HeadersLead
<1>9. HeadersWait(u, st)
  BY <1>1, <1>2, <1>4 DEF WriteOrder, HeadersWait
<1>12. BodiesFollow(u, st)
  <2>1. \A k \in 1..Len(st) : st[k][1] # x.n
    BY <1>4, <1>5
  <2>2. QED
    BY <1>1, <1>2, <2>1 DEF WriteOrder, BodiesFollow
<1>10. OneBodyEach(u)
  BY <1>1, <1>2 DEF WriteOrder, OneBodyEach
<1>11. QED
  BY <1>6, <1>7, <1>8, <1>9, <1>10, <1>12 DEF TaskOrder, WriteOrder, u

\* After its header, a body is written.
LEMMA OrderBody ==
  ASSUME NEW t \in Seq(Tasks), NEW s \in Seq(WriteOps), s # <<>>, Head(s).op = "header", NEW st \in Words,
         TaskOrder(t, s, st), WriteOrder(s, st),
         NEW x \in WriteOps, x.op = "body", x.n = Head(s).n
  PROVE  TaskOrder(t, Append(Tail(s), x), st) /\ WriteOrder(Append(Tail(s), x), st)
<1> DEFINE r == Tail(s)
           u == Append(r, x)
<1>1. TaskOrder(t, r, st) /\ WriteOrder(r, st) /\ r \in Seq(WriteOps)
  BY OrderTail
<1>2. /\ Len(r) = Len(s) - 1 /\ Len(s) \in Nat /\ s[1] = Head(s) /\ 1 \in 1..Len(s)
      /\ \A i \in 1..Len(r) : r[i] = s[i + 1] /\ i + 1 \in 1..Len(s) /\ ~(1 >= i + 1)
  OBVIOUS
<1>3. \A j \in 1..Len(s) : s[j].n \in Nat
  BY WriteTyped
<1>4. /\ \A i \in 1..Len(r) : r[i].op = "header" => ~(x.n >= r[i].n)
      /\ \A i \in 1..Len(r) : r[i].op = "body" => r[i].n # x.n
      /\ \A k \in 1..Len(st) : st[k][1] = x.n => ~(st[k][2] > PairLen)
  <2>1. \A i \in 1..Len(r) : r[i].op = "header" => ~(x.n >= r[i].n)
    BY <1>2, <1>3 DEF WriteOrder, HeadersLead
  <2>2. \A i \in 1..Len(r) : r[i].op = "body" => r[i].n # x.n
    BY <1>2, <1>3 DEF WriteOrder, HeadersLead
  <2>3. \A k \in 1..Len(st) : st[k][1] = x.n => ~(st[k][2] > PairLen)
    BY <1>2 DEF WriteOrder, BodiesFollow
  <2>4. QED
    BY <2>1, <2>2, <2>3
<1>5. \A i \in 1..Len(t) : t[i].op = "send" => x.n < t[i].n
  BY <1>2 DEF TaskOrder, PostedIsNew
<1> HIDE DEF r
<1>6. /\ Len(u) = Len(r) + 1 /\ Len(r) \in Nat /\ u[Len(r) + 1] = x
      /\ \A j \in 1..Len(r) : u[j] = r[j]
  BY <1>1
<1>7. \A j \in 1..Len(u) : j \in 1..Len(r) \/ j = Len(r) + 1
  BY <1>6
<1> HIDE DEF u
<1>8. TaskOrder(t, u, st)
  BY <1>1, <1>5, <1>6, <1>7 DEF TaskOrder, PostedIsNew
<1>9. HeadersLead(u)
  BY <1>1, <1>4, <1>6, <1>7 DEF WriteOrder, HeadersLead
<1>10. HeadersWait(u, st) /\ BodiesFollow(u, st)
  BY ZenonT(40), <1>1, <1>4, <1>6, <1>7 DEF WriteOrder, HeadersWait, BodiesFollow
<1>11. OneBodyEach(u)
  BY <1>1, <1>4, <1>6, <1>7 DEF WriteOrder, OneBodyEach
<1>12. QED
  BY <1>8, <1>9, <1>10, <1>11 DEF WriteOrder, r, u

\* The number in the words a write puts on the wire.
FirstNumber(x) == IF x.op = "nonce" THEN 0 ELSE x.n

\* The handshake's numbers are not among the messages.
LEMMA OrderAnswer ==
  ASSUME NEW t \in Seq(Tasks), NEW s \in Seq(WriteOps), NEW st \in Words, NEW m \in Nat,
         TaskOrder(t, s, st), WriteOrder(s, st),
         NEW x \in WriteOps, x.op = "nonce"
  PROVE  TaskOrder(t, Append(s, x), st) /\ WriteOrder(Append(s, x), st)
<1> DEFINE u == Append(s, x)
<1>1. /\ Len(u) = Len(s) + 1 /\ Len(s) \in Nat /\ u[Len(s) + 1] = x
      /\ \A j \in 1..Len(s) : u[j] = s[j]
  OBVIOUS
<1>2. \A j \in 1..Len(u) : j \in 1..Len(s) \/ j = Len(s) + 1
  BY <1>1
<1> HIDE DEF u
<1>3. TaskOrder(t, u, st)
  BY <1>1, <1>2 DEF TaskOrder, PostedIsNew
<1>4. HeadersLead(u)
  BY <1>1, <1>2 DEF WriteOrder, HeadersLead
<1>5. HeadersWait(u, st) /\ BodiesFollow(u, st)
  BY SMTT(30), <1>1, <1>2 DEF WriteOrder, HeadersWait, BodiesFollow
<1>6. OneBodyEach(u)
  BY <1>1, <1>2 DEF WriteOrder, OneBodyEach
<1>7. QED
  BY <1>3, <1>4, <1>5, <1>6 DEF WriteOrder, u

\* The oldest write goes out: the words of a header are newer than all that is on
\* the wire, the words of a body come behind those of its header.
LEMMA OrderTransfer ==
  ASSUME NEW t \in Seq(Tasks), NEW s \in Seq(WriteOps), NEW st \in Words, NEW m \in Nat,
         OrderAt(t, s, st, m),
         NEW i \in 1..Len(s), IsFirstPending(s, i),
         NamesSent(t, "send", m),
         \A j \in 1..Len(s) : s[j].op # "nonce" => s[j].n \in 1..m,
         NEW w \in Words,
         \A k \in 1..Len(w) : /\ w[k][1] = FirstNumber(s[i])
                              /\ s[i].op # "nonce" => (s[i].op = "body" <=> w[k][2] > PairLen),
         \A k, l \in 1..Len(w) : k < l => w[k][2] < w[l][2]
  PROVE  OrderAt(t, Finish(s, i, "ok"), st \o w, m)
<1> DEFINE u == Finish(s, i, "ok")
           v == st \o w
           n == FirstNumber(s[i])
<1>1. /\ Len(u) = Len(s) /\ u[i].ec = "ok"
      /\ \A j \in 1..Len(s) : /\ u[j].op = s[j].op /\ u[j].n = s[j].n
                              /\ u[j].ec = "pending" => (s[j].ec = "pending" /\ j # i)
                              /\ s[j].ec # "pending" => u[j].ec # "pending"
  <2>1. i \in DOMAIN s /\ "ok" \in Results
    BY DEF Results
  <2>2. \A j \in 1..Len(s) : j # i => u[j] = s[j]
    BY <2>1, FinishOutcome
  <2>3. QED
    BY ZenonT(40), <2>1, <2>2, FinishOutcome, FinishWrite
<1>2. /\ Len(st) \in Nat /\ Len(w) \in Nat /\ Len(v) = Len(st) + Len(w)
      /\ \A k \in 1..Len(st) : v[k] = st[k]
      /\ \A k \in 1..Len(w) : v[Len(st) + k] = w[k]
  BY ConcatWords
<1> HIDE DEF u, v
\* A word is an old one or a new one.
<1>3. \A k \in 1..Len(v) :
         \/ k \in 1..Len(st) /\ v[k] = st[k]
         \/ /\ k > Len(st) /\ k - Len(st) \in 1..Len(w) /\ v[k] = w[k - Len(st)]
            /\ v[k][1] = n /\ (s[i].op # "nonce" => (s[i].op = "body" <=> v[k][2] > PairLen))
  <2> TAKE k \in 1..Len(v)
  <2>1. CASE k \in 1..Len(st)
    BY <1>2, <2>1
  <2>2. CASE k \notin 1..Len(st)
    <3>1. k > Len(st) /\ k - Len(st) \in 1..Len(w) /\ k = Len(st) + (k - Len(st))
      BY <1>2, <2>2
    <3>2. v[k] = w[k - Len(st)]
      <4> DEFINE l == k - Len(st)
      <4>1. v[Len(st) + l] = w[l]
        BY <1>2, <3>1
      <4>2. QED
        BY <3>1, <4>1
    <3>3. w[k - Len(st)][1] = n /\ (s[i].op # "nonce" => (s[i].op = "body" <=> w[k - Len(st)][2] > PairLen))
      BY <3>1
    <3>4. QED
      BY <3>1, <3>2, <3>3
  <2>3. QED
    BY <2>1, <2>2
<1>4. /\ n \in Nat /\ (s[i].op # "nonce" => n = s[i].n)
      /\ \A j \in 1..Len(s) : s[j] \in WriteOps /\ s[j].n \in Nat
      /\ \A k \in 1..Len(st) : st[k][1] \in Nat /\ st[k][2] \in Nat
      /\ \A k \in 1..Len(w) : w[k][1] \in Nat /\ w[k][2] \in Nat
  BY WriteTyped, WordTyped DEF FirstNumber
<1>5. s[i].ec = "pending" /\ \A j \in 1..Len(s) : u[j].ec = "pending" => j > i
  <2>1. \A j \in 1..Len(s) : j < i => j \in 1..(i - 1)
    OBVIOUS
  <2>2. \A j \in 1..Len(s) : j < i \/ j = i \/ j > i
    OBVIOUS
  <2>3. QED
    BY <1>1, <2>1, <2>2 DEF IsFirstPending
<1>6. TaskOrder(t, u, v)
  <2>1. \A j \in 1..Len(t) : t[j].op = "send" => \A k \in 1..Len(v) : v[k][1] < t[j].n
    <3>1. ASSUME NEW j \in 1..Len(t), t[j].op = "send" PROVE n < t[j].n
      BY <3>1 DEF OrderAt, TaskOrder, PostedIsNew, NamesSent, FirstNumber
    <3>2. QED
      BY <1>3, <3>1 DEF OrderAt, TaskOrder, PostedIsNew
  <2>2. QED
    BY <1>1, <2>1 DEF OrderAt, TaskOrder, PostedIsNew
<1>7. HeadersLead(u)
  BY <1>1 DEF OrderAt, WriteOrder, HeadersLead
<1>8. HeadersWait(u, v)
  <2> SUFFICES ASSUME NEW j \in 1..Len(s), NEW k \in 1..Len(v), s[j].op = "header", u[j].ec = "pending"
               PROVE  v[k][1] < s[j].n
    BY <1>1 DEF HeadersWait
  <2>1. s[j].ec = "pending" /\ j > i
    BY <1>1, <1>5
  <2>2. CASE v[k] = st[k] /\ k \in 1..Len(st)
    BY <2>1, <2>2 DEF OrderAt, WriteOrder, HeadersWait
  <2>3. CASE v[k][1] = n
    <3>1. s[i].op # "nonce" => ~(s[i].n >= s[j].n)
      BY <2>1 DEF OrderAt, WriteOrder, HeadersLead
    <3>2. s[i].op = "nonce" => n = 0
      BY DEF FirstNumber
    <3>3. s[j].n > 0
      BY <1>4
    <3>4. QED
      BY <1>4, <2>3, <3>1, <3>2, <3>3
  <2>4. QED
    BY <1>3, <2>2, <2>3
<1>9. BodiesFollow(u, v)
  <2> SUFFICES ASSUME NEW j \in 1..Len(s), NEW k \in 1..Len(v),
                      v[k][1] = s[j].n, v[k][2] > PairLen, s[j].op # "nonce"
               PROVE  s[j].op = "body" /\ u[j].ec # "pending"
    BY <1>1 DEF BodiesFollow
  <2>1. CASE v[k] = st[k] /\ k \in 1..Len(st)
    BY <1>1, <2>1 DEF OrderAt, WriteOrder, BodiesFollow
  <2>2. CASE v[k][1] = n /\ s[i].op = "body"
    <3>1. s[j].op # "header"
      <4>1. s[i].n >= s[j].n /\ s[i].op = "body"
        BY <1>4, <2>2
      <4>2. QED
        BY <4>1 DEF OrderAt, WriteOrder, HeadersLead
    <3>2. s[j].op = "body"
      BY <1>4, <3>1 DEF WriteOps
    <3>3. j = i
      BY <1>4, <2>2, <3>2 DEF OrderAt, WriteOrder, OneBodyEach
    <3>4. QED
      BY <1>1, <3>2, <3>3
  <2>3. CASE v[k][1] = 0
    <3>1. s[j].n \in 1..m
      OBVIOUS
    <3>2. QED
      BY <2>3, <3>1
  <2>4. QED
    BY <1>3, <2>1, <2>2, <2>3 DEF FirstNumber
<1>10. OneBodyEach(u)
  BY <1>1 DEF OrderAt, WriteOrder, OneBodyEach
<1>11. StreamInOrder(v)
  <2> SUFFICES ASSUME NEW a \in 1..Len(v), NEW b \in 1..Len(v), a < b, v[a][1] # 0, v[b][1] # 0
               PROVE  /\ v[a][1] = v[b][1] => v[a][2] < v[b][2]
                      /\ v[a][2] <= PairLen /\ v[b][2] <= PairLen => v[a][1] <= v[b][1]
    BY DEF StreamInOrder
  <2>1. CASE a \in 1..Len(st) /\ b \in 1..Len(st)
    <3>1. v[a] = st[a] /\ v[b] = st[b]
      BY <1>2, <2>1
    <3>2. QED
      BY <2>1, <3>1 DEF OrderAt, StreamInOrder
  <2>2. CASE a > Len(st) /\ b > Len(st)
    <3>1. /\ a - Len(st) \in 1..Len(w) /\ b - Len(st) \in 1..Len(w)
          /\ a - Len(st) < b - Len(st)
          /\ v[a] = w[a - Len(st)] /\ v[b] = w[b - Len(st)]
      <4>1. a \notin 1..Len(st) /\ b \notin 1..Len(st)
        BY <1>2, <2>2
      <4>2. a - Len(st) < b - Len(st)
        BY <1>2
      <4>3. QED
        BY <1>3, <4>1, <4>2
    <3>2. v[a][1] = n /\ v[b][1] = n /\ v[a][2] < v[b][2]
      BY <3>1
    <3>3. QED
      BY <1>4, <3>2
  <2>3. CASE a \in 1..Len(st) /\ b > Len(st)
    <3>1. /\ v[a] = st[a] /\ v[b][1] = n /\ (s[i].op # "nonce" => (s[i].op = "body" <=> v[b][2] > PairLen))
          /\ v[b][2] \in Nat /\ st[a][1] \in Nat /\ st[a][2] \in Nat
      <4>1. v[a] = st[a] /\ st[a][1] \in Nat /\ st[a][2] \in Nat
        BY <1>2, <1>4, <2>3
      <4>2. b \notin 1..Len(st)
        BY <1>2, <2>3
      <4>3. /\ b - Len(st) \in 1..Len(w) /\ v[b] = w[b - Len(st)]
            /\ v[b][1] = n /\ (s[i].op # "nonce" => (s[i].op = "body" <=> v[b][2] > PairLen))
        BY <1>3, <4>2
      <4>4. QED
        BY <1>4, <4>1, <4>3
    <3>2. s[i].op # "nonce" /\ n = s[i].n
      BY <1>4, <3>1 DEF FirstNumber
    <3>3. CASE s[i].op = "header"
      <4>1. st[a][1] < n
        BY <1>5, <2>3, <3>2, <3>3 DEF OrderAt, WriteOrder, HeadersWait
      <4>2. QED
        BY SMTT(30), <1>4, <3>1, <4>1
    <3>4. CASE s[i].op = "body"
      <4>1. st[a][1] = n => ~(st[a][2] > PairLen)
        BY <1>5, <2>3, <3>2 DEF OrderAt, WriteOrder, BodiesFollow
      <4>2. QED
        BY <3>1, <3>4, <4>1 DEF PairLen
    <3>5. QED
      BY <1>4, <3>2, <3>3, <3>4 DEF WriteOps
  <2>4. QED
    BY <1>2, <2>1, <2>2, <2>3
<1>12. WordsOfSent(v, m)
  <2>1. n <= m
    BY <1>4 DEF FirstNumber
  <2>2. QED
    BY <1>3, <2>1 DEF OrderAt, WordsOfSent
<1>13. PostedInOrder(t)
  BY DEF OrderAt, TaskOrder
<1>14. QED
  BY <1>6, <1>7, <1>8, <1>9, <1>10, <1>11, <1>12 DEF OrderAt, WriteOrder, u, v

\* What a write puts on the wire: a pair, or the words behind it.
LEMMA WordsOfWrite ==
  ASSUME IndInv, NEW e \in Ends, NEW i \in DOMAIN writes[e]
  PROVE  LET w == WordsOf(e, writes[e][i]) IN
         /\ \A k \in 1..Len(w) :
               /\ w[k][1] = FirstNumber(writes[e][i])
               /\ writes[e][i].op # "nonce" => (writes[e][i].op = "body" <=> w[k][2] > PairLen)
         /\ \A k, l \in 1..Len(w) : k < l => w[k][2] < w[l][2]
<1> DEFINE x == writes[e][i]
<1>1. /\ x \in WriteOps /\ x.n \in Nat
      /\ x.op = "body" => sent[e][x.n] \in Kinds
  <2>1. x \in WriteOps /\ (x.op = "body" => x.n \in 1..Len(sent[e]))
    BY TransferEffect
  <2>2. QED
    BY <2>1 DEF WriteOps, IndInv, RestOK
<1> HIDE DEF x
<1>2. CASE x.op = "body"
  <2> DEFINE l == BodyLen[sent[e][x.n]]
             w == [k \in 1..l |-> <<x.n, PairLen + k>>]
  <2>1. l \in Nat
    BY <1>1, <1>2 DEF BodyLen, Kinds
  <2>2. WordsOf(e, x) = w
    BY <1>2 DEF WordsOf, Body
  <2> HIDE DEF l
  <2>3. Len(w) = l /\ \A k \in 1..l : w[k][1] = x.n /\ w[k][2] = PairLen + k
    BY <2>1
  <2>4. QED
    BY <1>2, <2>1, <2>2, <2>3 DEF PairLen, FirstNumber, x
<1>3. CASE x.op = "header"
  <2>1. WordsOf(e, x) = <<<<x.n, 1>>, <<x.n, 2>>>>
    BY <1>3 DEF WordsOf, Pair
  <2>2. QED
    BY <1>1, <1>3, <2>1 DEF PairLen, FirstNumber, x
<1>4. CASE x.op = "nonce"
  <2>1. WordsOf(e, x) = <<<<0, 1>>, <<0, 2>>>> \/ WordsOf(e, x) = <<<<0, 3>>, <<0, 4>>>>
    BY <1>4 DEF WordsOf, Answer, Pair
  <2>2. QED
    BY <1>4, <2>1 DEF FirstNumber, x
<1>5. QED
  BY <1>1, <1>2, <1>3, <1>4 DEF WriteOps

-----------------------------------------------------------------------------
(* Every step keeps the order.                                             *)

\* The order at each end.
OrderInv == \A e \in Ends : OrderAt(tasks[e], writes[e], stream[e], Len(sent[e]))

LEMMA InitOrder == Init => OrderInv
  BY DEF Init, OrderInv, OrderAt, TaskOrder, PostedInOrder, PostedIsNew, WriteOrder, HeadersLead,
         HeadersWait, BodiesFollow, OneBodyEach, StreamInOrder, WordsOfSent, Ends

\* What is written at an end is among the messages sent, or the handshake's.
LEMMA WritesOfSent ==
  ASSUME IndInv, NEW e \in Ends
  PROVE  /\ tasks[e] \in Seq(Tasks) /\ writes[e] \in Seq(WriteOps) /\ stream[e] \in Words
         /\ Len(sent[e]) \in Nat
         /\ NamesSent(tasks[e], "send", Len(sent[e])) /\ NamesSent(writes[e], "header", Len(sent[e]))
         /\ \A j \in 1..Len(writes[e]) :
               writes[e][j].op # "nonce" => writes[e][j].n \in 1..Len(sent[e])
<1>1. /\ tasks[e] \in Seq(Tasks) /\ writes[e] \in Seq(WriteOps) /\ stream[e] \in Words
      /\ Len(sent[e]) \in Nat
      /\ NamesSent(tasks[e], "send", Len(sent[e])) /\ NamesSent(writes[e], "header", Len(sent[e]))
  BY DEF IndInv, TasksOK, WritesOK, RestOK
<1>2. ASSUME NEW j \in 1..Len(writes[e]), writes[e][j].op # "nonce"
      PROVE  writes[e][j].n \in 1..Len(sent[e])
  <2>1. writes[e][j].op \in {"nonce", "header", "body"}
    BY <1>1, WriteTyped DEF WriteOps
  <2>2. QED
    BY <1>2, <2>1 DEF IndInv, WritesOK, NamesSent
<1>3. QED
  BY <1>1, <1>2

\* What is posted at e, when nothing is written there.
LEMMA OrderOfPosts ==
  ASSUME IndInv, HandshakeInv, OrderInv, NEW e \in Ends,
         writes'[e] = writes[e], stream'[e] = stream[e],
         \/ sent'[e] = sent[e] /\ tasks'[e] = tasks[e]
         \/ sent'[e] = sent[e] /\ Disconnect(e)
         \/ \E k \in Kinds : Send(e, k)
  PROVE  OrderAt(tasks'[e], writes'[e], stream'[e], Len(sent'[e]))
<1> DEFINE t == tasks[e]
           s == writes[e]
           st == stream[e]
           m == Len(sent[e])
<1>1. /\ t \in Seq(Tasks) /\ s \in Seq(WriteOps) /\ st \in Words /\ m \in Nat
      /\ NamesSent(t, "send", m)
      /\ \A j \in 1..Len(s) : s[j].op # "nonce" => s[j].n \in 1..m
      /\ DOMAIN tasks = Ends /\ DOMAIN sent = Ends /\ sent[e] \in Seq(Kinds)
  BY WritesOfSent DEF IndInv, TasksOK, RestOK
<1>2. OrderAt(t, s, st, m)
  BY DEF OrderInv
<1>3. CASE sent'[e] = sent[e] /\ tasks'[e] = tasks[e]
  BY <1>2, <1>3
<1>4. CASE sent'[e] = sent[e] /\ Disconnect(e)
  <2>1. tasks'[e] = t \/ tasks'[e] = Append(t, CloseTask)
    BY <1>1, <1>4 DEF Disconnect, Post
  <2>2. TaskOrder(Append(t, CloseTask), s, st)
    BY <1>1, <1>2, OrderPostClose DEF OrderAt
  <2>3. QED
    BY <1>2, <1>4, <2>1, <2>2 DEF OrderAt
<1>5. ASSUME NEW k \in Kinds, Send(e, k)
      PROVE  OrderAt(tasks'[e], writes'[e], stream'[e], Len(sent'[e]))
  <2>1. tasks'[e] = Append(t, SendTask(m + 1)) /\ Len(sent'[e]) = m + 1
    BY <1>1, <1>5 DEF Send, Post
  <2>2. TaskOrder(Append(t, SendTask(m + 1)), s, st)
    BY <1>1, <1>2, OrderPostSend DEF OrderAt
  <2>3. WordsOfSent(st, m + 1)
    <3>1. \A k1 \in 1..Len(st) : st[k1][1] \in Nat
      BY <1>1, WordTyped
    <3>2. QED
      BY <1>1, <1>2, <3>1 DEF OrderAt, WordsOfSent
  <2>4. QED
    BY <1>2, <2>1, <2>2, <2>3 DEF OrderAt
<1>6. QED
  BY <1>3, <1>4, <1>5

\* A step that neither sends nor puts a word on the wire.
LEMMA OrderOfQueues ==
  ASSUME OrderInv, NEW e \in Ends, stream'[e] = stream[e], sent'[e] = sent[e],
         TaskOrder(tasks'[e], writes'[e], stream[e]), WriteOrder(writes'[e], stream[e])
  PROVE  OrderAt(tasks'[e], writes'[e], stream'[e], Len(sent'[e]))
  BY DEF OrderInv, OrderAt

LEMMA OrderStep ==
  ASSUME IndInv, HandshakeInv, OrderInv, [Next]_vars
  PROVE  OrderInv'
<1> SUFFICES ASSUME NEW e \in Ends
             PROVE  OrderAt(tasks'[e], writes'[e], stream'[e], Len(sent'[e]))
  BY DEF OrderInv
<1> DEFINE t == tasks[e]
           s == writes[e]
           st == stream[e]
           m == Len(sent[e])
           Goal == OrderAt(tasks'[e], writes'[e], stream'[e], Len(sent'[e]))
<1>1. /\ t \in Seq(Tasks) /\ s \in Seq(WriteOps) /\ st \in Words /\ m \in Nat
      /\ NamesSent(t, "send", m) /\ NamesSent(s, "header", m)
      /\ \A j \in 1..Len(s) : s[j].op # "nonce" => s[j].n \in 1..m
      /\ DOMAIN tasks = Ends /\ DOMAIN writes = Ends /\ DOMAIN stream = Ends
  BY WritesOfSent DEF IndInv, TasksOK, WritesOK, RestOK
<1>2. OrderAt(t, s, st, m) /\ TaskOrder(t, s, st) /\ WriteOrder(s, st)
  BY DEF OrderInv, OrderAt
<1>3. CASE Transfer(e)
  <2>1. PICK i \in DOMAIN s :
          /\ IsFirstPending(s, i)
          /\ stream' = [stream EXCEPT ![e] = @ \o WordsOf(e, s[i])]
          /\ writes' = [writes EXCEPT ![e] = Finish(@, i, "ok")]
          /\ UNCHANGED <<tasks, sent>>
    BY <1>3 DEF Transfer, appVars
  <2> DEFINE w == WordsOf(e, s[i])
  <2>2. /\ stream'[e] = st \o w /\ writes'[e] = Finish(s, i, "ok")
        /\ tasks'[e] = t /\ sent'[e] = sent[e]
    BY <1>1, <2>1
  <2>3. i \in 1..Len(s) /\ w \in Words
    BY TransferEffect
  <2>4. /\ \A k \in 1..Len(w) :
              /\ w[k][1] = FirstNumber(s[i])
              /\ s[i].op # "nonce" => (s[i].op = "body" <=> w[k][2] > PairLen)
        /\ \A k, l \in 1..Len(w) : k < l => w[k][2] < w[l][2]
    BY WordsOfWrite
  <2> HIDE DEF w
  <2>5. OrderAt(t, Finish(s, i, "ok"), st \o w, m)
    BY <1>1, <1>2, <2>1, <2>3, <2>4, OrderTransfer
  <2>6. QED
    BY <2>2, <2>5
<1>4. CASE WriteFails(e)
  <2>1. PICK i \in DOMAIN s :
          /\ writes' = [writes EXCEPT ![e] = Finish(@, i, "failed")]
          /\ UNCHANGED <<tasks, sent, stream>>
    BY <1>4 DEF WriteFails, appVars
  <2>2. i \in DOMAIN s /\ "failed" \in Results
    BY DEF Results
  <2>3. \A j \in 1..Len(s) : j # i => Finish(s, i, "failed")[j] = s[j]
    BY <1>1, <2>2, FinishOutcome
  <2>4. /\ Len(Finish(s, i, "failed")) = Len(s) /\ Finish(s, i, "failed")[i].ec = "failed"
        /\ \A j \in 1..Len(s) : /\ Finish(s, i, "failed")[j].op = s[j].op
                                /\ Finish(s, i, "failed")[j].n = s[j].n
    BY <1>1, <2>2, FinishOutcome, FinishWrite
  <2>5. \A j \in 1..Len(s) : Finish(s, i, "failed")[j].ec = "pending" => s[j].ec = "pending"
    BY <2>3, <2>4
  <2>6. TaskOrder(t, Finish(s, i, "failed"), st) /\ WriteOrder(Finish(s, i, "failed"), st)
    BY <1>2, <2>4, <2>5, OrderSame
  <2>7. writes'[e] = Finish(s, i, "failed") /\ tasks'[e] = t
    BY <1>1, <2>1
  <2>8. QED
    BY <2>1, <2>6, <2>7, OrderOfQueues
<1>5. CASE RunSend(e)
  <2> DEFINE n == Head(t).n
             x == Write(e, "header", n)
  <2>1. n \in 1..m /\ writes' = [writes EXCEPT ![e] = Append(s, x)]
    BY <1>5, RunSendEffect
  <2>2. /\ t # <<>> /\ Head(t).op = "send" /\ tasks'[e] = Tail(t)
        /\ stream' = stream /\ sent' = sent
    BY <1>1, <1>5 DEF RunSend, appVars
  <2>3. x \in WriteOps /\ x.op = "header" /\ x.n = n
    BY <1>1, <2>1, OpsTyped
  <2> HIDE DEF x
  <2>4. TaskOrder(Tail(t), Append(s, x), st) /\ WriteOrder(Append(s, x), st)
    BY <1>1, <1>2, <2>2, <2>3, OrderSend
  <2>5. writes'[e] = Append(s, x)
    BY <1>1, <2>1
  <2>6. QED
    BY <2>2, <2>4, <2>5, OrderOfQueues
<1>6. CASE RunClose(e)
  <2>1. /\ t # <<>> /\ tasks'[e] = Tail(t) /\ writes'[e] = Abort(s)
        /\ stream' = stream /\ sent' = sent
    BY <1>1, <1>6 DEF RunClose, appVars
  <2>2. /\ Len(Abort(s)) = Len(s)
        /\ \A j \in 1..Len(s) : /\ Abort(s)[j].op = s[j].op /\ Abort(s)[j].n = s[j].n
                                /\ Abort(s)[j].ec = "pending" => s[j].ec = "pending"
    BY <1>1, AbortWrite, AbortOutcome
  <2>3. TaskOrder(Tail(t), s, st)
    BY <1>1, <1>2, <2>1, OrderRun
  <2>4. TaskOrder(Tail(t), Abort(s), st) /\ WriteOrder(Abort(s), st)
    BY <1>2, <2>2, <2>3, OrderSame
  <2>5. QED
    BY <2>1, <2>4, OrderOfQueues
<1>7. CASE Quit(e)
  <2>1. tasks'[e] = <<>> /\ writes'[e] = <<>> /\ stream' = stream /\ sent' = sent
    BY <1>1, <1>7 DEF Quit, appVars
  <2>2. TaskOrder(<<>>, <<>>, st) /\ WriteOrder(<<>>, st)
    BY DEF TaskOrder, WriteOrder, PostedInOrder, PostedIsNew, HeadersLead, HeadersWait,
           BodiesFollow, OneBodyEach
  <2>3. QED
    BY <2>1, <2>2, OrderOfQueues
<1>8. CASE HeaderWritten(e)
  <2> DEFINE x == Write(e, "body", Head(s).n)
  <2>1. /\ s # <<>> /\ Head(s).op = "header" /\ tasks' = tasks /\ stream' = stream /\ sent' = sent
    BY <1>8 DEF HeaderWritten, appVars
  <2>2. writes'[e] = Append(Tail(s), x) \/ writes'[e] = Tail(s)
    BY <1>1, <1>8, HeaderWrittenEffect
  <2>3. Head(s).n \in Nat
    BY <1>1, <2>1 DEF WriteOps
  <2>4. x \in WriteOps /\ x.op = "body" /\ x.n = Head(s).n
    BY <2>3, OpsTyped
  <2> HIDE DEF x
  <2>5. TaskOrder(t, Append(Tail(s), x), st) /\ WriteOrder(Append(Tail(s), x), st)
    BY <1>1, <1>2, <2>1, <2>4, OrderBody
  <2>6. TaskOrder(t, Tail(s), st) /\ WriteOrder(Tail(s), st)
    BY <1>1, <1>2, <2>1, OrderTail
  <2>7. QED
    BY <2>1, <2>2, <2>5, <2>6, OrderOfQueues
<1>9. CASE BodyWritten(e) \/ NonceWritten(e)
  <2>1. /\ s # <<>> /\ writes'[e] = Tail(s) /\ tasks' = tasks /\ stream' = stream /\ sent' = sent
    BY <1>1, <1>9, BodyWrittenEffect DEF BodyWritten, NonceWritten, appVars
  <2>2. TaskOrder(t, Tail(s), st) /\ WriteOrder(Tail(s), st)
    BY <1>1, <1>2, <2>1, OrderTail
  <2>3. QED
    BY <2>1, <2>2, OrderOfQueues
<1>10. CASE WriteError(e)
  <2>1. /\ s # <<>> /\ writes'[e] = Tail(s) /\ stream' = stream /\ sent' = sent
        /\ tasks'[e] = t \/ tasks'[e] = Append(t, CloseTask)
    BY <1>1, <1>10 DEF WriteError, Disconnect, Post, appVars
  <2>2. TaskOrder(t, Tail(s), st) /\ WriteOrder(Tail(s), st)
    BY <1>1, <1>2, <2>1, OrderTail
  <2>3. TaskOrder(Append(t, CloseTask), Tail(s), st)
    BY <1>1, <2>2, OrderPostClose
  <2>4. QED
    BY <2>1, <2>2, <2>3, OrderOfQueues
<1>11. CASE e = "server" /\ Accept
  <2> DEFINE x == [op |-> "nonce", n |-> 0, ec |-> "pending"]
  <2>1. /\ Send(e, "ServerAccept") /\ stream'[e] = st /\ writes'[e] = <<x>>
        /\ t = <<>> /\ s = <<>> /\ "ServerAccept" \in Kinds
    BY <1>1, <1>11 DEF Accept, AcceptHandler, HandshakeInv, AcceptOK, Untouched, Kinds
  <2>2. x \in WriteOps /\ x.op = "nonce" /\ <<x>> = Append(s, x)
    BY <2>1 DEF WriteOps, Results
  <2>3. tasks'[e] = Append(t, SendTask(m + 1)) /\ Len(sent'[e]) = m + 1
    BY <1>1, <2>1 DEF Send, Post, IndInv, RestOK
  <2> HIDE DEF x
  <2>4. TaskOrder(t, Append(s, x), st) /\ WriteOrder(Append(s, x), st)
    BY <1>1, <1>2, <2>2, OrderAnswer
  <2>5. Append(s, x) \in Seq(WriteOps)
        /\ \A j \in 1..Len(Append(s, x)) : Append(s, x)[j].op = "nonce"
    BY <1>1, <2>1, <2>2
  <2>6. WordsOfSent(st, m)
    BY <1>2 DEF OrderAt
  <2>7. TaskOrder(tasks'[e], Append(s, x), st)
    BY <1>1, <2>2, <2>3, <2>4, <2>5, <2>6, OrderPostSend
  <2>8. WordsOfSent(st, m + 1)
    <3>1. \A k1 \in 1..Len(st) : st[k1][1] \in Nat
      BY <1>1, WordTyped
    <3>2. QED
      BY <1>1, <2>6, <3>1 DEF WordsOfSent
  <2>9. QED
    BY <1>2, <2>1, <2>2, <2>3, <2>4, <2>7, <2>8 DEF OrderAt
<1>12. CASE e = "client" /\ AnswerValidation
  <2> DEFINE n == MessageNumber(Head(reads[e]).data)
             x == Write(e, "nonce", n)
  <2>1. /\ writes'[e] = Append(s, x) /\ tasks' = tasks /\ stream' = stream /\ sent' = sent
    BY <1>1, <1>12 DEF AnswerValidation, appVars
  <2>2. x \in WriteOps /\ x.op = "nonce"
    <3>1. reads[e] # <<>> /\ Head(reads[e]).ec = "ok" /\ Head(reads[e]).op = "nonce"
      BY <1>12 DEF AnswerValidation, HasRead
    <3>2. n \in Nat
      BY <3>1, DataRead
    <3>3. QED
      BY <3>2, OpsTyped
  <2> HIDE DEF x
  <2>3. TaskOrder(t, Append(s, x), st) /\ WriteOrder(Append(s, x), st)
    BY <1>1, <1>2, <2>2, OrderAnswer
  <2>4. QED
    BY <2>1, <2>3, OrderOfQueues
<1>13. CASE e = "server" /\ IdExists
  <2> DEFINE tt == Append(t, SendTask(m + 1))
  <2>1. /\ sent'[e] = Append(sent[e], "ServerAccept") /\ sent[e] = <<>>
        /\ tasks'[e] = t \o <<SendTask(1), CloseTask>> /\ t = <<>> /\ s = <<>>
        /\ writes' = writes /\ stream' = stream
    <3>1. sent[e] = <<>> /\ t = <<>> /\ s = <<>> /\ sent \in [Ends -> Seq(Kinds)]
      BY <1>1, <1>13 DEF IdExists, AcceptHandler, HandshakeInv, AcceptOK, Untouched, IndInv, RestOK
    <3>2. QED
      BY <1>1, <1>13, <3>1 DEF IdExists, ioVars
  <2>2. m = 0 /\ Len(sent'[e]) = 1 /\ tasks'[e] = Append(tt, CloseTask) /\ tt \in Seq(Tasks)
    BY <2>1 DEF Tasks, SendTask, CloseTask
  <2>3. WordsOfSent(st, m) /\ WordsOfSent(st, 1)
    <3>1. \A k \in 1..Len(st) : st[k][1] \in Nat
      BY <1>1, WordTyped
    <3>2. QED
      BY <1>2, <2>2, <3>1 DEF OrderAt, WordsOfSent
  <2>4. TaskOrder(tt, s, st)
    <3>1. \A j \in 1..Len(s) : s[j].op # "nonce" => s[j].n <= m
      BY <1>1
    <3>2. QED
      BY <1>1, <1>2, <2>3, <3>1, OrderPostSend
  <2> HIDE DEF tt
  <2>5. TaskOrder(Append(tt, CloseTask), s, st)
    BY <1>1, <2>2, <2>4, OrderPostClose
  <2>6. QED
    BY <1>2, <2>1, <2>2, <2>3, <2>5 DEF OrderAt
<1>14. CASE writes'[e] = s /\ ~(e = "server" /\ IdExists) /\ ~Transfer(e) /\ ~RunSend(e) /\ ~RunClose(e) /\ ~Quit(e)
  <2>1. ChangesAt(e) /\ ~(e = "server" /\ IdExists)
    BY <1>14, EndChanges
  <2>2. stream'[e] = stream[e]
    BY <1>14, <2>1 DEF ChangesAt
  <2>3. \/ sent'[e] = sent[e] /\ tasks'[e] = tasks[e]
        \/ sent'[e] = sent[e] /\ Disconnect(e)
        \/ \E k \in Kinds : Send(e, k)
    BY <1>14, <2>1 DEF ChangesAt
  <2>4. QED
    BY <1>14, <2>2, <2>3, OrderOfPosts
<1>15. QED
  BY <1>3, <1>4, <1>5, <1>6, <1>7, <1>8, <1>9, <1>10, <1>11, <1>12, <1>13, <1>14, EndChanges DEF ChangesAt

\* Overlapping writes may mix the frames of two messages, but no header overtakes
\* another, none is repeated, and no body comes before its header.
THEOREM WordsKeepOrder == Spec => []WordsInOrder
<1> DEFINE Inv == IndInv /\ HandshakeInv /\ OrderInv
<1>1. Init => Inv
  BY InitIndInv, InitHandshake, InitOrder
<1>2. Inv /\ [Next]_vars => Inv'
  BY NextIndInv, HandshakeStep, OrderStep
<1>3. Inv => WordsInOrder
  <2> SUFFICES ASSUME Inv, NEW e \in Ends
               PROVE  \A i, j \in DOMAIN stream[e] :
                        i < j /\ stream[e][i][1] # 0 /\ stream[e][j][1] # 0 =>
                          /\ stream[e][i][1] = stream[e][j][1] => stream[e][i][2] < stream[e][j][2]
                          /\ stream[e][i][2] <= PairLen /\ stream[e][j][2] <= PairLen
                               => stream[e][i][1] <= stream[e][j][1]
    BY DEF WordsInOrder
  <2>1. stream[e] \in Words /\ StreamInOrder(stream[e])
    BY DEF IndInv, RestOK, OrderInv, OrderAt
  <2>2. DOMAIN stream[e] = 1..Len(stream[e])
    BY <2>1 DEF Words
  <2>3. QED
    BY <2>1, <2>2 DEF StreamInOrder
<1>4. QED
  BY <1>1, <1>2, <1>3, PTL DEF Spec

-----------------------------------------------------------------------------
(* Sends that keep apart: what the writer and the reader keep.             *)

\* The words of a message, by the kinds k of the messages sent; the number has two.
FrameLen(k, n) == IF n = 0 THEN PairLen ELSE PairLen + BodyLen[k[n]]

\* The word behind w when whole frames follow each other in the order of Send().
Follows(k, w) == IF w[2] < FrameLen(k, w[1]) THEN <<w[1], w[2] + 1>> ELSE <<w[1] + 1, 1>>

InRow(k, st) == \A j \in 1..(Len(st) - 1) : st[j + 1] = Follows(k, st[j])
LastWord(st) == st[Len(st)]

\* The first and the last word of a write.
FirstOf(x) == IF x.op = "body" THEN <<x.n, PairLen + 1>> ELSE <<x.n, 1>>
LastOf(k, x) == IF x.op = "body" THEN <<x.n, FrameLen(k, x.n)>> ELSE <<x.n, PairLen>>

\* The number is the first that is written, or will be.
Marked(st) == st # <<>> /\ st[1] = <<0, 1>>
IsNumber(x) == x.op = "nonce" /\ x.n = 0
Straight(s, st) == Marked(st) \/ (st = <<>> /\ (s = <<>> \/ IsNumber(s[1])))

\* A body is written only if there is one.
Bodied(k, s) == \A i \in 1..Len(s) : s[i].op = "body" => BodyLen[k[s[i].n]] > 0

\* The writes of an end that can still write: none has failed, they go out in order.
Served(s, st) ==
    /\ \A i \in 1..Len(s) : s[i].ec # "failed"
    /\ \A i \in 1..Len(s) : s[i].ec = "ok" => st # <<>>
    /\ \A i, j \in 1..Len(s) : i < j /\ s[i].ec = "pending" => s[j].ec = "pending"

\* What is written follows what is on the wire, one behind the other; while a
\* header with a body is written, there is nothing behind it.
Chained(k, s) == \A i \in 1..(Len(s) - 1) : FirstOf(s[i + 1]) = Follows(k, LastOf(k, s[i]))
NextOut(k, s, st) ==
    s # <<>> /\ s[1].ec = "pending" =>
        FirstOf(s[1]) = IF st = <<>> THEN <<0, 1>> ELSE Follows(k, LastWord(st))
LastOut(k, s, st) ==
    \A i \in 1..Len(s) :
        s[i].ec = "ok" /\ (i = Len(s) \/ s[i + 1].ec = "pending") => LastWord(st) = LastOf(k, s[i])
Whole(k, s, st) ==
    s = <<>> /\ st # <<>> => LastWord(st)[2] = FrameLen(k, LastWord(st)[1])
WellFormed(k, s) ==
    \A i \in 1..Len(s) :
        /\ s[i].op = "nonce" => s[i].n = 0
        /\ s[i].op = "header" /\ BodyLen[k[s[i].n]] > 0 => i = Len(s)
InLine(k, s, st) ==
    Chained(k, s) /\ NextOut(k, s, st) /\ LastOut(k, s, st) /\ Whole(k, s, st) /\ WellFormed(k, s)

\* The newest message that is written or being written; those after it are posted.
TipNo(s, st) ==
    IF s # <<>> THEN s[Len(s)].n ELSE IF st # <<>> THEN LastWord(st)[1] ELSE 0
Posted(t, n) == \E i \in 1..Len(t) : t[i] = SendTask(n)
AllPosted(t, s, st, m) == \A n \in (TipNo(s, st) + 1)..m : Posted(t, n)

CanWrite(e) == socket[e] = "open" /\ e \notin reset
LineAt(e) ==
    /\ Served(writes[e], stream[e])
    /\ Straight(writes[e], stream[e]) =>
          /\ InLine(sent[e], writes[e], stream[e])
          /\ AllPosted(tasks[e], writes[e], stream[e], Len(sent[e]))
WriterOK ==
    \A e \in Ends :
        /\ writes[e] # <<>> \/ stream[e] # <<>> => linked
        /\ socket[e] = "none" => /\ tasks[e] = <<>> /\ writes[e] = <<>>
                                 /\ stream[e] = <<>> /\ sent[e] = <<>>
        /\ Marked(stream[e]) => InRow(sent[e], stream[e])
        /\ Bodied(sent[e], writes[e])
        /\ CanWrite(e) => LineAt(e)

\* The client has not answered while it connects or reads the number.
ClientOK ==
    /\ socket["client"] = "none" => connect = "no"
    /\ connect \in {"no", "pending", "ok"} => ~Marked(stream["client"]) /\ recv["client"] = <<>>
    /\ reads["client"] # <<>> /\ reads["client"][1].op = "nonce" => ~Marked(stream["client"])
    /\ ~NoNonce(writes["client"]) => taken["client"] = PairLen /\ recv["client"] = <<>>

\* Where a reader is in its peer's stream when c messages have been heard.
At(st, t, w) == t \in 1..Len(st) /\ st[t] = w
Place(k, st, t, c, r) ==
    /\ r.op # "nonce" => t >= PairLen
    /\ r.op = "nonce" => c = 0 /\ (r.ec = "ok" => t = PairLen)
    /\ r.op = "header" =>
          /\ r.ec = "pending" /\ Marked(st) => At(st, t, <<c, FrameLen(k, c)>>)
          /\ r.ec = "ok" => At(st, t, <<c + 1, PairLen>>) /\ r.data = Pair(c + 1)
    /\ r.op = "body" /\ r.ec # "failed" =>
          /\ r.head = Pair(c + 1) /\ r.len = BodyLen[k[c + 1]]
          /\ r.ec = "pending" => At(st, t, <<c + 1, PairLen>>)
          /\ r.ec = "ok" => At(st, t, <<c + 1, FrameLen(k, c + 1)>>) /\ r.data = Body(c + 1, k[c + 1])
HeardWhole(k, x) == \A i \in 1..Len(x) : i <= Len(k) /\ x[i] = Frame(i, k[i])
ReaderOK ==
    \A f \in Ends :
        LET e == Peer(f) IN
        /\ taken[f] <= Len(stream[e])
        /\ HeardWhole(sent[e], recv[f])
        /\ reads[f] # <<>> => Place(sent[e], stream[e], taken[f], Len(recv[f]), reads[f][1])

ApartInv == WriterOK /\ ClientOK /\ ReaderOK

-----------------------------------------------------------------------------
(* Frames.                                                                 *)

\* Messages, writes and words that go together.
Fits(k, s, st) ==
    /\ k \in Seq(Kinds) /\ s \in Seq(WriteOps) /\ st \in Words
    /\ \A i \in 1..Len(s) : s[i].op # "nonce" => s[i].n \in 1..Len(k)
    /\ WordsOfSent(st, Len(k)) /\ Bodied(k, s)

LEMMA Sizes ==
  ASSUME NEW k \in Seq(Kinds)
  PROVE  /\ PairLen = 2 /\ FrameLen(k, 0) = 2
         /\ \A n \in 1..Len(k) : /\ BodyLen[k[n]] \in {0, 1, 2}
                                 /\ FrameLen(k, n) = 2 + BodyLen[k[n]]
         /\ \A n \in 0..Len(k) : FrameLen(k, n) \in {2, 3, 4}
<1>1. ASSUME NEW n \in 1..Len(k)
      PROVE  BodyLen[k[n]] \in {0, 1, 2} /\ FrameLen(k, n) = 2 + BodyLen[k[n]]
  <2>1. k[n] \in Kinds
    OBVIOUS
  <2>2. n # 0
    OBVIOUS
  <2>3. QED
    BY <2>1, <2>2 DEF BodyLen, Kinds, FrameLen, PairLen
<1>2. \A n \in 0..Len(k) : n = 0 \/ n \in 1..Len(k)
  OBVIOUS
<1>3. PairLen = 2 /\ FrameLen(k, 0) = 2
  BY DEF PairLen, FrameLen
<1>4. QED
  BY <1>1, <1>2, <1>3

\* Another message changes nothing for those there are.
LEMMA FramesStay ==
  ASSUME NEW k \in Seq(Kinds), NEW x \in Kinds
  PROVE  LET l == Append(k, x) IN
         /\ l \in Seq(Kinds) /\ Len(l) = Len(k) + 1
         /\ \A n \in 1..Len(k) : l[n] = k[n]
         /\ \A n \in 0..Len(k) : FrameLen(l, n) = FrameLen(k, n)
         /\ \A w : w[1] \in 0..Len(k) => Follows(l, w) = Follows(k, w)
<1> DEFINE l == Append(k, x)
<1>1. l \in Seq(Kinds) /\ Len(l) = Len(k) + 1 /\ \A n \in 1..Len(k) : l[n] = k[n]
  OBVIOUS
<1> HIDE DEF l
<1>2. \A n \in 0..Len(k) : n = 0 \/ n \in 1..Len(k)
  OBVIOUS
<1>3. \A n \in 0..Len(k) : FrameLen(l, n) = FrameLen(k, n)
  BY <1>1, <1>2 DEF FrameLen
<1>4. QED
  BY <1>1, <1>3 DEF Follows, l

\* The words of a write, one behind the other.
LEMMA WordsFollow ==
  ASSUME NEW k \in Seq(Kinds), NEW n \in Nat, NEW m \in Nat, m < FrameLen(k, n)
  PROVE  Follows(k, <<n, m>>) = <<n, m + 1>>
BY DEF Follows

LEMMA FrameEnds ==
  ASSUME NEW k \in Seq(Kinds), NEW n \in 0..Len(k)
  PROVE  Follows(k, <<n, FrameLen(k, n)>>) = <<n + 1, 1>>
<1>1. ~(FrameLen(k, n) < FrameLen(k, n))
  BY Sizes
<1>2. QED
  BY <1>1 DEF Follows

\* A line of writes does not mind another message.
LEMMA LineStays ==
  ASSUME NEW k, NEW s, NEW st, Fits(k, s, st), NEW x \in Kinds
  PROVE  LET l == Append(k, x) IN
         /\ InRow(k, st) => InRow(l, st)
         /\ InLine(k, s, st) => InLine(l, s, st)
<1> DEFINE l == Append(k, x)
<1>1. /\ \A n \in 1..Len(k) : l[n] = k[n]
      /\ \A n \in 0..Len(k) : FrameLen(l, n) = FrameLen(k, n)
      /\ \A w : w[1] \in 0..Len(k) => Follows(l, w) = Follows(k, w)
  BY FramesStay DEF Fits
<1> HIDE DEF l
<1>2. /\ Len(k) \in Nat /\ Len(s) \in Nat /\ Len(st) \in Nat
      /\ \A j \in 1..Len(st) : st[j][1] \in 0..Len(k)
  BY WordTyped DEF Fits, WordsOfSent
<1>3. InRow(k, st) => InRow(l, st)
  <2>1. \A j \in 1..(Len(st) - 1) : j \in 1..Len(st)
    BY <1>2
  <2>2. QED
    BY <1>1, <1>2, <2>1 DEF InRow
<1>4. ASSUME InLine(k, s, st) PROVE InLine(l, s, st)
  <2>1. \A i \in 1..Len(s) : s[i].n \in 0..Len(k)
    BY <1>2, <1>4 DEF Fits, InLine, WellFormed
  <2>2. \A i \in 1..Len(s) : /\ LastOf(l, s[i]) = LastOf(k, s[i])
                             /\ LastOf(k, s[i])[1] \in 0..Len(k)
    BY <1>1, <2>1 DEF LastOf
  <2>3. \A i \in 1..(Len(s) - 1) : i \in 1..Len(s)
    BY <1>2
  <2>4. Chained(l, s)
    BY <1>1, <1>4, <2>2, <2>3 DEF InLine, Chained
  <2>5. st # <<>> => LastWord(st)[1] \in 0..Len(k)
    BY <1>2 DEF LastWord, Fits, Words
  <2>6. NextOut(l, s, st) /\ Whole(l, s, st)
    BY <1>1, <1>4, <2>5 DEF InLine, NextOut, Whole
  <2>7. LastOut(l, s, st)
    BY <1>4, <2>2 DEF InLine, LastOut
  <2>8. WellFormed(l, s)
    <3> SUFFICES ASSUME NEW i \in 1..Len(s)
                 PROVE  s[i].op # "nonce" => l[s[i].n] = k[s[i].n]
      BY <1>4 DEF InLine, WellFormed
    <3>1. QED
      BY <1>1 DEF Fits
  <2>9. QED
    BY <2>4, <2>6, <2>7, <2>8 DEF InLine
<1>5. QED
  BY <1>3, <1>4 DEF l

-----------------------------------------------------------------------------
(* What each change of a queue does to the line.                           *)

\* Where a write ends and the next begins.
LEMMA WriteEnds ==
  ASSUME NEW k, NEW s, NEW st, Fits(k, s, st), WellFormed(k, s), NEW i \in 1..Len(s)
  PROVE  /\ s[i].n \in 0..Len(k)
         /\ s[i].op \in {"nonce", "header", "body"}
         /\ s[i].op = "nonce" => s[i].n = 0
         /\ LastOf(k, s[i])[1] = s[i].n
         /\ s[i].op = "header" /\ i # Len(s) => FrameLen(k, s[i].n) = 2
         /\ s[i].op # "header" => LastOf(k, s[i])[2] = FrameLen(k, s[i].n)
         /\ s[i].op = "header" => LastOf(k, s[i])[2] = 2
<1>1. /\ k \in Seq(Kinds) /\ s[i] \in WriteOps /\ Len(k) \in Nat
      /\ s[i].op # "nonce" => s[i].n \in 1..Len(k)
  BY WriteTyped DEF Fits
<1>2. s[i].op \in {"nonce", "header", "body"} /\ (s[i].op = "nonce" => s[i].n = 0)
  BY <1>1 DEF WriteOps, WellFormed
<1>3. s[i].n \in 0..Len(k)
  BY <1>1, <1>2
<1>4. s[i].op = "header" /\ i # Len(s) => FrameLen(k, s[i].n) = 2
  <2>1. s[i].op = "header" /\ i # Len(s) => ~(BodyLen[k[s[i].n]] > 0)
    BY DEF WellFormed
  <2>2. QED
    BY <1>1, <2>1, Sizes
<1>5. QED
  BY <1>1, <1>2, <1>3, <1>4, Sizes DEF LastOf

\* The oldest write has been handled, and nothing more is to follow.
LEMMA LineShortens ==
  ASSUME NEW k, NEW s, NEW st, Fits(k, s, st), InLine(k, s, st), Served(s, st),
         s # <<>>, s[1].ec = "ok", s[1].op = "header" => FrameLen(k, s[1].n) = 2
  PROVE  /\ InLine(k, Tail(s), st) /\ Served(Tail(s), st)
         /\ TipNo(Tail(s), st) = TipNo(s, st)
<1> DEFINE r == Tail(s)
<1>1. /\ Len(s) \in Nat /\ 1 \in 1..Len(s) /\ Len(r) = Len(s) - 1 /\ r \in Seq(WriteOps)
      /\ \A i \in 1..Len(r) : r[i] = s[i + 1] /\ i + 1 \in 1..Len(s)
      /\ (r = <<>> <=> Len(r) = 0)
  <2>1. s \in Seq(WriteOps)
    BY DEF Fits
  <2>2. r \in Seq(WriteOps) /\ Len(r) = Len(s) - 1
    BY <2>1
  <2>3. \A i \in 1..Len(r) : r[i] = s[i + 1] /\ i + 1 \in 1..Len(s)
    BY <2>1
  <2> HIDE DEF r
  <2>4. r = <<>> <=> Len(r) = 0
    BY <2>2
  <2>5. QED
    BY <2>1, <2>2, <2>3, <2>4
<1> HIDE DEF r
<1>2. st # <<>>
  BY <1>1 DEF Served
<1>3. Served(r, st)
  <2>1. \A i \in 1..Len(r) : r[i].ec # "failed" /\ (r[i].ec = "ok" => st # <<>>)
    BY <1>1 DEF Served
  <2>2. ASSUME NEW i \in 1..Len(r), NEW j \in 1..Len(r), i < j, r[i].ec = "pending"
        PROVE  r[j].ec = "pending"
    <3>1. s[i + 1].ec = "pending" /\ i + 1 < j + 1
      BY <1>1, <2>2
    <3>2. QED
      BY <1>1, <3>1 DEF Served
  <2>3. QED
    BY <2>1, <2>2 DEF Served
<1>4. Chained(k, r) /\ WellFormed(k, r)
  <2>1. Chained(k, r)
    <3> SUFFICES ASSUME NEW i \in 1..(Len(r) - 1)
                 PROVE  FirstOf(r[i + 1]) = Follows(k, LastOf(k, r[i]))
      BY DEF Chained
    <3>1. r[i] = s[i + 1] /\ r[i + 1] = s[(i + 1) + 1] /\ i + 1 \in 1..(Len(s) - 1)
      BY <1>1
    <3>2. QED
      BY <3>1 DEF InLine, Chained
  <2>2. WellFormed(k, r)
    BY <1>1 DEF InLine, WellFormed
  <2>3. QED
    BY <2>1, <2>2
<1>5. ASSUME r = <<>> \/ r[1].ec = "pending" PROVE LastWord(st) = LastOf(k, s[1])
  <2>1. 1 = Len(s) \/ s[2].ec = "pending"
    BY <1>1, <1>5
  <2>2. QED
    BY <1>1, <2>1 DEF InLine, LastOut
<1>6. NextOut(k, r, st)
  <2> SUFFICES ASSUME r # <<>>, r[1].ec = "pending" PROVE FirstOf(r[1]) = Follows(k, LastWord(st))
    BY <1>2 DEF NextOut
  <2>1. r[1] = s[2] /\ 1 \in 1..(Len(s) - 1)
    BY <1>1
  <2>2. QED
    BY <1>5, <2>1 DEF InLine, Chained
<1>7. LastOut(k, r, st)
  <2> SUFFICES ASSUME NEW i \in 1..Len(r), r[i].ec = "ok", i = Len(r) \/ r[i + 1].ec = "pending"
               PROVE  LastWord(st) = LastOf(k, r[i])
    BY DEF LastOut
  <2>1. r[i] = s[i + 1] /\ i + 1 \in 1..Len(s)
    BY <1>1
  <2>2. i + 1 = Len(s) \/ s[(i + 1) + 1].ec = "pending"
    BY <1>1
  <2>3. QED
    BY <2>1, <2>2 DEF InLine, LastOut
<1>8. /\ LastOf(k, s[1])[1] = s[1].n
      /\ LastOf(k, s[1])[2] = FrameLen(k, s[1].n)
  <2>1. WellFormed(k, s)
    BY DEF InLine
  <2>2. QED
    BY <1>1, <2>1, WriteEnds
<1>9. Whole(k, r, st)
  BY <1>5, <1>8 DEF Whole
<1>10. TipNo(r, st) = TipNo(s, st)
  <2>1. CASE r = <<>>
    <3>1. Len(s) = 1
      BY <1>1, <2>1
    <3>2. QED
      BY <1>2, <1>5, <1>8, <2>1, <3>1 DEF TipNo
  <2>2. CASE r # <<>>
    <3>1. r[Len(r)] = s[Len(s)]
      BY <1>1, <2>2
    <3>2. QED
      BY <2>2, <3>1 DEF TipNo
  <2>3. QED
    BY <2>1, <2>2
<1>11. QED
  BY <1>3, <1>4, <1>6, <1>7, <1>9, <1>10 DEF InLine, r

\* The header of a message is out, and its body is written.
LEMMA LineTurns ==
  ASSUME NEW k, NEW s, NEW st, Fits(k, s, st), InLine(k, s, st), Served(s, st),
         s # <<>>, s[1].ec = "ok", s[1].op = "header", BodyLen[k[s[1].n]] > 0,
         NEW x \in WriteOps, x.op = "body", x.n = s[1].n, x.ec = "pending"
  PROVE  LET u == Append(Tail(s), x) IN
         InLine(k, u, st) /\ Served(u, st) /\ TipNo(u, st) = TipNo(s, st)
<1>1. s \in Seq(WriteOps) /\ 1 \in 1..Len(s) /\ k \in Seq(Kinds)
  BY DEF Fits
<1>2. Len(s) = 1
  BY <1>1 DEF InLine, WellFormed
<1>3. Append(Tail(s), x) = <<x>>
  <2>1. Tail(s) \in Seq(WriteOps) /\ Len(Tail(s)) = 0
    BY <1>1, <1>2
  <2>2. Tail(s) = <<>>
    BY <2>1, EmptySeq
  <2>3. QED
    BY <2>2, AppendToNone
<1> DEFINE u == <<x>>
<1>4. Len(u) = 1 /\ u[1] = x /\ u # <<>>
  OBVIOUS
<1> HIDE DEF u
<1>5. st # <<>> /\ LastWord(st) = <<x.n, 2>>
  BY <1>1, <1>2 DEF Served, InLine, LastOut, LastOf, PairLen
<1>6. x.n \in 1..Len(k) /\ FrameLen(k, x.n) = 2 + BodyLen[k[x.n]] /\ BodyLen[k[x.n]] \in {0, 1, 2}
  BY <1>1, Sizes DEF Fits
<1>7. FirstOf(x) = Follows(k, LastWord(st))
  <2>1. 2 < FrameLen(k, x.n)
    BY <1>6
  <2>2. x.n \in Nat
    BY <1>6
  <2>3. Follows(k, <<x.n, 2>>) = <<x.n, 2 + 1>>
    BY <1>1, <2>1, <2>2, WordsFollow
  <2>4. QED
    BY <1>5, <2>3 DEF FirstOf, PairLen
<1>8. Chained(k, u) /\ NextOut(k, u, st) /\ LastOut(k, u, st) /\ Whole(k, u, st)
  BY <1>4, <1>5, <1>7 DEF Chained, NextOut, LastOut, Whole
<1>9. WellFormed(k, u) /\ Served(u, st)
  BY <1>4 DEF WellFormed, Served
<1>10. TipNo(u, st) = TipNo(s, st)
  BY <1>1, <1>2, <1>4 DEF TipNo
<1>11. QED
  BY <1>3, <1>8, <1>9, <1>10 DEF InLine, u

\* The last thing written, or to be written.
Tip(k, s, st) == IF s # <<>> THEN LastOf(k, s[Len(s)]) ELSE LastWord(st)

\* The line goes on behind its end, if no header is waiting for its body.
LEMMA LineGrows ==
  ASSUME NEW k, NEW s, NEW st, Fits(k, s, st), InLine(k, s, st), Served(s, st),
         s # <<>> \/ st # <<>>,
         \A i \in 1..Len(s) : s[i].op = "header" => FrameLen(k, s[i].n) = 2,
         NEW x \in WriteOps, x.op = "header", x.n = TipNo(s, st) + 1, x.n \in 1..Len(k),
         x.ec = "pending"
  PROVE  LET u == Append(s, x) IN
         InLine(k, u, st) /\ Served(u, st) /\ TipNo(u, st) = x.n
<1> DEFINE u == Append(s, x)
<1>1. /\ Len(u) = Len(s) + 1 /\ Len(s) \in Nat /\ u[Len(s) + 1] = x
      /\ \A j \in 1..Len(s) : u[j] = s[j]
      /\ u # <<>>
  BY DEF Fits
<1>2. \A j \in 1..Len(u) : j \in 1..Len(s) \/ j = Len(s) + 1
  BY <1>1
<1> HIDE DEF u
<1>3. k \in Seq(Kinds) /\ Len(k) \in Nat /\ WellFormed(k, s)
  BY DEF Fits, InLine
\* The end of the line is the end of a frame.
<1>4. /\ Tip(k, s, st) = <<TipNo(s, st), FrameLen(k, TipNo(s, st))>>
      /\ TipNo(s, st) \in 0..Len(k)
  <2>1. CASE s # <<>>
    <3>1. Len(s) \in 1..Len(s)
      BY <1>1, <2>1 DEF Fits
    <3>2. LET y == s[Len(s)] IN
          /\ y.n \in 0..Len(k) /\ y.op \in {"nonce", "header", "body"}
          /\ y.op = "nonce" => y.n = 0
          /\ y.op = "header" => FrameLen(k, y.n) = 2
      BY <1>3, <3>1, WriteEnds
    <3>3. LastOf(k, s[Len(s)]) = <<s[Len(s)].n, FrameLen(k, s[Len(s)].n)>>
      BY <1>3, <3>2, Sizes DEF LastOf
    <3>4. QED
      BY <2>1, <3>2, <3>3 DEF Tip, TipNo
  <2>2. CASE s = <<>>
    <3>1. LastWord(st)[2] = FrameLen(k, LastWord(st)[1])
      BY <2>2 DEF InLine, Whole
    <3>2. LastWord(st) \in Nat \X Nat /\ LastWord(st)[1] \in 0..Len(k)
      <4>1. st \in Seq(Nat \X Nat) /\ st # <<>> /\ Len(st) \in 1..Len(st)
        BY <2>2 DEF Fits, Words
      <4>2. LastWord(st) \in Nat \X Nat /\ LastWord(st)[1] <= Len(k)
        BY <4>1 DEF LastWord, Fits, WordsOfSent
      <4>3. QED
        BY <1>3, <4>2
    <3>3. LastWord(st) = <<LastWord(st)[1], LastWord(st)[2]>>
      BY <3>2
    <3>4. QED
      BY <2>2, <3>1, <3>2, <3>3 DEF Tip, TipNo
  <2>3. QED
    BY <2>1, <2>2
<1>5. FirstOf(x) = Follows(k, Tip(k, s, st))
  BY <1>3, <1>4, FrameEnds DEF FirstOf
<1>6. Chained(k, u)
  <2> SUFFICES ASSUME NEW i \in 1..(Len(u) - 1)
               PROVE  FirstOf(u[i + 1]) = Follows(k, LastOf(k, u[i]))
    BY DEF Chained
  <2>1. i \in 1..Len(s) /\ u[i] = s[i]
    BY <1>1
  <2>2. CASE i = Len(s)
    <3>1. s # <<>>
      BY <2>1, <2>2
    <3>2. QED
      BY <1>1, <1>5, <2>1, <2>2, <3>1 DEF Tip
  <2>3. CASE i # Len(s)
    <3>1. i \in 1..(Len(s) - 1) /\ i + 1 \in 1..Len(s)
      BY <1>1, <2>1, <2>3
    <3>2. QED
      BY <1>1, <2>1, <3>1 DEF InLine, Chained
  <2>4. QED
    BY <2>2, <2>3
<1>7. NextOut(k, u, st)
  <2>1. CASE s # <<>>
    <3>1. u[1] = s[1]
      BY <1>1, <2>1 DEF Fits
    <3>2. QED
      BY <2>1, <3>1 DEF InLine, NextOut
  <2>2. CASE s = <<>>
    <3>1. u[1] = x
      BY <1>1, <2>2
    <3>2. QED
      BY <1>5, <2>2, <3>1 DEF NextOut, Tip
  <2>3. QED
    BY <2>1, <2>2
<1>8. LastOut(k, u, st)
  <2> SUFFICES ASSUME NEW i \in 1..Len(u), u[i].ec = "ok", i = Len(u) \/ u[i + 1].ec = "pending"
               PROVE  LastWord(st) = LastOf(k, u[i])
    BY DEF LastOut
  <2>1. i \in 1..Len(s) /\ u[i] = s[i]
    BY <1>1, <1>2
  <2>2. i = Len(s) \/ s[i + 1].ec = "pending"
    BY <1>1, <2>1
  <2>3. QED
    BY <2>1, <2>2 DEF InLine, LastOut
<1>9. Whole(k, u, st)
  BY <1>1 DEF Whole
<1>10. WellFormed(k, u)
  <2> SUFFICES ASSUME NEW i \in 1..Len(u)
               PROVE  /\ u[i].op = "nonce" => u[i].n = 0
                      /\ u[i].op = "header" /\ BodyLen[k[u[i].n]] > 0 => i = Len(u)
    BY DEF WellFormed
  <2>1. CASE i \in 1..Len(s)
    <3>1. s[i].op = "header" => ~(BodyLen[k[s[i].n]] > 0)
      <4> SUFFICES ASSUME s[i].op = "header" PROVE ~(BodyLen[k[s[i].n]] > 0)
        OBVIOUS
      <4>1. s[i].n \in 1..Len(k) /\ FrameLen(k, s[i].n) = 2
        BY <2>1 DEF Fits
      <4>2. /\ BodyLen[k[s[i].n]] \in {0, 1, 2}
            /\ FrameLen(k, s[i].n) = 2 + BodyLen[k[s[i].n]]
        BY <1>3, <4>1, Sizes
      <4>3. QED
        BY <4>1, <4>2
    <3>2. QED
      BY <1>1, <1>3, <2>1, <3>1 DEF WellFormed
  <2>2. CASE i = Len(s) + 1
    BY <1>1, <2>2
  <2>3. QED
    BY <1>2, <2>1, <2>2
<1>11. Served(u, st)
  BY <1>1, <1>2 DEF Served
<1>12. TipNo(u, st) = x.n
  BY <1>1 DEF TipNo
<1>13. QED
  BY <1>6, <1>7, <1>8, <1>9, <1>10, <1>11, <1>12 DEF InLine, u

\* The words of a write: they begin and end where the line says, in a row.
LEMMA WordsInRow ==
  ASSUME NEW k \in Seq(Kinds), NEW x \in WriteOps, NEW w \in Words,
         x.op = "nonce" => x.n = 0 /\ w = Pair(0),
         x.op = "header" => x.n \in 1..Len(k) /\ w = Pair(x.n),
         x.op = "body" => x.n \in 1..Len(k) /\ BodyLen[k[x.n]] > 0 /\ w = Body(x.n, k[x.n])
  PROVE  /\ w # <<>> /\ w[1] = FirstOf(x) /\ LastWord(w) = LastOf(k, x)
         /\ InRow(k, w)
<1>1. x.op \in {"nonce", "header", "body"}
  BY DEF WriteOps
<1>2. CASE x.op # "body"
  <2>1. w = <<<<x.n, 1>>, <<x.n, 2>>>> /\ x.n \in 0..Len(k) /\ x.n \in Nat
    BY <1>1, <1>2 DEF Pair
  <2>2. Len(w) = 2 /\ w[1] = <<x.n, 1>> /\ w[2] = <<x.n, 2>> /\ w # <<>>
    BY <2>1
  <2>3. 1 < FrameLen(k, x.n)
    BY <2>1, Sizes
  <2>4. Follows(k, <<x.n, 1>>) = <<x.n, 1 + 1>>
    BY <2>1, <2>3, WordsFollow
  <2>5. \A j \in 1..(Len(w) - 1) : j = 1
    BY <2>2
  <2>6. QED
    BY <1>2, <2>2, <2>4, <2>5 DEF InRow, FirstOf, LastOf, LastWord, PairLen
<1>3. CASE x.op = "body"
  <2> DEFINE l == BodyLen[k[x.n]]
  <2>1. /\ x.n \in 1..Len(k) /\ x.n \in Nat /\ l > 0 /\ l \in {0, 1, 2}
        /\ FrameLen(k, x.n) = 2 + l
    BY <1>3, Sizes
  <2>2. w = [j \in 1..l |-> <<x.n, 2 + j>>]
    BY <1>3 DEF Body, PairLen
  <2> HIDE DEF l
  <2>3. Len(w) = l /\ \A j \in 1..l : w[j] = <<x.n, 2 + j>>
    BY <2>1, <2>2
  <2>4. w # <<>> /\ w[1] = FirstOf(x) /\ LastWord(w) = LastOf(k, x)
    <3>1. w # <<>>
      BY <2>1, <2>3
    <3>2. w[1] = <<x.n, 2 + 1>> /\ w[l] = <<x.n, 2 + l>>
      BY <2>1, <2>3
    <3>3. QED
      BY <1>3, <2>1, <2>3, <3>1, <3>2 DEF FirstOf, LastOf, LastWord, PairLen
  <2>5. InRow(k, w)
    <3> SUFFICES ASSUME NEW j \in 1..(l - 1) PROVE w[j + 1] = Follows(k, w[j])
      BY <2>3 DEF InRow
    <3>1. j \in 1..l /\ j + 1 \in 1..l /\ 2 + j \in Nat /\ 2 + j < FrameLen(k, x.n)
      BY <2>1
    <3>2. Follows(k, <<x.n, 2 + j>>) = <<x.n, (2 + j) + 1>>
      BY <2>1, <3>1, WordsFollow
    <3>3. w[j + 1] = <<x.n, 2 + (j + 1)>> /\ 2 + (j + 1) = (2 + j) + 1
      BY <2>3, <3>1
    <3>4. QED
      BY <2>3, <3>1, <3>2, <3>3
  <2>6. QED
    BY <2>4, <2>5
<1>4. QED
  BY <1>2, <1>3

\* Words in a row, put behind words in a row.
LEMMA RowsJoin ==
  ASSUME NEW k, NEW st \in Words, NEW w \in Words, InRow(k, st), InRow(k, w), w # <<>>,
         st # <<>> => w[1] = Follows(k, LastWord(st))
  PROVE  /\ InRow(k, st \o w) /\ LastWord(st \o w) = LastWord(w) /\ st \o w # <<>>
<1> DEFINE v == st \o w
<1>1. /\ Len(st) \in Nat /\ Len(w) \in Nat /\ Len(w) # 0 /\ Len(v) = Len(st) + Len(w)
      /\ \A j \in 1..Len(st) : v[j] = st[j]
      /\ \A j \in 1..Len(w) : v[Len(st) + j] = w[j]
      /\ st = <<>> <=> Len(st) = 0
  <2>1. Len(w) # 0 /\ (st = <<>> <=> Len(st) = 0)
    BY DEF Words
  <2>2. QED
    BY <2>1, ConcatWords
<1> HIDE DEF v
<1>2. v # <<>>
  BY <1>1
<1>3. LastWord(v) = LastWord(w)
  <2>1. Len(w) \in 1..Len(w)
    BY <1>1
  <2>2. QED
    BY <1>1, <2>1 DEF LastWord
<1>4. InRow(k, v)
  <2> SUFFICES ASSUME NEW j \in 1..(Len(v) - 1) PROVE v[j + 1] = Follows(k, v[j])
    BY DEF InRow
  <2>1. CASE j < Len(st)
    <3>1. j \in 1..(Len(st) - 1) /\ j \in 1..Len(st) /\ j + 1 \in 1..Len(st)
      BY <1>1, <2>1
    <3>2. QED
      BY <1>1, <3>1 DEF InRow
  <2>2. CASE j = Len(st)
    <3>1. st # <<>> /\ j \in 1..Len(st) /\ 1 \in 1..Len(w)
      BY <1>1, <2>2
    <3>2. v[j] = LastWord(st) /\ v[j + 1] = w[1]
      BY <1>1, <2>2, <3>1 DEF LastWord
    <3>3. QED
      BY <3>1, <3>2
  <2>3. CASE j > Len(st)
    <3> DEFINE i == j - Len(st)
    <3>1. i \in 1..(Len(w) - 1) /\ i \in 1..Len(w) /\ i + 1 \in 1..Len(w) /\ j = Len(st) + i
      BY <1>1, <2>3
    <3> HIDE DEF i
    <3>2. v[j] = w[i] /\ v[j + 1] = w[i + 1]
      <4>1. j + 1 = Len(st) + (i + 1)
        BY <1>1, <3>1
      <4>2. QED
        BY <1>1, <3>1, <4>1
    <3>3. QED
      BY <3>1, <3>2 DEF InRow
  <2>4. QED
    BY <1>1, <2>1, <2>2, <2>3
<1>5. QED
  BY <1>2, <1>3, <1>4 DEF v

\* The oldest write goes out: what is on the wire goes on with it.
LEMMA LineGoesOut ==
  ASSUME NEW k, NEW s, NEW st, Fits(k, s, st), InLine(k, s, st), Served(s, st),
         Marked(st) => InRow(k, st),
         st = <<>> \/ Marked(st),
         NEW i \in 1..Len(s), IsFirstPending(s, i),
         NEW w \in Words,
         s[i].op = "nonce" => w = Pair(0),
         s[i].op = "header" => w = Pair(s[i].n),
         s[i].op = "body" => w = Body(s[i].n, k[s[i].n])
  PROVE  /\ InRow(k, st \o w) /\ InLine(k, Finish(s, i, "ok"), st \o w)
         /\ TipNo(Finish(s, i, "ok"), st \o w) = TipNo(s, st)
<1> DEFINE u == Finish(s, i, "ok")
           v == st \o w
<1>1. /\ k \in Seq(Kinds) /\ s \in Seq(WriteOps) /\ st \in Words /\ s # <<>> /\ s[i] \in WriteOps
      /\ WellFormed(k, s) /\ Len(s) \in Nat
  BY DEF Fits, InLine
<1>2. /\ Len(u) = Len(s) /\ u[i].ec = "ok" /\ u # <<>>
      /\ \A j \in 1..Len(s) : u[j].op = s[j].op /\ u[j].n = s[j].n
      /\ \A j \in 1..Len(s) : j # i => u[j] = s[j]
  <2>1. i \in DOMAIN s /\ "ok" \in Results
    BY <1>1 DEF Results
  <2>2. \A j \in 1..Len(s) : j # i => u[j] = s[j]
    BY <1>1, <2>1, FinishOutcome
  <2>3. /\ Len(u) = Len(s) /\ u[i].ec = "ok"
        /\ \A j \in 1..Len(s) : u[j].op = s[j].op /\ u[j].n = s[j].n
    BY <1>1, <2>1, FinishOutcome, FinishWrite
  <2> HIDE DEF u
  <2>4. u # <<>>
    BY <1>1, <2>3
  <2>5. QED
    BY <2>2, <2>3, <2>4
<1> HIDE DEF u
<1>3. /\ s[i].ec = "pending"
      /\ \A j \in 1..Len(s) : j < i => s[j].ec = "ok"
      /\ \A j \in 1..Len(s) : j > i => s[j].ec = "pending"
  <2>1. \A j \in 1..Len(s) : j < i => j \in 1..(i - 1)
    OBVIOUS
  <2>2. \A j \in 1..Len(s) : s[j] \in WriteOps /\ s[j].ec # "failed"
    BY <1>1 DEF Served
  <2>3. s[i].ec = "pending" /\ \A j \in 1..Len(s) : j < i => s[j].ec # "pending"
    BY <2>1 DEF IsFirstPending
  <2>4. \A j \in 1..Len(s) : j < i => s[j].ec = "ok"
    BY <2>2, <2>3 DEF WriteOps, Results
  <2>5. QED
    BY <2>3, <2>4 DEF Served
\* Its words are in a row, and follow what is on the wire.
<1>4. /\ w # <<>> /\ w[1] = FirstOf(s[i]) /\ LastWord(w) = LastOf(k, s[i]) /\ InRow(k, w)
  <2>1. /\ s[i].op = "nonce" => s[i].n = 0
        /\ s[i].op = "body" => BodyLen[k[s[i].n]] > 0
        /\ s[i].op # "nonce" => s[i].n \in 1..Len(k)
    BY DEF InLine, WellFormed, Fits, Bodied
  <2>2. QED
    BY <1>1, <2>1, WordsInRow
<1>5. st # <<>> => w[1] = Follows(k, LastWord(st))
  <2> SUFFICES ASSUME st # <<>> PROVE FirstOf(s[i]) = Follows(k, LastWord(st))
    BY <1>4
  <2>1. CASE i = 1
    BY <1>1, <1>3, <2>1 DEF InLine, NextOut
  <2>2. CASE i # 1
    <3> DEFINE j == i - 1
    <3>1. j \in 1..Len(s) /\ j < i /\ j \in 1..(Len(s) - 1) /\ j + 1 = i
      BY <2>2
    <3> HIDE DEF j
    <3>2. s[j].ec = "ok" /\ s[j + 1].ec = "pending"
      BY <1>3, <3>1
    <3>3. LastWord(st) = LastOf(k, s[j])
      BY <3>1, <3>2 DEF InLine, LastOut
    <3>4. QED
      BY <3>1, <3>3 DEF InLine, Chained
  <2>3. QED
    BY <2>1, <2>2
<1>6. InRow(k, v) /\ LastWord(v) = LastOf(k, s[i]) /\ v # <<>>
  <2>1. InRow(k, st)
    <3>1. st = <<>> => InRow(k, st)
      BY DEF InRow
    <3>2. QED
      BY <3>1
  <2>2. QED
    BY <1>1, <1>4, <1>5, <2>1, RowsJoin
<1> HIDE DEF v
<1>7. \A j \in 1..Len(s) : /\ FirstOf(u[j]) = FirstOf(s[j]) /\ LastOf(k, u[j]) = LastOf(k, s[j])
  BY <1>2 DEF FirstOf, LastOf
<1>8. Chained(k, u) /\ WellFormed(k, u)
  <2>1. Chained(k, u)
    <3>1. \A j \in 1..(Len(s) - 1) : j \in 1..Len(s) /\ j + 1 \in 1..Len(s)
      BY <1>1
    <3>2. QED
      BY <1>2, <1>7, <3>1 DEF InLine, Chained
  <2>2. WellFormed(k, u)
    BY <1>2 DEF InLine, WellFormed
  <2>3. QED
    BY <2>1, <2>2
<1>9. NextOut(k, u, v)
  <2>1. u[1].ec = "ok"
    <3>1. 1 \in 1..Len(s)
      OBVIOUS
    <3>2. QED
      BY <1>2, <1>3, <3>1
  <2>2. QED
    BY <2>1 DEF NextOut
<1>10. LastOut(k, u, v)
  <2> SUFFICES ASSUME NEW j \in 1..Len(s), u[j].ec = "ok", j = Len(s) \/ u[j + 1].ec = "pending"
               PROVE  j = i
    BY <1>2, <1>6, <1>7 DEF LastOut
  <2>1. ~(j > i)
    BY <1>2, <1>3
  <2>2. ~(j < i)
    <3> SUFFICES ASSUME j < i PROVE FALSE
      OBVIOUS
    <3>1. j + 1 \in 1..Len(s) /\ u[j + 1].ec = "pending" /\ j # Len(s)
      OBVIOUS
    <3>2. j + 1 = i \/ j + 1 < i
      OBVIOUS
    <3>3. QED
      BY <1>2, <1>3, <3>1, <3>2
  <2>3. QED
    BY <2>1, <2>2
<1>11. Whole(k, u, v)
  BY <1>2 DEF Whole
<1>12. TipNo(u, v) = TipNo(s, st)
  <2>1. Len(s) \in 1..Len(s)
    BY <1>1
  <2>2. QED
    BY <1>1, <1>2, <2>1 DEF TipNo
<1>13. QED
  BY <1>6, <1>8, <1>9, <1>10, <1>11, <1>12 DEF InLine, u, v

\* Once a write is out, whatever it is, those behind it wait.
LEMMA ServedGoesOut ==
  ASSUME NEW s \in Seq(WriteOps), NEW st \in Words, Served(s, st),
         NEW i \in 1..Len(s), IsFirstPending(s, i), NEW w \in Words, w # <<>>
  PROVE  Served(Finish(s, i, "ok"), st \o w)
<1> DEFINE u == Finish(s, i, "ok")
           v == st \o w
<1>1. /\ Len(u) = Len(s) /\ u[i].ec = "ok" /\ Len(s) \in Nat
      /\ \A j \in 1..Len(s) : j # i => u[j] = s[j]
  <2>1. i \in DOMAIN s /\ "ok" \in Results
    BY DEF Results
  <2>2. QED
    BY <2>1, FinishOutcome, FinishWrite
<1>2. v # <<>>
  <2>1. Len(v) = Len(st) + Len(w) /\ Len(w) \in Nat /\ Len(st) \in Nat /\ Len(w) # 0
    <3>1. Len(w) # 0
      BY DEF Words
    <3>2. QED
      BY <3>1, ConcatWords
  <2> HIDE DEF v
  <2>2. QED
    BY <2>1
<1> HIDE DEF u, v
<1>3. \A j \in 1..Len(s) : j < i => s[j].ec # "pending"
  <2>1. \A j \in 1..Len(s) : j < i => j \in 1..(i - 1)
    OBVIOUS
  <2>2. QED
    BY <2>1 DEF IsFirstPending
<1>4. QED
  BY <1>1, <1>2, <1>3 DEF Served, u, v

\* Nothing written, nothing on the wire.
LEMMA EmptyLine ==
  ASSUME NEW k, NEW t
  PROVE  InLine(k, <<>>, <<>>) /\ Served(<<>>, <<>>) /\ AllPosted(t, <<>>, <<>>, 0)
<1>1. Len(<<>>) = 0
  OBVIOUS
<1>2. InLine(k, <<>>, <<>>)
  BY <1>1 DEF InLine, Chained, NextOut, LastOut, Whole, WellFormed
<1>3. AllPosted(t, <<>>, <<>>, 0)
  BY <1>1 DEF AllPosted, TipNo
<1>4. QED
  BY <1>1, <1>2, <1>3 DEF Served

\* The number, being written first.
LEMMA NumberLine ==
  ASSUME NEW k \in Seq(Kinds), NEW x \in WriteOps, x.op = "nonce", x.n = 0, x.ec = "pending"
  PROVE  InLine(k, <<x>>, <<>>) /\ Served(<<x>>, <<>>) /\ TipNo(<<x>>, <<>>) = 0
<1> DEFINE u == <<x>>
<1>1. Len(u) = 1 /\ u[1] = x /\ u # <<>>
  OBVIOUS
<1> HIDE DEF u
<1>2. InLine(k, u, <<>>)
  BY <1>1 DEF InLine, Chained, NextOut, LastOut, Whole, WellFormed, FirstOf
<1>3. Served(u, <<>>) /\ TipNo(u, <<>>) = 0
  BY <1>1 DEF Served, TipNo
<1>4. QED
  BY <1>2, <1>3 DEF u

\* What is posted stays posted.
LEMMA PostedMore ==
  ASSUME NEW t \in Seq(Tasks), NEW x \in Tasks, NEW n, Posted(t, n)
  PROVE  Posted(Append(t, x), n)
<1>1. PICK i \in 1..Len(t) : t[i] = SendTask(n)
  BY DEF Posted
<1>2. i \in 1..Len(Append(t, x)) /\ Append(t, x)[i] = t[i]
  OBVIOUS
<1>3. QED
  BY <1>1, <1>2 DEF Posted

\* One more message is sent.
LEMMA PostedNext ==
  ASSUME NEW t \in Seq(Tasks), NEW s, NEW st, NEW m \in Nat, TipNo(s, st) \in Nat,
         AllPosted(t, s, st, m)
  PROVE  AllPosted(Append(t, SendTask(m + 1)), s, st, m + 1)
<1> DEFINE x == SendTask(m + 1)
<1>1. x \in Tasks
  BY DEF SendTask, Tasks
<1> HIDE DEF x
<1>2. Len(Append(t, x)) \in 1..Len(Append(t, x)) /\ Append(t, x)[Len(Append(t, x))] = x
  BY <1>1
<1>3. Posted(Append(t, x), m + 1)
  BY <1>2 DEF Posted, x
<1>4. ASSUME NEW n \in (TipNo(s, st) + 1)..(m + 1) PROVE Posted(Append(t, x), n)
  <2>1. n = m + 1 \/ n \in (TipNo(s, st) + 1)..m
    OBVIOUS
  <2>2. QED
    BY <1>1, <1>3, <2>1, PostedMore DEF AllPosted
<1>5. QED
  BY <1>4 DEF AllPosted, x

\* The next function that Send() posted is that of the next message.
LEMMA NextToSend ==
  ASSUME NEW k, NEW s, NEW st, Fits(k, s, st), InLine(k, s, st),
         NEW t \in Seq(Tasks), t # <<>>, t[1].op = "send", NamesSent(t, "send", Len(k)),
         TaskOrder(t, s, st), AllPosted(t, s, st, Len(k))
  PROVE  /\ TipNo(s, st) \in Nat /\ t[1].n = TipNo(s, st) + 1
         /\ \A n \in (t[1].n + 1)..Len(k) : Posted(Tail(t), n)
<1> DEFINE tip == TipNo(s, st)
           m == Len(k)
<1>1. /\ m \in Nat /\ Len(t) \in Nat /\ 1 \in 1..Len(t) /\ t[1].n \in 1..m
      /\ Len(s) \in Nat /\ Len(st) \in Nat
  BY DEF Fits, NamesSent, Words
<1>2. tip \in 0..m /\ tip < t[1].n
  <2>1. CASE s # <<>>
    <3>1. Len(s) \in 1..Len(s)
      BY <2>1 DEF Fits
    <3>2. /\ s[Len(s)].n \in 0..m /\ (s[Len(s)].op = "nonce" => s[Len(s)].n = 0)
      BY <3>1, WriteEnds DEF InLine
    <3>3. s[Len(s)].op # "nonce" => s[Len(s)].n < t[1].n
      BY <1>1, <3>1 DEF TaskOrder, PostedIsNew
    <3>4. QED
      BY <1>1, <2>1, <3>2, <3>3 DEF TipNo
  <2>2. CASE s = <<>> /\ st # <<>>
    <3>1. Len(st) \in 1..Len(st)
      BY <2>2 DEF Fits, Words
    <3>2. st[Len(st)][1] < t[1].n
      BY <1>1, <3>1 DEF TaskOrder, PostedIsNew
    <3>3. st[Len(st)][1] \in Nat
      BY <3>1, WordTyped DEF Fits
    <3>4. QED
      BY <1>1, <2>2, <3>2, <3>3 DEF TipNo, LastWord
  <2>3. CASE s = <<>> /\ st = <<>>
    BY <1>1, <2>3 DEF TipNo
  <2>4. QED
    BY <2>1, <2>2, <2>3
<1> HIDE DEF tip
<1>3. t[1].n = tip + 1
  <2>1. tip + 1 \in (tip + 1)..m
    BY <1>1, <1>2
  <2>2. Posted(t, tip + 1)
    BY <2>1 DEF AllPosted, tip
  <2>3. PICK i \in 1..Len(t) : t[i] = SendTask(tip + 1)
    BY <2>2 DEF Posted
  <2>4. t[i].op = "send" /\ t[i].n = tip + 1
    BY <2>3 DEF SendTask
  <2>5. i = 1 \/ t[1].n < t[i].n
    BY <1>1, <2>4 DEF TaskOrder, PostedInOrder
  <2>6. QED
    BY <1>1, <1>2, <2>4, <2>5
<1>4. ASSUME NEW n \in (t[1].n + 1)..m PROVE Posted(Tail(t), n)
  <2>1. n \in (tip + 1)..m /\ n # t[1].n
    BY <1>1, <1>2, <1>3
  <2>2. PICK i \in 1..Len(t) : t[i] = SendTask(n)
    BY <2>1 DEF AllPosted, Posted, tip
  <2>3. i # 1
    BY <2>1, <2>2 DEF SendTask
  <2>4. /\ i - 1 \in 1..Len(Tail(t)) /\ Tail(t)[i - 1] = t[(i - 1) + 1] /\ (i - 1) + 1 = i
    BY <1>1, <2>3
  <2>5. QED
    BY <2>2, <2>4 DEF Posted
<1>5. QED
  BY <1>2, <1>3, <1>4 DEF tip

-----------------------------------------------------------------------------
(* Every step keeps the line.                                              *)

ChannelInv == IndInv /\ HandshakeInv /\ OrderInv
AllInv == ChannelInv /\ ApartInv

LEMMA FitsNow ==
  ASSUME AllInv, NEW e \in Ends
  PROVE  /\ Fits(sent[e], writes[e], stream[e])
         /\ TaskOrder(tasks[e], writes[e], stream[e])
         /\ NamesSent(tasks[e], "send", Len(sent[e]))
         /\ tasks[e] \in Seq(Tasks) /\ Len(sent[e]) \in Nat
<1>1. IndInv /\ OrderAt(tasks[e], writes[e], stream[e], Len(sent[e]))
  BY DEF AllInv, ChannelInv, OrderInv
<1>2. sent[e] \in Seq(Kinds) /\ Bodied(sent[e], writes[e])
  BY <1>1 DEF IndInv, RestOK, AllInv, ApartInv, WriterOK
<1>3. QED
  BY <1>1, <1>2, WritesOfSent DEF Fits, OrderAt

\* Which steps open or close a socket.
LEMMA SocketMoves ==
  ASSUME IndInv, [Next]_vars, NEW e \in Ends
  PROVE  \/ socket'[e] = socket[e]
         \/ RunClose(e) /\ socket'[e] = "closed"
         \/ Quit(e) /\ socket'[e] = "gone"
         \/ e = "client" /\ ConnectToServer
         \/ e = "server" /\ (Accept \/ IdExists)
         \/ e = "server" /\ AcceptFails /\ socket'[e] = "closed"
<1>1. socket \in [Ends -> {"none", "open", "closed", "gone"}]
  BY DEF IndInv, RestOK
<1>2. CASE UNCHANGED vars
  BY <1>2 DEF vars
<1>3. CASE \/ LinkUp \/ Refuse \/ ConnectDone \/ Expire \/ ConnectTimeOut \/ ListenerStops
           \/ AnswerValidation \/ ClientValidated \/ ClientRejected
           \/ PingServer \/ ClientHandles \/ ServerHandles \/ Broadcast
  BY <1>3 DEF LinkUp, Refuse, ConnectDone, Expire, ConnectTimeOut, ListenerStops, AnswerValidation,
              ClientValidated, ClientRejected, PingServer, ClientHandles, ServerHandles, Broadcast
<1>4. CASE ConnectToServer \/ Accept \/ IdExists \/ AcceptFails
  BY <1>1, <1>4 DEF ConnectToServer, Accept, IdExists, AcceptFails, Ends
<1>5. ASSUME NEW f \in Ends, Kernel(f) PROVE socket' = socket
  BY <1>5 DEF Kernel, Reset, Transfer, WriteFails, Arrive, ReadFails
<1>6. ASSUME NEW f \in Ends, Handlers(f), ~RunClose(f) PROVE socket' = socket
  BY <1>6 DEF Handlers, RunSend, WriteError, HeaderWritten, BodyWritten, NonceWritten,
              ReadError, HeaderRead, BodyRead
<1>7. ASSUME NEW f \in Ends, RunClose(f) \/ Quit(f)
      PROVE  \/ socket'[e] = socket[e]
             \/ RunClose(e) /\ socket'[e] = "closed"
             \/ Quit(e) /\ socket'[e] = "gone"
  BY <1>1, <1>7 DEF RunClose, Quit
<1>8. QED
  BY <1>2, <1>3, <1>4, <1>5, <1>6, <1>7, ConnectionAssumption DEF Next, Ends

\* Before its socket is there an end has nothing to do.
LEMMA FreshStays ==
  ASSUME AllInv, [Next]_vars, NEW e \in Ends, socket'[e] = "none"
  PROVE  /\ tasks'[e] = <<>> /\ writes'[e] = <<>> /\ stream'[e] = <<>> /\ sent'[e] = <<>>
         /\ socket[e] = "none"
<1>1. IndInv /\ IndInv' /\ "open" # "none"
  BY NextIndInv DEF AllInv, ChannelInv
<1>2. /\ DOMAIN tasks = Ends /\ DOMAIN writes = Ends /\ DOMAIN socket = Ends /\ DOMAIN stream = Ends
      /\ DOMAIN sent = Ends
  BY <1>1 DEF IndInv, TasksOK, WritesOK, RestOK
<1>3. socket[e] = "none" /\ ~(e = "server" /\ (Accept \/ IdExists))
  BY <1>1, <1>2, SocketMoves DEF ConnectToServer, Accept, IdExists, Ends
<1>4. /\ tasks[e] = <<>> /\ writes[e] = <<>> /\ stream[e] = <<>> /\ sent[e] = <<>>
  BY <1>3 DEF AllInv, ApartInv, WriterOK
<1>5. ~Transfer(e) /\ ~RunSend(e) /\ ~RunClose(e) /\ ~WriteError(e) /\ ~HeaderWritten(e)
      /\ ~BodyWritten(e) /\ ~NonceWritten(e) /\ ~Quit(e)
  BY <1>1, <1>2, <1>3, <1>4 DEF Transfer, RunSend, RunClose, WriteError, HeaderWritten, BodyWritten,
     NonceWritten, Quit
<1>6. ~WriteFails(e)
  BY <1>4 DEF WriteFails, IsFirstPending
<1>7. ~(e = "client" /\ AnswerValidation)
  BY <1>1, <1>3 DEF AnswerValidation, HasRead, AllInv, ApartInv, ClientOK, IndInv, TurnsOK
<1>8. ChangesAt(e)
  BY <1>1, EndChanges
<1>9. sent'[e] = sent[e]
  <2>1. CASE e = "client"
    <3>1. ~PingServer
      BY <1>3, <2>1 DEF PingServer
    <3>2. QED
      BY <1>1, <2>1, <3>1, ProgramChanges
  <2>2. CASE e = "server"
    <3>1. reads[e] = <<>> /\ recv[e] = <<>>
      BY <1>3, <2>2 DEF AllInv, ChannelInv, HandshakeInv, AcceptOK, Untouched
    <3>2. ~ClientValidated /\ ~Broadcast
      BY <1>3, <2>2, <3>1 DEF ClientValidated, HasRead, Broadcast
    <3>3. ~ServerHandles
      <4>1. handled[e] \in Nat /\ Len(<<>>) = 0
        BY <1>1 DEF IndInv, RestOK
      <4>2. QED
        BY <2>2, <3>1, <4>1 DEF ServerHandles
    <3>4. QED
      BY <1>1, <1>3, <2>2, <3>2, <3>3, ProgramChanges
  <2>3. QED
    BY <2>1, <2>2 DEF Ends
<1>10. ~(\E k \in Kinds : Send(e, k))
  <2>1. \A k : Append(<<>>, k) # <<>>
    OBVIOUS
  <2>2. QED
    BY <1>2, <1>4, <1>9, <2>1 DEF Send
<1>11. QED
  BY <1>2, <1>3, <1>4, <1>5, <1>6, <1>7, <1>8, <1>9, <1>10 DEF ChangesAt, Disconnect

\* Nothing is written before there is a connection.
LEMMA LinkedStays ==
  ASSUME AllInv, [Next]_vars, SendsApart, NEW e \in Ends, writes'[e] # <<>> \/ stream'[e] # <<>>
  PROVE  linked'
<1>1. IndInv /\ (linked => linked') /\ ChangesAt(e)
  BY LinkChange, EndChanges DEF AllInv, ChannelInv
<1>2. \A f \in Ends : writes[f] # <<>> \/ stream[f] # <<>> => linked
  BY DEF AllInv, ApartInv, WriterOK
<1>3. CASE RunSend(e)
  BY <1>1, <1>3 DEF SendsApart
<1>4. CASE e = "server" /\ Accept
  BY <1>4 DEF Accept, AcceptHandler
<1>5. CASE e = "client" /\ AnswerValidation
  <2>1. reads[e] # <<>> /\ Head(reads[e]).ec = "ok" /\ Head(reads[e]).op = "nonce"
    BY <1>5 DEF AnswerValidation, HasRead
  <2>2. reads[e][1].ec = "ok" /\ reads[e][1].op = "nonce"
    BY <1>1, <2>1, ReadHandled
  <2>3. Len(stream["server"]) >= 2
    BY <1>5, <2>1, <2>2 DEF AllInv, ChannelInv, HandshakeInv, FirstReadOK, NumberRead, Peer, Ends
  <2>4. stream["server"] # <<>> /\ "server" \in Ends
    <3>1. ~(Len(<<>>) >= 2)
      OBVIOUS
    <3>2. QED
      BY <2>3, <3>1 DEF Ends
  <2>5. QED
    BY <1>1, <1>2, <2>4
<1>6. CASE writes'[e] = writes[e] /\ stream'[e] = stream[e]
  BY <1>1, <1>2, <1>6
<1>7. CASE Transfer(e)
  BY <1>1, <1>7 DEF Transfer
<1>8. CASE /\ ~Transfer(e)
           /\ \/ WriteFails(e) \/ RunClose(e) \/ WriteError(e) \/ HeaderWritten(e) \/ BodyWritten(e)
              \/ NonceWritten(e)
  <2> SUFFICES writes[e] # <<>> \/ stream[e] # <<>>
    BY <1>1, <1>2
  <2>1. CASE writes[e] = <<>> /\ stream'[e] = stream[e]
    <3>1. Abort(<<>>) = <<>>
      BY DEF Abort
    <3>2. QED
      BY <1>1, <1>8, <2>1, <3>1 DEF WriteFails, IsFirstPending, RunClose, WriteError, HeaderWritten,
         BodyWritten, NonceWritten, IndInv, WritesOK
  <2>2. QED
    BY <1>1, <1>8, <2>1 DEF ChangesAt
<1>9. CASE Quit(e)
  BY <1>1, <1>2, <1>9 DEF Quit, IndInv, WritesOK
<1>10. QED
  BY <1>1, <1>3, <1>4, <1>5, <1>6, <1>7, <1>8, <1>9 DEF ChangesAt

\* A connection that can write could write before, or is new.
LEMMA CouldWrite ==
  ASSUME AllInv, [Next]_vars, NEW e \in Ends, CanWrite(e)'
  PROVE  \/ /\ CanWrite(e) /\ ~RunClose(e) /\ ~Quit(e)
            /\ ~(e = "client" /\ ConnectToServer) /\ ~(e = "server" /\ (Accept \/ IdExists))
         \/ e = "client" /\ ConnectToServer
         \/ e = "server" /\ Accept
         \/ e = "server" /\ IdExists
<1>1. IndInv /\ reset \subseteq reset' /\ socket'[e] = "open" /\ e \notin reset'
  BY LinkChange DEF AllInv, ChannelInv, CanWrite
<1>2. ~RunClose(e) /\ ~Quit(e)
  BY <1>1 DEF RunClose, Quit, IndInv, RestOK
<1>3. CASE socket[e] = "open"
  BY <1>1, <1>2, <1>3 DEF CanWrite, ConnectToServer, Accept, IdExists, AcceptHandler
<1>4. CASE socket[e] # "open"
  BY <1>1, <1>2, <1>4, SocketMoves
<1>5. QED
  BY <1>3, <1>4

LEMMA SentGrows ==
  ASSUME IndInv, [Next]_vars, NEW e \in Ends
  PROVE  sent'[e] = sent[e] \/ \E k \in Kinds : sent'[e] = Append(sent[e], k)
<1>1. DOMAIN sent = Ends /\ "ServerAccept" \in Kinds
  BY DEF IndInv, RestOK, Kinds
<1>2. ChangesAt(e)
  BY EndChanges
<1>3. CASE e = "server" /\ IdExists
  BY <1>1, <1>3 DEF IdExists
<1>4. CASE \E k \in Kinds : Send(e, k)
  BY <1>1, <1>4 DEF Send
<1>5. QED
  BY <1>2, <1>3, <1>4 DEF ChangesAt

\* A write goes out at an end.
LEMMA LineAfterTransfer ==
  ASSUME AllInv, NEW e \in Ends, Transfer(e)
  PROVE  /\ LineAt(e)'
         /\ Marked(stream'[e]) =>
               /\ InRow(sent'[e], stream'[e])
               /\ Marked(stream[e]) \/ (writes[e] # <<>> /\ IsNumber(writes[e][1]))
<1> DEFINE k == sent[e]
           s == writes[e]
           st == stream[e]
<1>1. IndInv /\ OrderInv /\ Fits(k, s, st) /\ s \in Seq(WriteOps) /\ st \in Words
      /\ DOMAIN writes = Ends /\ DOMAIN stream = Ends
  BY FitsNow DEF AllInv, ChannelInv, Fits, IndInv, WritesOK, RestOK
<1>2. /\ Marked(st) => InRow(k, st)
      /\ Served(s, st)
      /\ Straight(s, st) => InLine(k, s, st) /\ AllPosted(tasks[e], s, st, Len(k))
  BY DEF AllInv, ApartInv, WriterOK, LineAt, CanWrite, Transfer
<1>3. PICK i \in DOMAIN s :
        /\ IsFirstPending(s, i)
        /\ stream' = [stream EXCEPT ![e] = @ \o WordsOf(e, s[i])]
        /\ writes' = [writes EXCEPT ![e] = Finish(@, i, "ok")]
        /\ UNCHANGED <<tasks, sent>>
  BY DEF Transfer, appVars
<1> DEFINE x == s[i]
           w == WordsOf(e, x)
           u == Finish(s, i, "ok")
           v == st \o w
<1>4. stream'[e] = v /\ writes'[e] = u /\ tasks'[e] = tasks[e] /\ sent'[e] = k
  BY <1>1, <1>3
<1>5. i \in 1..Len(s) /\ x \in WriteOps /\ w \in Words
  BY <1>1, TransferEffect
\* What there is to write is not empty, and only the number begins with its words.
<1>6. /\ x.op = "nonce" => w = Answer(x.n)
      /\ x.op = "header" => w = Pair(x.n) /\ x.n \in 1..Len(k)
      /\ x.op = "body" => w = Body(x.n, k[x.n])
  BY <1>1, <1>5 DEF WordsOf, Fits
<1>7. w # <<>> /\ Len(w) # 0
  <2>1. x.op = "body" => BodyLen[k[x.n]] > 0 /\ BodyLen[k[x.n]] \in {0, 1, 2}
    <3>1. x.op = "body" => x.n \in 1..Len(k) /\ k \in Seq(Kinds) /\ BodyLen[k[x.n]] > 0
      BY <1>1, <1>5 DEF Fits, Bodied
    <3>2. QED
      BY <3>1, Sizes
  <2>2. Len(w) # 0
    <3>1. CASE x.op = "body"
      <4> DEFINE l == BodyLen[k[x.n]]
      <4>1. w = [j \in 1..l |-> <<x.n, PairLen + j>>]
        BY <1>6, <3>1 DEF Body
      <4>2. l \in Nat /\ l > 0
        BY <2>1, <3>1
      <4> HIDE DEF l, w
      <4>3. QED
        BY <4>1, <4>2
    <3>2. CASE x.op # "body"
      <4>1. w = Pair(x.n) \/ w = Answer(x.n)
        BY <1>5, <1>6, <3>2 DEF WriteOps
      <4>2. Len(Pair(x.n)) = 2 /\ Len(Answer(x.n)) = 2
        BY DEF Pair, Answer
      <4> HIDE DEF w
      <4>3. QED
        BY <4>1, <4>2
    <3>3. QED
      BY <3>1, <3>2
  <2> HIDE DEF w
  <2>3. QED
    BY <2>2
<1>8. /\ Len(v) = Len(st) + Len(w) /\ Len(st) \in Nat /\ Len(w) \in Nat
      /\ \A j \in 1..Len(st) : v[j] = st[j]
      /\ \A j \in 1..Len(w) : v[Len(st) + j] = w[j]
  BY <1>1, <1>5, ConcatWords
<1>9. u # <<>> /\ Len(u) = Len(s) /\ Len(s) # 0
  <2>1. Len(u) = Len(s) /\ Len(s) # 0
    BY <1>1, <1>5, FinishOutcome DEF Results
  <2> HIDE DEF u
  <2>2. QED
    BY <2>1
<1> HIDE DEF w, u, v, x
\* The line is straight after it only if it was before.
<1>10. ASSUME Marked(v) PROVE Straight(s, st) /\ (st = <<>> \/ Marked(st))
  <2>1. CASE st # <<>>
    <3>1. 1 \in 1..Len(st)
      BY <1>1, <2>1 DEF Words
    <3>2. v[1] = st[1]
      BY <1>8, <3>1
    <3>3. QED
      BY <1>10, <2>1, <3>2 DEF Marked, Straight
  <2>2. CASE st = <<>>
    <3>1. i = 1
      <4> SUFFICES ASSUME i # 1 PROVE FALSE
        OBVIOUS
      <4>1. 1 \in 1..Len(s) /\ 1 \in 1..(i - 1)
        BY <1>5
      <4>2. s[1].ec # "pending" /\ s[1].ec # "failed" /\ s[1].ec # "ok"
        BY <1>2, <1>3, <2>2, <4>1 DEF IsFirstPending, Served
      <4>3. s[1] \in WriteOps
        BY <1>1, <4>1
      <4>4. QED
        BY <4>2, <4>3 DEF WriteOps, Results
    <3>2. Len(w) # 0 /\ w[1] = <<0, 1>>
      <4>1. Len(st) = 0
        BY <2>2
      <4>2. 1 \in 1..Len(w)
        BY <1>7, <1>8
      <4>3. v[Len(st) + 1] = w[1] /\ Len(st) + 1 = 1
        BY <1>8, <4>1, <4>2
      <4>4. QED
        BY <1>7, <1>10, <4>3 DEF Marked
    <3>3. IsNumber(x)
      <4>1. CASE x.op = "nonce"
        BY <1>6, <3>2, <4>1 DEF Answer, Pair, IsNumber
      <4>2. CASE x.op = "header"
        BY <1>6, <3>2, <4>2 DEF Pair
      <4>3. CASE x.op = "body"
        <5>1. x.n \in 1..Len(k) /\ k \in Seq(Kinds)
          BY <1>1, <1>5, <4>3 DEF Fits, x
        <5>2. BodyLen[k[x.n]] \in {0, 1, 2}
          BY <5>1, Sizes
        <5> DEFINE l == BodyLen[k[x.n]]
        <5>3. w = [j \in 1..l |-> <<x.n, 2 + j>>]
          BY <1>6, <4>3 DEF Body, PairLen
        <5> HIDE DEF l
        <5>4. l \in Nat
          BY <5>2 DEF l
        <5>5. Len(w) = l /\ \A j \in 1..l : w[j] = <<x.n, 2 + j>>
          BY <5>3, <5>4
        <5>6. w[1] = <<x.n, 2 + 1>>
          BY <3>2, <5>4, <5>5
        <5>7. QED
          BY <3>2, <5>6
      <4>4. QED
        BY <1>5, <4>1, <4>2, <4>3 DEF WriteOps
    <3>4. QED
      BY <2>2, <3>1, <3>3 DEF Straight, x
  <2>3. QED
    BY <2>1, <2>2
<1>11. ASSUME Marked(v)
       PROVE  InRow(k, v) /\ InLine(k, u, v) /\ AllPosted(tasks[e], u, v, Len(k))
  <2>1. InLine(k, s, st) /\ AllPosted(tasks[e], s, st, Len(k))
    BY <1>2, <1>10, <1>11
  <2>2. x.op = "nonce" => w = Pair(0)
    BY <1>5, <1>6, <2>1 DEF InLine, WellFormed, Answer, x
  <2>3. InRow(k, v) /\ InLine(k, u, v) /\ TipNo(u, v) = TipNo(s, st)
    BY <1>1, <1>2, <1>3, <1>5, <1>6, <1>10, <1>11, <2>1, <2>2, LineGoesOut DEF u, v, x
  <2>4. QED
    BY <2>1, <2>3 DEF AllPosted
<1>12. Served(u, v)
  BY <1>1, <1>2, <1>3, <1>5, <1>7, ServedGoesOut DEF u, v
<1>13. v # <<>>
  <2>1. Len(v) # 0
    BY <1>7, <1>8
  <2>2. QED
    BY <2>1
<1>14. Marked(v) => Marked(st) \/ (s # <<>> /\ IsNumber(s[1]))
  <2>1. s # <<>>
    BY <1>9
  <2>2. QED
    BY <1>10, <2>1 DEF Straight, Marked
<1>15. QED
  BY <1>4, <1>9, <1>11, <1>12, <1>13, <1>14 DEF LineAt, Straight

\* The bodies that are written stay those there are.
LEMMA BodiedQueue ==
  ASSUME NEW k, NEW s \in Seq(WriteOps), Bodied(k, s)
  PROVE  /\ s # <<>> => Bodied(k, Tail(s)) /\ Tail(s) \in Seq(WriteOps)
         /\ \A x \in WriteOps : (x.op = "body" => BodyLen[k[x.n]] > 0) => Bodied(k, Append(s, x))
         /\ \A u : Len(u) = Len(s) /\ (\A j \in 1..Len(s) : u[j].op = s[j].op /\ u[j].n = s[j].n)
                      => Bodied(k, u)
<1>1. s # <<>> => Bodied(k, Tail(s)) /\ Tail(s) \in Seq(WriteOps)
  BY DEF Bodied
<1>2. ASSUME NEW x \in WriteOps, x.op = "body" => BodyLen[k[x.n]] > 0
      PROVE  Bodied(k, Append(s, x))
  <2> DEFINE u == Append(s, x)
  <2>1. Len(s) \in Nat /\ Len(u) = Len(s) + 1 /\ u[Len(s) + 1] = x /\ \A i \in 1..Len(s) : u[i] = s[i]
    OBVIOUS
  <2> HIDE DEF u
  <2>2. ASSUME NEW i \in 1..Len(u), u[i].op = "body" PROVE BodyLen[k[u[i].n]] > 0
    <3>1. i \in 1..Len(s) \/ i = Len(s) + 1
      BY <2>1
    <3>2. QED
      BY <1>2, <2>1, <2>2, <3>1 DEF Bodied
  <2>3. QED
    BY <2>2 DEF Bodied, u
<1>3. ASSUME NEW u, Len(u) = Len(s), \A j \in 1..Len(s) : u[j].op = s[j].op /\ u[j].n = s[j].n
      PROVE  Bodied(k, u)
  BY <1>3 DEF Bodied
<1>4. QED
  BY <1>1, <1>2, <1>3

LEMMA BodiedStays ==
  ASSUME AllInv, [Next]_vars, NEW e \in Ends
  PROVE  Bodied(sent'[e], writes'[e])
<1> DEFINE k == sent[e]
           s == writes[e]
<1>1. /\ IndInv /\ Fits(k, s, stream[e]) /\ s \in Seq(WriteOps) /\ Bodied(k, s)
      /\ k \in Seq(Kinds) /\ DOMAIN writes = Ends /\ DOMAIN sent = Ends
  BY FitsNow DEF AllInv, ChannelInv, Fits, IndInv, WritesOK, RestOK
<1>2. ChangesAt(e)
  BY <1>1, EndChanges
<1>3. CASE writes'[e] = s
  <2>1. CASE sent'[e] = k
    BY <1>1, <1>3, <2>1
  <2>2. ASSUME NEW x \in Kinds, sent'[e] = Append(k, x)
        PROVE  Bodied(sent'[e], s)
    <3>1. \A n \in 1..Len(k) : Append(k, x)[n] = k[n]
      BY <1>1, FramesStay
    <3>2. \A i \in 1..Len(s) : s[i].op = "body" => s[i].n \in 1..Len(k)
      BY <1>1 DEF Fits
    <3>3. QED
      BY <1>1, <2>2, <3>1, <3>2 DEF Bodied
  <2>3. QED
    BY <1>1, <1>3, <2>1, <2>2, SentGrows
<1>4. CASE Transfer(e) \/ WriteFails(e)
  <2>1. PICK i \in DOMAIN s, ec \in {"ok", "failed"} : writes'[e] = Finish(s, i, ec)
    BY <1>1, <1>4 DEF Transfer, WriteFails
  <2>2. sent'[e] = k
    BY <1>4 DEF Transfer, WriteFails, appVars
  <2>3. /\ Len(Finish(s, i, ec)) = Len(s)
        /\ \A j \in 1..Len(s) : Finish(s, i, ec)[j].op = s[j].op /\ Finish(s, i, ec)[j].n = s[j].n
    <3>1. ec \in Results /\ i \in DOMAIN s /\ s \in Seq(WriteOps)
      BY <1>1 DEF Results
    <3> HIDE DEF s
    <3>2. QED
      BY <3>1, FinishWrite
  <2>4. QED
    BY <1>1, <2>1, <2>2, <2>3, BodiedQueue
<1>5. CASE RunClose(e)
  <2>1. writes'[e] = Abort(s) /\ sent'[e] = k
    BY <1>1, <1>5 DEF RunClose, appVars
  <2>2. QED
    BY <1>1, <2>1, AbortWrite, BodiedQueue
<1>6. CASE RunSend(e)
  <2>1. PICK n \in 1..Len(k) : writes'[e] = Append(s, Write(e, "header", n))
    BY <1>1, <1>6, RunSendEffect
  <2>2. sent'[e] = k /\ n \in Nat
    BY <1>6 DEF RunSend, appVars
  <2>3. Write(e, "header", n) \in WriteOps /\ Write(e, "header", n).op = "header"
    BY <2>2, OpsTyped
  <2>4. QED
    BY <1>1, <2>1, <2>2, <2>3, BodiedQueue
<1>7. CASE WriteError(e) \/ BodyWritten(e) \/ NonceWritten(e)
  <2>1. writes'[e] = Tail(s) /\ sent'[e] = k /\ s # <<>>
    BY <1>1, <1>7, BodyWrittenEffect DEF WriteError, BodyWritten, NonceWritten, appVars
  <2>2. QED
    BY <1>1, <2>1, BodiedQueue
<1>8. CASE HeaderWritten(e)
  <2> DEFINE n == Head(s).n
  <2>1. sent'[e] = k /\ s # <<>> /\ Head(s).op = "header"
    BY <1>8 DEF HeaderWritten, appVars
  <2>2. n \in 1..Len(k) /\ n \in Nat
    BY <1>1, <2>1, WriteRemoved
  <2>3. /\ Write(e, "body", n) \in WriteOps /\ Write(e, "body", n).op = "body"
        /\ Write(e, "body", n).n = n
    BY <2>2, OpsTyped
  <2>4. \/ /\ BodyLen[k[n]] > 0
           /\ writes'[e] = Append(Tail(s), Write(e, "body", n))
        \/ writes'[e] = Tail(s)
    BY <1>1, <1>8, HeaderWrittenEffect
  <2> HIDE DEF n
  <2>5. Bodied(k, Tail(s)) /\ Tail(s) \in Seq(WriteOps)
    BY <1>1, <2>1, BodiedQueue
  <2>6. QED
    BY <2>1, <2>3, <2>4, <2>5, BodiedQueue
<1>9. CASE Quit(e)
  <2>1. writes'[e] = <<>>
    BY <1>1, <1>9 DEF Quit
  <2>2. QED
    BY <2>1 DEF Bodied
<1>10. CASE e = "server" /\ Accept
  <2>1. writes'[e] = <<[op |-> "nonce", n |-> 0, ec |-> "pending"]>>
    BY <1>1, <1>10 DEF Accept
  <2>2. QED
    BY <2>1 DEF Bodied
<1>11. CASE e = "client" /\ AnswerValidation
  <2> DEFINE n == MessageNumber(Head(reads["client"]).data)
  <2>1. writes'[e] = Append(s, Write(e, "nonce", n)) /\ sent'[e] = k
    BY <1>1, <1>11 DEF AnswerValidation, appVars
  <2>2. n \in Nat
    BY <1>1, <1>11, DataRead DEF AnswerValidation, HasRead
  <2>3. Write(e, "nonce", n) \in WriteOps /\ Write(e, "nonce", n).op = "nonce"
    BY <2>2, OpsTyped
  <2>4. QED
    BY <1>1, <2>1, <2>3, BodiedQueue
<1>12. QED
  BY <1>2, <1>3, <1>4, <1>5, <1>6, <1>7, <1>8, <1>9, <1>10, <1>11 DEF ChangesAt

\* The words on the wire stay in a row.
LEMMA RowStays ==
  ASSUME AllInv, [Next]_vars, NEW e \in Ends, Marked(stream'[e])
  PROVE  InRow(sent'[e], stream'[e])
<1> DEFINE k == sent[e]
           st == stream[e]
<1>1. IndInv /\ Fits(k, writes[e], st) /\ (Marked(st) => InRow(k, st))
  BY FitsNow DEF AllInv, ChannelInv, ApartInv, WriterOK
<1>2. CASE Transfer(e)
  BY <1>2, LineAfterTransfer
<1>3. CASE stream'[e] = st
  <2>1. InRow(k, st)
    BY <1>1, <1>3
  <2>2. CASE sent'[e] = k
    BY <1>3, <2>1, <2>2
  <2>3. ASSUME NEW x \in Kinds, sent'[e] = Append(k, x)
        PROVE  InRow(sent'[e], st)
    BY <1>1, <2>1, <2>3, LineStays
  <2>4. QED
    BY <1>1, <1>3, <2>2, <2>3, SentGrows
<1>4. QED
  BY <1>1, <1>2, <1>3, EndChanges DEF ChangesAt

\* The writes of an end that can write go out in order, whatever is started.
LEMMA ServedQueue ==
  ASSUME NEW s \in Seq(WriteOps), NEW st, Served(s, st)
  PROVE  /\ s # <<>> => Served(Tail(s), st) /\ Tail(s) \in Seq(WriteOps) /\ Head(s) = s[1]
         /\ \A x \in WriteOps : x.ec = "pending" => Served(Append(s, x), st)
<1>1. s # <<>> => Served(Tail(s), st) /\ Tail(s) \in Seq(WriteOps) /\ Head(s) = s[1]
  BY DEF Served
<1>2. ASSUME NEW x \in WriteOps, x.ec = "pending"
      PROVE  Served(Append(s, x), st)
  <2> DEFINE u == Append(s, x)
  <2>1. Len(s) \in Nat /\ Len(u) = Len(s) + 1 /\ u[Len(s) + 1] = x /\ \A i \in 1..Len(s) : u[i] = s[i]
    OBVIOUS
  <2> HIDE DEF u
  <2>2. \A i \in 1..Len(u) : i \in 1..Len(s) \/ i = Len(s) + 1
    BY <2>1
  <2>3. \A i \in 1..Len(u) : u[i].ec # "failed" /\ (u[i].ec = "ok" => st # <<>>)
    BY <1>2, <2>1, <2>2 DEF Served
  <2>4. ASSUME NEW i \in 1..Len(u), NEW j \in 1..Len(u), i < j, u[i].ec = "pending"
        PROVE  u[j].ec = "pending"
    <3>1. i \in 1..Len(s)
      BY <2>1, <2>4
    <3>2. QED
      BY <1>2, <2>1, <2>2, <2>4, <3>1 DEF Served
  <2>5. QED
    BY <2>3, <2>4 DEF Served, u
<1>3. QED
  BY <1>1, <1>2

\* No write: the program sends, or calls Disconnect().
LEMMA LineWaits ==
  ASSUME AllInv, NEW e \in Ends, LineAt(e), writes'[e] = writes[e], stream'[e] = stream[e],
         \/ sent'[e] = sent[e] /\ (tasks'[e] = tasks[e] \/ Disconnect(e))
         \/ \E k \in Kinds : Send(e, k)
  PROVE  LineAt(e)'
<1> DEFINE k == sent[e]
           s == writes[e]
           st == stream[e]
           t == tasks[e]
           m == Len(k)
<1>1. /\ Fits(k, s, st) /\ t \in Seq(Tasks) /\ m \in Nat
      /\ DOMAIN tasks = Ends /\ DOMAIN sent = Ends
  BY FitsNow DEF AllInv, ChannelInv, IndInv, TasksOK, RestOK
<1>2. Served(s, st)
  BY DEF LineAt
<1>3. ASSUME Straight(s, st)
      PROVE  InLine(k, s, st) /\ AllPosted(t, s, st, m)
  BY <1>3 DEF LineAt
<1>4. CASE sent'[e] = k /\ tasks'[e] = t
  BY <1>2, <1>3, <1>4 DEF LineAt
<1>5. CASE sent'[e] = k /\ Disconnect(e) /\ tasks'[e] # t
  <2>1. tasks'[e] = Append(t, CloseTask) /\ CloseTask \in Tasks
    BY <1>1, <1>5, OpsTyped DEF Disconnect, Post
  <2>2. ASSUME Straight(s, st) PROVE AllPosted(Append(t, CloseTask), s, st, m)
    BY <1>1, <1>3, <2>1, <2>2, PostedMore DEF AllPosted
  <2>3. QED
    BY <1>2, <1>3, <1>5, <2>1, <2>2 DEF LineAt
<1>6. ASSUME NEW x \in Kinds, Send(e, x)
      PROVE  LineAt(e)'
  <2>1. /\ sent'[e] = Append(k, x) /\ tasks'[e] = Append(t, SendTask(m + 1))
        /\ Len(sent'[e]) = m + 1
    BY <1>1, <1>6, FramesStay DEF Send, Post, Fits
  <2>2. ASSUME Straight(s, st)
        PROVE  InLine(sent'[e], s, st) /\ AllPosted(tasks'[e], s, st, m + 1)
    <3>1. InLine(sent'[e], s, st)
      BY <1>1, <1>3, <2>1, <2>2, LineStays
    <3>2. TipNo(s, st) \in Nat
      <4>1. CASE s # <<>>
        <5>1. Len(s) \in 1..Len(s) /\ s[Len(s)] \in WriteOps
          BY <1>1, <4>1 DEF Fits
        <5>2. QED
          BY <4>1, <5>1 DEF TipNo, WriteOps
      <4>2. CASE s = <<>> /\ st # <<>>
        <5>1. Len(st) \in 1..Len(st) /\ st \in Words
          BY <1>1, <4>2 DEF Fits, Words
        <5>2. QED
          BY <4>2, <5>1, WordTyped DEF TipNo, LastWord
      <4>3. CASE s = <<>> /\ st = <<>>
        BY <4>3 DEF TipNo
      <4>4. QED
        BY <4>1, <4>2, <4>3
    <3>3. QED
      BY <1>1, <1>3, <2>1, <2>2, <3>1, <3>2, PostedNext
  <2>3. QED
    BY <1>2, <2>1, <2>2 DEF LineAt
<1>7. QED
  BY <1>4, <1>5, <1>6

\* A new connection: nothing is written yet, or the number.
LEMMA LineBegins ==
  ASSUME AllInv, [Next]_vars, NEW e \in Ends,
         \/ e = "client" /\ ConnectToServer
         \/ e = "server" /\ (Accept \/ IdExists)
  PROVE  LineAt(e)'
<1>1. /\ IndInv /\ DOMAIN tasks = Ends /\ DOMAIN writes = Ends /\ DOMAIN sent = Ends
      /\ Len(<<>>) = 0
  BY DEF AllInv, ChannelInv, IndInv, TasksOK, WritesOK, RestOK
<1>2. tasks[e] = <<>> /\ writes[e] = <<>> /\ stream[e] = <<>> /\ sent[e] = <<>>
  BY DEF AllInv, ApartInv, WriterOK, ConnectToServer, Accept, IdExists, AcceptHandler
<1>3. stream'[e] = <<>>
  BY <1>2 DEF ConnectToServer, Accept, IdExists, ioVars
<1>4. CASE e = "client" /\ ConnectToServer
  <2>1. tasks'[e] = <<>> /\ writes'[e] = <<>> /\ sent'[e] = <<>>
    BY <1>2, <1>4 DEF ConnectToServer, ioVars, appVars
  <2>2. QED
    BY <1>1, <1>3, <2>1, EmptyLine DEF LineAt
<1>5. CASE e = "server" /\ Accept
  <2> DEFINE x == [op |-> "nonce", n |-> 0, ec |-> "pending"]
  <2>1. x \in WriteOps /\ x.op = "nonce" /\ x.n = 0 /\ x.ec = "pending"
    BY DEF WriteOps, Results
  <2>2. /\ writes'[e] = <<x>> /\ sent'[e] = Append(<<>>, "ServerAccept")
        /\ tasks'[e] = Append(<<>>, SendTask(0 + 1))
    BY <1>1, <1>2, <1>5 DEF Accept, Send, Post
  <2>3. sent'[e] \in Seq(Kinds) /\ Len(sent'[e]) = 0 + 1
    BY <2>2 DEF Kinds
  <2> HIDE DEF x
  <2>4. InLine(sent'[e], <<x>>, <<>>) /\ Served(<<x>>, <<>>) /\ TipNo(<<x>>, <<>>) = 0
    BY <2>1, <2>3, NumberLine
  <2>5. AllPosted(<<>>, <<x>>, <<>>, 0)
    BY <2>4 DEF AllPosted
  <2>6. AllPosted(tasks'[e], <<x>>, <<>>, 0 + 1)
    <3>1. <<>> \in Seq(Tasks) /\ 0 \in Nat /\ TipNo(<<x>>, <<>>) \in Nat
      BY <2>4
    <3>2. AllPosted(Append(<<>>, SendTask(0 + 1)), <<x>>, <<>>, 0 + 1)
      BY <2>5, <3>1, PostedNext
    <3>3. QED
      BY <2>2, <3>2
  <2>7. QED
    BY <1>3, <2>2, <2>3, <2>4, <2>6 DEF LineAt
<1>6. CASE e = "server" /\ IdExists
  <2>1. /\ writes'[e] = <<>> /\ sent'[e] = Append(<<>>, "ServerAccept")
        /\ tasks'[e] = <<>> \o <<SendTask(1), CloseTask>>
    BY <1>1, <1>2, <1>6 DEF IdExists, ioVars
  <2>2. tasks'[e] = <<SendTask(1), CloseTask>> /\ Len(sent'[e]) = 1
    BY <2>1
  <2>3. Posted(tasks'[e], 1)
    BY <2>2 DEF Posted
  <2>4. AllPosted(tasks'[e], <<>>, <<>>, 1)
    BY <2>3 DEF AllPosted, TipNo
  <2>5. QED
    BY <1>3, <2>1, <2>2, <2>4, EmptyLine DEF LineAt
<1>7. QED
  BY <1>4, <1>5, <1>6

\* The client's answer goes behind nothing, if the line is straight.
LEMMA LineOfAnswer ==
  ASSUME AllInv, LineAt("client"), AnswerValidation, socket["client"] = "open"
  PROVE  LineAt("client")'
<1> DEFINE e == "client"
           k == sent["client"]
           s == writes["client"]
           st == stream["client"]
           n == MessageNumber(Head(reads["client"]).data)
           x == Write("client", "nonce", n)
<1>1. "client" \in Ends /\ IndInv /\ DOMAIN writes = Ends
  BY DEF Ends, AllInv, ChannelInv, IndInv, WritesOK
<1>2. Fits(k, s, st) /\ s \in Seq(WriteOps) /\ k \in Seq(Kinds)
  BY <1>1, FitsNow DEF Fits
<1>3. /\ writes'["client"] = Append(s, x) /\ stream'["client"] = st
      /\ sent'["client"] = k /\ tasks'["client"] = tasks["client"]
      /\ reads["client"] # <<>> /\ Head(reads["client"]).op = "nonce"
      /\ Head(reads["client"]).ec = "ok"
  BY <1>1 DEF AnswerValidation, HasRead, appVars
<1>4. n \in Nat
  BY <1>1, <1>3, DataRead
<1>5. x \in WriteOps /\ x.op = "nonce" /\ x.n = n /\ x.ec = "pending"
  BY <1>4, OpsTyped DEF Write, Started, Ends
<1>6. NoNonce(s) /\ ~Marked(st)
  BY <1>1, <1>3, ReadHandled DEF IndInv, TurnsOK, AllInv, ApartInv, ClientOK
<1> HIDE DEF x, n
<1>7. Served(Append(s, x), st)
  BY <1>2, <1>5, ServedQueue DEF LineAt
<1>8. ASSUME Straight(Append(s, x), st)
      PROVE  InLine(k, Append(s, x), st) /\ AllPosted(tasks["client"], Append(s, x), st, Len(k))
  <2>1. st = <<>> /\ IsNumber(Append(s, x)[1])
    <3>1. Append(s, x) # <<>>
      BY <1>2, <1>5
    <3>2. QED
      BY <1>6, <1>8, <3>1 DEF Straight
  <2>2. s = <<>>
    <3> SUFFICES ASSUME s # <<>> PROVE FALSE
      OBVIOUS
    <3>1. 1 \in 1..Len(s) /\ Append(s, x)[1] = s[1]
      BY <1>2
    <3>2. QED
      BY <1>6, <2>1, <3>1 DEF NoNonce, IsNumber
  <2>3. Append(s, x) = <<x>> /\ Append(s, x)[1] = x
    BY <2>2
  <2>4. x.n = 0
    BY <2>1, <2>3 DEF IsNumber
  <2>5. InLine(k, <<x>>, <<>>) /\ TipNo(<<x>>, <<>>) = 0
    BY <1>2, <1>5, <2>4, NumberLine
  <2>6. AllPosted(tasks["client"], <<>>, <<>>, Len(k)) /\ TipNo(<<>>, <<>>) = 0
    BY <2>1, <2>2 DEF LineAt, Straight, TipNo
  <2>7. QED
    BY <2>1, <2>3, <2>5, <2>6 DEF AllPosted
<1>9. QED
  BY <1>3, <1>7, <1>8 DEF LineAt

\* A header goes behind all, if the sends keep apart.
LEMMA LineOfSend ==
  ASSUME AllInv, NEW e \in Ends, LineAt(e), RunSend(e), ~HeaderOut(e), socket[e] = "open"
  PROVE  LineAt(e)'
<1> DEFINE k == sent[e]
           s == writes[e]
           st == stream[e]
           t == tasks[e]
           n == Head(t).n
           x == Write(e, "header", n)
<1>1. /\ IndInv /\ DOMAIN writes = Ends /\ DOMAIN tasks = Ends
      /\ Fits(k, s, st) /\ TaskOrder(t, s, st) /\ NamesSent(t, "send", Len(k))
      /\ t \in Seq(Tasks) /\ s \in Seq(WriteOps) /\ k \in Seq(Kinds) /\ Len(k) \in Nat
  BY FitsNow DEF AllInv, ChannelInv, IndInv, WritesOK, TasksOK, Fits
<1>2. /\ writes'[e] = Append(s, x) /\ stream'[e] = st /\ sent'[e] = k /\ tasks'[e] = Tail(t)
      /\ t # <<>> /\ Head(t).op = "send" /\ n \in 1..Len(k)
  BY <1>1, RunSendEffect DEF RunSend, appVars
<1>3. n \in Nat /\ Head(t) = t[1]
  BY <1>1, <1>2
<1>4. x \in WriteOps /\ x.op = "header" /\ x.n = n /\ x.ec = "pending"
  BY <1>3, OpsTyped DEF Write, Started
<1>5. Served(s, st) /\ Served(Append(s, x), st)
  <2> HIDE DEF x
  <2>1. QED
    BY <1>1, <1>4, ServedQueue DEF LineAt
<1>6. \A i \in 1..Len(s) : s[i].op = "header" => FrameLen(k, s[i].n) = 2
  <2> SUFFICES ASSUME NEW i \in 1..Len(s), s[i].op = "header"
               PROVE  FrameLen(k, s[i].n) = 2
    OBVIOUS
  <2>1. i \in DOMAIN writes[e] /\ s[i].n \in 1..Len(k)
    BY <1>1 DEF Fits
  <2>2. ~(BodyLen[k[s[i].n]] > 0)
    BY <1>5, <2>1 DEF HeaderOut, Served
  <2>3. BodyLen[k[s[i].n]] \in {0, 1, 2} /\ FrameLen(k, s[i].n) = 2 + BodyLen[k[s[i].n]]
    BY <1>1, <2>1, Sizes
  <2>4. QED
    BY <2>2, <2>3
<1> HIDE DEF x, n
<1>7. ASSUME Straight(Append(s, x), st)
      PROVE  Straight(s, st) /\ (s # <<>> \/ st # <<>>)
  <2>1. CASE Marked(st)
    BY <2>1 DEF Straight, Marked
  <2>2. CASE ~Marked(st)
    <3>1. st = <<>> /\ IsNumber(Append(s, x)[1])
      <4>1. Append(s, x) # <<>>
        BY <1>1, <1>4
      <4>2. QED
        BY <1>7, <2>2, <4>1 DEF Straight
    <3>2. s # <<>>
      <4> SUFFICES ASSUME s = <<>> PROVE FALSE
        OBVIOUS
      <4>1. Append(s, x)[1] = x
        OBVIOUS
      <4>2. QED
        BY <1>4, <3>1, <4>1 DEF IsNumber
    <3>3. Append(s, x)[1] = s[1]
      BY <1>1, <3>2
    <3>4. QED
      BY <3>1, <3>2, <3>3 DEF Straight
  <2>3. QED
    BY <2>1, <2>2
<1>8. ASSUME Straight(Append(s, x), st)
      PROVE  InLine(k, Append(s, x), st) /\ AllPosted(Tail(t), Append(s, x), st, Len(k))
  <2>1. InLine(k, s, st) /\ AllPosted(t, s, st, Len(k)) /\ (s # <<>> \/ st # <<>>)
    BY <1>7, <1>8 DEF LineAt
  <2>2. /\ TipNo(s, st) \in Nat /\ n = TipNo(s, st) + 1
        /\ \A j \in (n + 1)..Len(k) : Posted(Tail(t), j)
    <3>1. t[1].op = "send" /\ n = t[1].n
      BY <1>2, <1>3 DEF n
    <3>2. QED
      BY <1>1, <1>2, <2>1, <3>1, NextToSend
  <2>3. InLine(k, Append(s, x), st) /\ TipNo(Append(s, x), st) = n
    BY <1>1, <1>2, <1>4, <1>5, <1>6, <2>1, <2>2, LineGrows
  <2>4. QED
    BY <2>2, <2>3 DEF AllPosted
<1>9. QED
  BY <1>2, <1>5, <1>8 DEF LineAt

\* The handler of a write runs.
LEMMA LineHandled ==
  ASSUME AllInv, NEW e \in Ends, LineAt(e), socket[e] = "open",
         HeaderWritten(e) \/ BodyWritten(e) \/ NonceWritten(e)
  PROVE  LineAt(e)'
<1> DEFINE k == sent[e]
           s == writes[e]
           st == stream[e]
           t == tasks[e]
<1>1. /\ IndInv /\ DOMAIN writes = Ends
      /\ Fits(k, s, st) /\ s \in Seq(WriteOps) /\ k \in Seq(Kinds)
      /\ Served(s, st)
  BY FitsNow DEF AllInv, ChannelInv, IndInv, WritesOK, Fits, LineAt
<1>2. /\ s # <<>> /\ Head(s).ec = "ok" /\ sent'[e] = k /\ stream'[e] = st /\ tasks'[e] = t
      /\ Head(s).op \in {"header", "body", "nonce"}
  BY DEF HeaderWritten, BodyWritten, NonceWritten, appVars
<1>3. /\ Served(Tail(s), st) /\ Tail(s) \in Seq(WriteOps) /\ Head(s) = s[1]
      /\ 1 \in 1..Len(s) /\ s[1] \in WriteOps
  BY <1>1, <1>2, ServedQueue
<1>4. st # <<>>
  BY <1>1, <1>2, <1>3 DEF Served
<1>5. \A u : Straight(u, st) => InLine(k, s, st) /\ AllPosted(t, s, st, Len(k))
  BY <1>4 DEF Straight, LineAt
\* The write was the last of its message.
<1>6. CASE writes'[e] = Tail(s) /\ (s[1].op = "header" => FrameLen(k, s[1].n) = 2)
  <2>1. ASSUME Straight(Tail(s), st)
        PROVE  InLine(k, Tail(s), st) /\ TipNo(Tail(s), st) = TipNo(s, st)
    BY <1>1, <1>2, <1>3, <1>5, <1>6, <2>1, LineShortens
  <2>2. QED
    BY <1>2, <1>3, <1>5, <1>6, <2>1 DEF LineAt, AllPosted
\* A body follows.
<1>7. CASE /\ HeaderWritten(e) /\ BodyLen[k[s[1].n]] > 0
           /\ writes'[e] = Append(Tail(s), Write(e, "body", s[1].n))
  <2> DEFINE x == Write(e, "body", s[1].n)
  <2>1. s[1].n \in Nat /\ s[1].op = "header"
    BY <1>3, <1>7 DEF WriteOps, HeaderWritten
  <2>2. x \in WriteOps /\ x.op = "body" /\ x.n = s[1].n /\ x.ec = "pending"
    BY <2>1, OpsTyped DEF Write, Started
  <2> HIDE DEF x
  <2>3. Served(Append(Tail(s), x), st)
    BY <1>3, <2>2, ServedQueue
  <2>4. ASSUME Straight(Append(Tail(s), x), st)
        PROVE  /\ InLine(k, Append(Tail(s), x), st)
               /\ TipNo(Append(Tail(s), x), st) = TipNo(s, st)
    BY <1>1, <1>2, <1>3, <1>5, <1>7, <2>1, <2>2, <2>4, LineTurns
  <2>5. QED
    BY <1>2, <1>5, <1>7, <2>3, <2>4 DEF LineAt, AllPosted, x
<1>8. CASE HeaderWritten(e)
  <2>1. Head(s).op = "header"
    BY <1>8 DEF HeaderWritten
  <2>2. s[1].n \in 1..Len(k)
    BY <1>1, <1>3, <2>1 DEF Fits
  <2>3. BodyLen[k[s[1].n]] \in {0, 1, 2} /\ FrameLen(k, s[1].n) = 2 + BodyLen[k[s[1].n]]
    BY <1>1, <2>2, Sizes
  <2>4. \/ /\ BodyLen[k[s[1].n]] > 0
           /\ writes'[e] = Append(Tail(s), Write(e, "body", s[1].n))
        \/ ~(BodyLen[k[s[1].n]] > 0) /\ writes'[e] = Tail(s)
    BY <1>1, <1>3, <1>8, HeaderWrittenEffect
  <2>5. QED
    BY <1>6, <1>7, <1>8, <2>3, <2>4
<1>9. CASE BodyWritten(e) \/ NonceWritten(e)
  <2>1. writes'[e] = Tail(s) /\ Head(s).op # "header"
    BY <1>1, <1>9, BodyWrittenEffect DEF BodyWritten, NonceWritten
  <2>2. QED
    BY <1>3, <1>6, <2>1
<1>10. QED
  BY <1>8, <1>9

LEMMA LineKept ==
  ASSUME AllInv, [Next]_vars, SendsApart, NEW e \in Ends, CanWrite(e)'
  PROVE  LineAt(e)'
<1>1. IndInv /\ ChangesAt(e)
  BY EndChanges DEF AllInv, ChannelInv
<1>2. CASE (e = "client" /\ ConnectToServer) \/ (e = "server" /\ (Accept \/ IdExists))
  BY <1>2, LineBegins
<1>3. CASE /\ CanWrite(e) /\ ~RunClose(e) /\ ~Quit(e)
           /\ ~(e = "client" /\ ConnectToServer) /\ ~(e = "server" /\ (Accept \/ IdExists))
  <2>1. LineAt(e) /\ socket[e] = "open" /\ (writes[e] # <<>> => linked) /\ e \notin reset
    BY <1>3 DEF AllInv, ApartInv, WriterOK, CanWrite
  <2>2. CASE Transfer(e)
    BY <2>2, LineAfterTransfer
  <2>3. CASE RunSend(e)
    BY <2>1, <2>3, LineOfSend DEF SendsApart
  <2>4. CASE HeaderWritten(e) \/ BodyWritten(e) \/ NonceWritten(e)
    BY <2>1, <2>4, LineHandled
  <2>5. CASE e = "client" /\ AnswerValidation
    BY <2>1, <2>5, LineOfAnswer
  <2>6. ~WriteFails(e)
    <3>1. writes[e] = <<>> => ~WriteFails(e)
      BY DEF WriteFails, IsFirstPending
    <3>2. QED
      BY <2>1, <3>1 DEF WriteFails
  <2>7. ~WriteError(e)
    <3> SUFFICES ASSUME WriteError(e) PROVE FALSE
      OBVIOUS
    <3>1. writes[e] # <<>> /\ Head(writes[e]).ec = "failed"
      BY DEF WriteError
    <3>2. 1 \in 1..Len(writes[e]) /\ Head(writes[e]) = writes[e][1]
      BY <1>1, <3>1 DEF IndInv, WritesOK
    <3>3. QED
      BY <2>1, <3>1, <3>2 DEF LineAt, Served
  <2>8. CASE /\ writes'[e] = writes[e] /\ stream'[e] = stream[e] /\ ~RunSend(e)
    BY <1>1, <1>3, <2>1, <2>8, LineWaits DEF ChangesAt
  <2>9. QED
    BY <1>1, <1>3, <2>2, <2>3, <2>4, <2>5, <2>6, <2>7, <2>8 DEF ChangesAt
<1>4. QED
  BY <1>2, <1>3, CouldWrite

LEMMA WriterStays ==
  ASSUME AllInv, [Next]_vars, SendsApart
  PROVE  WriterOK'
<1>1. ASSUME NEW e \in Ends
      PROVE  /\ writes'[e] # <<>> \/ stream'[e] # <<>> => linked'
             /\ socket'[e] = "none" => /\ tasks'[e] = <<>> /\ writes'[e] = <<>>
                                       /\ stream'[e] = <<>> /\ sent'[e] = <<>>
             /\ Marked(stream'[e]) => InRow(sent'[e], stream'[e])
             /\ Bodied(sent'[e], writes'[e])
             /\ CanWrite(e)' => LineAt(e)'
  BY LinkedStays, FreshStays, RowStays, BodiedStays, LineKept
<1>2. QED
  BY <1>1 DEF WriterOK

-----------------------------------------------------------------------------
(* What the client does in turn.                                           *)

\* Only a number on the wire marks a stream.
LEMMA MarkedBy ==
  ASSUME AllInv, [Next]_vars, NEW e \in Ends, Marked(stream'[e]), ~Marked(stream[e])
  PROVE  Transfer(e) /\ ~NoNonce(writes[e])
<1>1. IndInv
  BY DEF AllInv, ChannelInv
<1>2. Transfer(e)
  BY <1>1, EndChanges DEF ChangesAt
<1>3. writes[e] # <<>> /\ IsNumber(writes[e][1])
  BY <1>2, LineAfterTransfer
<1>4. 1 \in 1..Len(writes[e])
  BY <1>1, <1>3 DEF IndInv, WritesOK
<1>5. QED
  BY <1>2, <1>3, <1>4 DEF NoNonce, IsNumber

LEMMA ConnectStays ==
  ASSUME AllInv, [Next]_vars, socket'["client"] = "none"
  PROVE  connect' = "no"
<1>1. "client" \in Ends /\ IndInv /\ socket["client"] = "none" /\ connect = "no"
  BY FreshStays DEF AllInv, ChannelInv, ApartInv, ClientOK, Ends
<1>2. ~ConnectToServer
  BY <1>1 DEF ConnectToServer, IndInv, RestOK
<1>3. CASE UNCHANGED vars
  BY <1>1, <1>3 DEF vars, linkVars
<1>4. CASE \/ LinkUp \/ Refuse \/ ConnectDone \/ Expire \/ ConnectTimeOut
           \/ Accept \/ IdExists \/ AcceptFails \/ ListenerStops
           \/ AnswerValidation \/ ClientValidated \/ ClientRejected
           \/ PingServer \/ ClientHandles \/ ServerHandles \/ Broadcast
  BY <1>1, <1>4 DEF LinkUp, Refuse, ConnectDone, Expire, ConnectTimeOut, Accept, IdExists,
     AcceptFails, ListenerStops, AnswerValidation, ClientValidated, ClientRejected, PingServer,
     ClientHandles, ServerHandles, Broadcast, linkVars
<1>5. ASSUME NEW f \in Ends, Kernel(f) PROVE connect' = connect
  BY <1>5 DEF Kernel, Reset, Transfer, WriteFails, Arrive, ReadFails, linkVars
<1>6. ASSUME NEW f \in Ends, Handlers(f) PROVE connect' = connect
  BY <1>1, <1>6 DEF Handlers, RunSend, RunClose, WriteError, HeaderWritten, BodyWritten, NonceWritten,
              ReadError, HeaderRead, BodyRead, linkVars
<1>7. ASSUME NEW f \in Ends, Quit(f) PROVE connect' = connect
  BY <1>1, <1>7 DEF Quit
<1>8. QED
  BY <1>1, <1>2, <1>3, <1>4, <1>5, <1>6, <1>7, ConnectionAssumption DEF Next, Ends

\* Where a read of the number comes from.
LEMMA NumberReadFrom ==
  ASSUME IndInv, [Next]_vars, NEW e \in Ends, reads'[e] # <<>>, reads'[e][1].op = "nonce"
  PROVE  \/ reads[e] # <<>> /\ reads[e][1].op = "nonce"
         \/ e = "client" /\ ConnectDone
         \/ e = "server" /\ Accept
<1>1. ChangesAt(e) /\ DOMAIN reads = Ends /\ "client" \in Ends /\ "server" \in Ends
  BY EndChanges DEF IndInv, ReadsOK, Ends
<1>2. CASE reads'[e] = reads[e]
  BY <1>2
<1>3. CASE Arrive(e) \/ ReadFails(e)
  BY <1>3, ReadSettled
<1>4. CASE RunClose(e)
  BY <1>1, <1>4, ReadAborted DEF RunClose
<1>5. CASE ReadError(e) \/ (e = "client" /\ AnswerValidation) \/ (e = "server" /\ ClientRejected)
  <2>1. reads[e] # <<>> /\ reads'[e] = Tail(reads[e])
    BY <1>1, <1>5 DEF ReadError, AnswerValidation, ClientRejected, HasRead
  <2>2. reads[e] = <<reads[e][1]>>
    BY <2>1, ReadHandled
  <2>3. Tail(<<reads[e][1]>>) = <<>>
    OBVIOUS
  <2>4. QED
    BY <2>1, <2>2, <2>3
<1>6. CASE HeaderRead(e) \/ BodyRead(e)
  <2>1. \E op \in {"header", "body"} : \E len, head : reads'[e] = <<Read(e, op, len, head)>>
    BY <1>6, NextReadWaits
  <2>2. QED
    BY <2>1 DEF Read
<1>7. CASE NonceWritten(e)
  <2>1. CASE e = "server"
    BY <1>7, <2>1 DEF NonceWritten
  <2>2. CASE e = "client"
    <3>1. ~NoNonce(writes[e])
      <4>1. writes[e] # <<>> /\ Head(writes[e]).op = "nonce"
        BY <1>7 DEF NonceWritten
      <4>2. 1 \in 1..Len(writes[e]) /\ Head(writes[e]) = writes[e][1]
        BY <4>1 DEF IndInv, WritesOK
      <4>3. QED
        BY <4>1, <4>2 DEF NoNonce
    <3>2. reads[e] = <<>>
      BY <2>2, <3>1 DEF IndInv, TurnsOK
    <3>3. reads'[e] = Append(<<>>, Read(e, "header", PairLen, <<>>))
      BY <1>1, <1>7, <2>2, <3>2 DEF NonceWritten
    <3>4. reads'[e][1].op = "header"
      BY <3>3, AppendToNone DEF Read
    <3>5. QED
      BY <3>4
  <2>3. QED
    BY <2>1, <2>2 DEF Ends
<1>8. CASE Quit(e)
  BY <1>1, <1>8 DEF Quit
<1>9. CASE e = "server" /\ ClientValidated
  <2>1. reads[e] # <<>>
    BY <1>9 DEF ClientValidated, HasRead
  <2>2. reads'[e] = <<Read(e, "header", PairLen, <<>>)>>
    BY <1>1, <1>9, <2>1, ReadHandled DEF ClientValidated
  <2>3. reads'[e][1].op = "header"
    BY <2>2 DEF Read
  <2>4. QED
    BY <2>3
<1>10. QED
  BY <1>1, <1>2, <1>3, <1>4, <1>5, <1>6, <1>7, <1>8, <1>9 DEF ChangesAt

LEMMA ClientStays ==
  ASSUME AllInv, [Next]_vars
  PROVE  ClientOK'
<1> DEFINE e == "client"
<1>1. e \in Ends /\ IndInv /\ ClientOK /\ ChangesAt(e)
  BY EndChanges DEF AllInv, ChannelInv, ApartInv, Ends
<1>2. ASSUME reads[e] = <<>>
      PROVE  taken'[e] = taken[e] /\ recv'[e] = recv[e]
  <2>1. ~Arrive(e) /\ ~HeaderRead(e) /\ ~BodyRead(e)
    BY <1>1, <1>2 DEF Arrive, IsFirstPending, HeaderRead, BodyRead, HasRead
  <2>2. QED
    BY <1>1, <2>1 DEF ChangesAt
<1>3. socket'[e] = "none" => connect' = "no"
  BY ConnectStays
<1>4. ASSUME connect' \in {"no", "pending", "ok"}
      PROVE  ~Marked(stream'[e]) /\ recv'[e] = <<>>
  <2>1. connect \in {"no", "pending", "ok"}
    BY <1>1, <1>4, LinkChange
  <2>2. /\ ~Marked(stream[e]) /\ recv[e] = <<>>
        /\ reads[e] = <<>> /\ NoNonce(writes[e])
    BY <1>1, <2>1 DEF ClientOK, IndInv, TurnsOK
  <2>3. QED
    BY <1>1, <1>2, <2>2, MarkedBy
<1>5. ASSUME reads'[e] # <<>>, reads'[e][1].op = "nonce"
      PROVE  ~Marked(stream'[e])
  <2>1. CASE reads[e] # <<>> /\ reads[e][1].op = "nonce"
    <3>1. ~Marked(stream[e]) /\ NoNonce(writes[e])
      BY <1>1, <2>1 DEF ClientOK, IndInv, TurnsOK
    <3>2. QED
      BY <1>1, <3>1, MarkedBy
  <2>2. CASE ConnectDone
    BY <1>1, <2>2 DEF ConnectDone, ClientOK
  <2>3. QED
    BY <1>1, <1>5, <2>1, <2>2, NumberReadFrom
<1>6. ASSUME ~NoNonce(writes'[e])
      PROVE  taken'[e] = PairLen /\ recv'[e] = <<>>
  <2>1. CASE ~NoNonce(writes[e])
    <3>1. taken[e] = PairLen /\ recv[e] = <<>> /\ reads[e] = <<>>
      BY <1>1, <2>1 DEF ClientOK, IndInv, TurnsOK
    <3>2. QED
      BY <1>2, <3>1
  <2>2. CASE NoNonce(writes[e])
    <3>1. AnswerValidation
      BY <1>1, <1>6, <2>2, NoNonceStays
    <3>2. /\ reads[e] # <<>> /\ Head(reads[e]).ec = "ok" /\ Head(reads[e]).op = "nonce"
          /\ taken' = taken /\ recv' = recv
      BY <3>1 DEF AnswerValidation, HasRead, appVars
    <3>3. reads[e][1].ec = "ok" /\ reads[e][1].op = "nonce"
      BY <1>1, <3>2, ReadHandled
    <3>4. Len(recv[e]) = 0 /\ taken[e] = PairLen
      BY <1>1, <3>2, <3>3 DEF AllInv, ApartInv, ReaderOK, Place
    <3>5. recv[e] \in Seq(Words)
      BY <1>1 DEF IndInv, RestOK
    <3>6. QED
      BY <3>2, <3>4, <3>5
  <2>3. QED
    BY <2>1, <2>2
<1>7. QED
  BY <1>3, <1>4, <1>5, <1>6 DEF ClientOK

-----------------------------------------------------------------------------
(* What is read are the frames, one after the other.                       *)

LEMMA WholeOnes ==
  ASSUME NEW k \in Seq(Kinds), NEW x \in Seq(Words), HeardWhole(k, x)
  PROVE  /\ Len(x) \in 0..Len(k) /\ Len(k) \in Nat
         /\ \A y \in Kinds : HeardWhole(Append(k, y), x)
         /\ \A w \in Words : Len(x) + 1 <= Len(k) /\ w = Frame(Len(x) + 1, k[Len(x) + 1])
                                => HeardWhole(k, Append(x, w))
<1>1. Len(x) \in Nat /\ Len(k) \in Nat
  OBVIOUS
<1>2. Len(x) <= Len(k)
  <2>1. Len(x) = 0 \/ Len(x) \in 1..Len(x)
    BY <1>1
  <2>2. QED
    BY <1>1, <2>1 DEF HeardWhole
<1>3. ASSUME NEW y \in Kinds PROVE HeardWhole(Append(k, y), x)
  <2> DEFINE l == Append(k, y)
  <2>1. Len(l) = Len(k) + 1 /\ \A n \in 1..Len(k) : l[n] = k[n]
    BY FramesStay
  <2> HIDE DEF l
  <2>2. ASSUME NEW i \in 1..Len(x) PROVE i <= Len(l) /\ x[i] = Frame(i, l[i])
    <3>1. i <= Len(k) /\ x[i] = Frame(i, k[i])
      BY DEF HeardWhole
    <3>2. QED
      BY <1>1, <2>1, <3>1
  <2>3. QED
    BY <2>2 DEF HeardWhole, l
<1>4. ASSUME NEW w \in Words, Len(x) + 1 <= Len(k), w = Frame(Len(x) + 1, k[Len(x) + 1])
      PROVE  HeardWhole(k, Append(x, w))
  <2> DEFINE u == Append(x, w)
  <2>1. Len(u) = Len(x) + 1 /\ u[Len(x) + 1] = w /\ \A i \in 1..Len(x) : u[i] = x[i]
    OBVIOUS
  <2> HIDE DEF u
  <2>2. ASSUME NEW i \in 1..Len(u) PROVE i <= Len(k) /\ u[i] = Frame(i, k[i])
    <3>1. i \in 1..Len(x) \/ i = Len(x) + 1
      BY <1>1, <2>1
    <3>2. QED
      BY <1>4, <2>1, <3>1 DEF HeardWhole
  <2>3. QED
    BY <2>2 DEF HeardWhole, u
<1>5. QED
  BY <1>1, <1>2, <1>3, <1>4

\* A reader that waits does not mind more words, or another message.
LEMMA PlaceStays ==
  ASSUME NEW k \in Seq(Kinds), NEW l, l = k \/ (\E y \in Kinds : l = Append(k, y)),
         NEW st \in Words, NEW st2 \in Words, Len(st) <= Len(st2),
         \A j \in 1..Len(st) : st2[j] = st[j],
         WordsOfSent(st, Len(k)),
         NEW t \in Nat, t <= Len(st), NEW c \in 0..Len(k), NEW r \in ReadOps,
         Place(k, st, t, c, r)
  PROVE  Place(l, st2, t, c, r)
<1>1. /\ Len(st) \in Nat /\ Len(st2) \in Nat /\ Len(k) \in Nat /\ c \in Nat
      /\ r.ec \in {"pending", "ok", "failed"}
  BY DEF Words, ReadOps, Results
<1>2. \A w : At(st, t, w) => At(st2, t, w)
  BY <1>1 DEF At
<1>3. /\ \A n \in 1..Len(k) : l[n] = k[n]
      /\ \A n \in 0..Len(k) : FrameLen(l, n) = FrameLen(k, n)
  <2>1. CASE l = k
    BY <2>1
  <2>2. CASE \E y \in Kinds : l = Append(k, y)
    BY <2>2, FramesStay
  <2>3. QED
    BY <2>1, <2>2
<1>4. \A w : At(st, t, w) => w[1] <= Len(k)
  BY DEF At, WordsOfSent
<1>5. CASE r.op = "nonce"
  BY <1>5 DEF Place
<1>6. CASE r.op = "header"
  <2>1. t >= 2
    BY <1>6 DEF Place, PairLen
  <2>2. Marked(st2) => Marked(st)
    <3>1. Len(st) # 0 /\ 1 \in 1..Len(st)
      BY <1>1, <2>1
    <3>2. st # <<>> /\ st2[1] = st[1]
      BY <3>1
    <3>3. QED
      BY <3>2 DEF Marked
  <2>3. r.ec = "pending" /\ Marked(st2) => At(st2, t, <<c, FrameLen(l, c)>>)
    BY <1>2, <1>3, <1>6, <2>2 DEF Place
  <2>4. r.ec = "ok" => At(st2, t, <<c + 1, PairLen>>) /\ r.data = Pair(c + 1)
    BY <1>2, <1>6 DEF Place
  <2>5. QED
    BY <1>6, <2>1, <2>3, <2>4 DEF Place, PairLen
<1>7. CASE r.op = "body" /\ r.ec = "failed"
  BY <1>7 DEF Place
<1>8. CASE r.op = "body" /\ r.ec # "failed"
  <2>1. /\ r.head = Pair(c + 1) /\ r.len = BodyLen[k[c + 1]] /\ t >= PairLen
        /\ r.ec = "pending" => At(st, t, <<c + 1, PairLen>>)
        /\ r.ec = "ok" => At(st, t, <<c + 1, FrameLen(k, c + 1)>>) /\ r.data = Body(c + 1, k[c + 1])
    BY <1>8 DEF Place
  <2>2. c + 1 \in 1..Len(k)
    <3>1. \A m : <<c + 1, m>>[1] = c + 1
      OBVIOUS
    <3>2. c + 1 <= Len(k)
      BY <1>1, <1>4, <1>8, <2>1, <3>1
    <3>3. QED
      BY <1>1, <3>2
  <2>3. l[c + 1] = k[c + 1] /\ FrameLen(l, c + 1) = FrameLen(k, c + 1)
    BY <1>1, <1>3, <2>2
  <2>4. QED
    BY <1>2, <1>8, <2>1, <2>3 DEF Place
<1>9. QED
  BY <1>5, <1>6, <1>7, <1>8 DEF ReadOps

\* The first header is read behind the number.
LEMMA FirstPlace ==
  ASSUME NEW k \in Seq(Kinds), NEW st \in Words, Len(st) >= 2, Marked(st) => InRow(k, st),
         NEW r, r.op = "header", r.ec # "ok"
  PROVE  Place(k, st, 2, 0, r)
<1>1. Len(st) \in Nat
  BY DEF Words
<1>2. ASSUME Marked(st) PROVE At(st, 2, <<0, FrameLen(k, 0)>>)
  <2>1. 1 \in 1..(Len(st) - 1) /\ 2 \in 1..Len(st) /\ 1 + 1 = 2
    BY <1>1
  <2>2. st[1 + 1] = Follows(k, st[1]) /\ st[1] = <<0, 1>>
    BY <1>2, <2>1 DEF InRow, Marked
  <2>3. Follows(k, <<0, 1>>) = <<0, 1 + 1>>
    <3>1. 1 < FrameLen(k, 0) /\ 0 \in Nat /\ 1 \in Nat
      BY Sizes
    <3>2. QED
      BY <3>1, WordsFollow
  <2>4. QED
    BY <2>1, <2>2, <2>3, Sizes DEF At
<1>3. QED
  BY <1>2 DEF Place, PairLen

\* The words of a read.
LEMMA ReadWords ==
  ASSUME NEW st \in Words, NEW t \in Nat, NEW n \in Nat, t + n <= Len(st)
  PROVE  SubSeq(st, t + 1, t + n) = [j \in 1..n |-> st[t + j]]
<1> DEFINE u == SubSeq(st, t + 1, t + n)
<1>1. u \in Seq(Nat \X Nat) /\ Len(u) = n /\ \A j \in 1..n : u[j] = st[t + j]
  <2>1. u \in Words /\ Len(u) = n
    BY StretchOfWords
  <2>2. ASSUME NEW j \in 1..n PROVE u[j] = st[t + j]
    <3>1. u[j] = st[(t + 1) + j - 1] /\ (t + 1) + j - 1 = t + j
      BY DEF Words
    <3>2. QED
      BY <3>1
  <2>3. QED
    BY <2>1, <2>2 DEF Words
<1>2. DOMAIN u = 1..n /\ u = [j \in DOMAIN u |-> u[j]]
  BY <1>1
<1> HIDE DEF u
<1>3. QED
  BY <1>1, <1>2 DEF u

\* The header that is read is the next message's, and so is the body.
LEMMA HeaderInRow ==
  ASSUME NEW k \in Seq(Kinds), NEW st \in Words, InRow(k, st), WordsOfSent(st, Len(k)),
         NEW t \in Nat, NEW c \in 0..Len(k), At(st, t, <<c, FrameLen(k, c)>>), t + 2 <= Len(st)
  PROVE  SubSeq(st, t + 1, t + 2) = Pair(c + 1) /\ At(st, t + 2, <<c + 1, 2>>)
<1>1. /\ Len(st) \in Nat /\ Len(k) \in Nat /\ c \in Nat /\ t \in 1..Len(st)
      /\ st[t] = <<c, FrameLen(k, c)>>
  BY DEF Words, At
<1>2. t \in 1..(Len(st) - 1) /\ t + 1 \in 1..(Len(st) - 1) /\ t + 1 \in 1..Len(st)
      /\ t + 2 \in 1..Len(st) /\ (t + 1) + 1 = t + 2
  BY <1>1
<1>3. st[t + 1] = <<c + 1, 1>>
  BY <1>1, <1>2, FrameEnds DEF InRow
<1>4. c + 1 \in 1..Len(k)
  <2>1. st[t + 1][1] <= Len(k)
    BY <1>2 DEF WordsOfSent
  <2>2. st[t + 1][1] = c + 1
    BY <1>3
  <2>3. QED
    BY <1>1, <2>1, <2>2
<1>5. st[t + 2] = <<c + 1, 2>>
  <2>1. 1 < FrameLen(k, c + 1)
    BY <1>1, <1>4, Sizes
  <2>2. Follows(k, <<c + 1, 1>>) = <<c + 1, 1 + 1>>
    BY <1>1, <2>1, WordsFollow
  <2>3. st[(t + 1) + 1] = Follows(k, st[t + 1])
    BY <1>2 DEF InRow
  <2>4. QED
    BY <1>2, <1>3, <2>2, <2>3
<1>6. SubSeq(st, t + 1, t + 2) = [j \in 1..2 |-> st[t + j]]
  BY ReadWords
<1>7. [j \in 1..2 |-> st[t + j]] = <<<<c + 1, 1>>, <<c + 1, 2>>>>
  BY <1>3, <1>5
<1>8. QED
  BY <1>2, <1>5, <1>6, <1>7 DEF Pair, At

LEMMA BodyInRow ==
  ASSUME NEW k \in Seq(Kinds), NEW st \in Words, InRow(k, st), NEW t \in Nat,
         NEW n \in 1..Len(k), At(st, t, <<n, 2>>), t + BodyLen[k[n]] <= Len(st)
  PROVE  /\ SubSeq(st, t + 1, t + BodyLen[k[n]]) = Body(n, k[n])
         /\ At(st, t + BodyLen[k[n]], <<n, FrameLen(k, n)>>)
<1> DEFINE l == BodyLen[k[n]]
<1>1. /\ Len(st) \in Nat /\ n \in Nat /\ t \in 1..Len(st) /\ st[t] = <<n, 2>>
      /\ l \in {0, 1, 2} /\ FrameLen(k, n) = 2 + l
  BY Sizes DEF Words, At
<1> HIDE DEF l
<1>2. l >= 1 => st[t + 1] = <<n, 3>>
  <2> SUFFICES ASSUME l >= 1 PROVE st[t + 1] = <<n, 3>>
    OBVIOUS
  <2>1. t \in 1..(Len(st) - 1) /\ 2 < FrameLen(k, n)
    BY <1>1 DEF l
  <2>2. Follows(k, <<n, 2>>) = <<n, 2 + 1>>
    BY <1>1, <2>1, WordsFollow
  <2>3. st[t + 1] = Follows(k, st[t])
    BY <2>1 DEF InRow
  <2>4. st[t + 1] = <<n, 2 + 1>> /\ 2 + 1 = 3
    BY <1>1, <2>2, <2>3
  <2>5. QED
    BY <2>4
<1>3. l >= 2 => st[t + 2] = <<n, 4>>
  <2> SUFFICES ASSUME l >= 2 PROVE st[t + 2] = <<n, 4>>
    OBVIOUS
  <2>1. t + 1 \in 1..(Len(st) - 1) /\ 3 < FrameLen(k, n) /\ (t + 1) + 1 = t + 2 /\ l >= 1
    BY <1>1 DEF l
  <2>2. Follows(k, <<n, 3>>) = <<n, 3 + 1>>
    BY <1>1, <2>1, WordsFollow
  <2>3. st[(t + 1) + 1] = Follows(k, st[t + 1])
    BY <2>1 DEF InRow
  <2>4. st[t + 1] = <<n, 3>>
    BY <1>2, <2>1
  <2>5. st[t + 2] = <<n, 3 + 1>> /\ 3 + 1 = 4
    BY <2>1, <2>2, <2>3, <2>4
  <2>6. QED
    BY <2>5
<1>4. SubSeq(st, t + 1, t + l) = [j \in 1..l |-> st[t + j]]
  <2>1. l \in Nat /\ t + l <= Len(st)
    BY <1>1 DEF l
  <2>2. QED
    BY <2>1, ReadWords
<1>5. ASSUME NEW j \in 1..l PROVE st[t + j] = <<n, 2 + j>>
  <2>1. j = 1 \/ (j = 2 /\ l >= 2)
    BY <1>1
  <2>2. 2 + 1 = 3 /\ 2 + 2 = 4 /\ l >= 1
    BY <1>1
  <2>3. CASE j = 1
    BY <1>2, <2>2, <2>3
  <2>4. CASE j = 2 /\ l >= 2
    BY <1>3, <2>2, <2>4
  <2>5. QED
    BY <2>1, <2>3, <2>4
<1>6. [j \in 1..l |-> st[t + j]] = Body(n, k[n])
  BY <1>5 DEF Body, PairLen, l
<1>7. At(st, t + l, <<n, FrameLen(k, n)>>)
  <2>1. t + l \in 1..Len(st)
    BY <1>1 DEF l
  <2>2. st[t + l] = <<n, 2 + l>>
    BY <1>1, <1>2, <1>3
  <2>3. QED
    BY <1>1, <2>1, <2>2 DEF At
<1>8. QED
  BY <1>4, <1>6, <1>7 DEF l

\* What is known of the reader f and its peer's stream.
LEMMA ReaderFacts ==
  ASSUME AllInv, NEW f \in Ends
  PROVE  LET e == Peer(f) IN
         /\ e \in Ends /\ sent[e] \in Seq(Kinds) /\ stream[e] \in Words
         /\ taken[f] \in Nat /\ taken[f] <= Len(stream[e])
         /\ recv[f] \in Seq(Words) /\ HeardWhole(sent[e], recv[f])
         /\ Len(recv[f]) \in 0..Len(sent[e]) /\ Len(sent[e]) \in Nat
         /\ WordsOfSent(stream[e], Len(sent[e]))
         /\ Marked(stream[e]) => InRow(sent[e], stream[e])
         /\ reads[f] # <<>> => /\ Place(sent[e], stream[e], taken[f], Len(recv[f]), reads[f][1])
                               /\ reads[f][1] \in ReadOps /\ WellRead(reads[f][1])
<1> DEFINE e == Peer(f)
<1>1. e \in Ends /\ IndInv
  BY DEF Peer, Ends, AllInv, ChannelInv
<1>2. /\ sent[e] \in Seq(Kinds) /\ stream[e] \in Words /\ taken[f] \in Nat
      /\ recv[f] \in Seq(Words)
  BY <1>1 DEF IndInv, RestOK
<1>3. /\ taken[f] <= Len(stream[e]) /\ HeardWhole(sent[e], recv[f])
      /\ reads[f] # <<>> => Place(sent[e], stream[e], taken[f], Len(recv[f]), reads[f][1])
      /\ Marked(stream[e]) => InRow(sent[e], stream[e])
  BY <1>1 DEF AllInv, ApartInv, ReaderOK, WriterOK
<1>4. WordsOfSent(stream[e], Len(sent[e]))
  BY <1>1, FitsNow DEF Fits
<1>5. Len(recv[f]) \in 0..Len(sent[e]) /\ Len(sent[e]) \in Nat
  BY <1>2, <1>3, WholeOnes
<1>6. QED
  BY <1>1, <1>2, <1>3, <1>4, <1>5, ReadHandled

\* When words of a message arrive, the number has gone before.
LEMMA ReadsMarked ==
  ASSUME AllInv, NEW f \in Ends, Arrive(f), reads[f][1].op # "nonce"
  PROVE  Marked(stream[Peer(f)])
<1>1. IndInv /\ HandshakeInv
  BY DEF AllInv, ChannelInv
<1>2. /\ reads[f] # <<>> /\ reads[f][1].ec = "pending" /\ reads[f][1].op \in {"nonce", "header", "body"}
      /\ taken[f] + reads[f][1].len <= Len(stream[Peer(f)])
      /\ reads[f][1].op # "body" => reads[f][1].len = 2
  <2>1. Arrive(f) => reads[f] # <<>>
    BY DEF Arrive, IsFirstPending
  <2>2. QED
    BY <1>1, <2>1, ArriveEffect DEF ReadOps, WellRead, PairLen
<1>3. taken[f] >= 2 /\ taken[f] \in Nat
  BY <1>2, ReaderFacts DEF Place, PairLen
<1>4. \A e \in Ends : Opened(e) => Marked(stream[e])
  <2>1. ~(Len(<<>>) >= 2)
    OBVIOUS
  <2>2. QED
    BY <2>1 DEF Opened, Marked
<1>5. CASE f = "server"
  <2>1. Opened("client") /\ Peer(f) = "client" /\ "client" \in Ends
    BY <1>1, <1>2, <1>5 DEF HandshakeInv, HeardOK, Peer, Ends
  <2>2. QED
    BY <1>4, <2>1
<1>6. CASE f = "client"
  <2>1. Peer(f) = "server" /\ "server" \in Ends
    BY <1>6 DEF Peer, Ends
  <2>2. CASE accepted = "yes"
    <3>1. stream["server"] # <<>>
      <4>1. ~(2 <= Len(<<>>))
        OBVIOUS
      <4>2. taken[f] <= Len(stream["server"])
        BY <2>1, ReaderFacts
      <4>3. QED
        BY <1>3, <4>1, <4>2
    <3>2. QED
      BY <1>1, <1>4, <2>1, <2>2, <3>1 DEF HandshakeInv, FirstWriteOK
  <2>3. CASE accepted # "yes"
    <3>1. /\ stream["server"] \in {<<>>, Pair(1)}
          /\ reads[f][1].op = "header"
      BY <1>1, <1>2, <1>6, <2>3 DEF HandshakeInv, Unserved, LittleWritten, LittleRead
    <3>2. Len(Pair(1)) = 2 /\ Len(<<>>) = 0
      BY DEF Pair
    <3>3. Len(stream["server"]) <= 2 /\ Len(stream["server"]) \in Nat
      <4>1. stream["server"] = <<>> \/ stream["server"] = Pair(1)
        BY <3>1
      <4>2. CASE stream["server"] = <<>>
        BY <3>2, <4>2
      <4>3. CASE stream["server"] = Pair(1)
        <5>1. Len(stream["server"]) = 2
          BY <3>2, <4>3, Zenon
        <5>2. QED
          BY <5>1
      <4>4. QED
        BY <4>1, <4>2, <4>3
    <3>4. QED
      BY <1>2, <1>3, <2>1, <3>1, <3>3
  <2>4. QED
    BY <2>2, <2>3
<1>7. QED
  BY <1>5, <1>6 DEF Ends

\* Words arrive.
LEMMA ReaderArrives ==
  ASSUME AllInv, NEW f \in Ends, Arrive(f)
  PROVE  LET e == Peer(f) IN
         /\ taken'[f] <= Len(stream[e]) /\ taken'[f] \in Nat
         /\ reads'[f] # <<>> /\ reads'[f][1] \in ReadOps
         /\ Place(sent[e], stream[e], taken'[f], Len(recv[f]), reads'[f][1])
<1> DEFINE e == Peer(f)
           k == sent[e]
           st == stream[e]
           t == taken[f]
           c == Len(recv[f])
           r == reads[f][1]
           last == t + r.len
           data == SubSeq(st, t + 1, last)
           q == [r EXCEPT !.ec = "ok", !.data = data]
<1>1. IndInv /\ HandshakeInv /\ DOMAIN taken = Ends /\ DOMAIN reads = Ends
  BY DEF AllInv, ChannelInv, IndInv, RestOK, ReadsOK
<1>2. /\ reads[f] = <<r>> /\ r \in ReadOps /\ WellRead(r) /\ r.ec = "pending"
      /\ last <= Len(st)
      /\ taken' = [taken EXCEPT ![f] = last]
      /\ reads' = [reads EXCEPT ![f] = <<q>>]
  BY <1>1, ArriveEffect
<1>3. /\ k \in Seq(Kinds) /\ st \in Words /\ t \in Nat /\ c \in 0..Len(k)
      /\ WordsOfSent(st, Len(k)) /\ (Marked(st) => InRow(k, st))
      /\ Place(k, st, t, c, r) /\ Len(k) \in Nat
  <2>1. reads[f] # <<>>
    BY <1>2
  <2>2. QED
    BY <2>1, ReaderFacts
<1>4. /\ taken'[f] = last /\ reads'[f] = <<q>> /\ reads'[f][1] = q /\ reads'[f] # <<>>
      /\ r.len \in Nat /\ last \in Nat /\ r.op \in {"nonce", "header", "body"}
      /\ c \in Nat
  BY <1>1, <1>2, <1>3 DEF ReadOps
<1>5. data \in Words
  BY <1>2, <1>3, <1>4, StretchOfWords
<1>6. /\ q \in ReadOps /\ q.op = r.op /\ q.ec = "ok" /\ q.data = data
      /\ q.len = r.len /\ q.head = r.head
  BY <1>2, <1>5 DEF ReadOps, Results
<1>7. r.op # "nonce" => InRow(k, st)
  BY <1>3, ReadsMarked
<1> HIDE DEF q, data
<1>8. CASE r.op = "nonce"
  <2>1. c = 0 /\ t = 0 /\ r.len = PairLen
    <3>1. reads[f] # <<>>
      BY <1>2
    <3>2. NumberRead(r, Peer(f), t)
      BY <1>1, <3>1 DEF HandshakeInv, FirstReadOK
    <3>3. QED
      BY <1>2, <1>3, <1>8, <3>2 DEF NumberRead, Place, WellRead
  <2>2. last = PairLen
    BY <2>1 DEF PairLen
  <2>3. QED
    BY <1>2, <1>4, <1>6, <1>8, <2>1, <2>2 DEF Place
<1>9. CASE r.op = "header"
  <2>1. /\ At(st, t, <<c, FrameLen(k, c)>>) /\ t >= 2 /\ last = t + 2
    BY <1>2, <1>3, <1>9, ReadsMarked DEF Place, WellRead, PairLen
  <2>2. SubSeq(st, t + 1, t + 2) = Pair(c + 1) /\ At(st, t + 2, <<c + 1, 2>>)
    BY <1>2, <1>3, <1>7, <1>9, <2>1, HeaderInRow
  <2>3. data = Pair(c + 1) /\ At(st, last, <<c + 1, PairLen>>) /\ last >= PairLen
    BY <1>3, <2>1, <2>2 DEF data, PairLen
  <2>4. QED
    BY <1>2, <1>4, <1>6, <1>9, <2>3 DEF Place
<1>10. CASE r.op = "body"
  <2>1. /\ r.head = Pair(c + 1) /\ r.len = BodyLen[k[c + 1]] /\ At(st, t, <<c + 1, 2>>) /\ t >= 2
    BY <1>2, <1>3, <1>10 DEF Place, PairLen
  <2>2. c + 1 \in 1..Len(k)
    <3>1. st[t][1] <= Len(k) /\ st[t] = <<c + 1, 2>>
      BY <1>3, <2>1 DEF At, WordsOfSent
    <3>2. c + 1 <= Len(k)
      BY <3>1
    <3>3. QED
      BY <1>3, <1>4, <3>2
  <2>3. /\ data = Body(c + 1, k[c + 1])
        /\ At(st, last, <<c + 1, FrameLen(k, c + 1)>>)
    BY <1>2, <1>3, <1>7, <1>10, <2>1, <2>2, BodyInRow DEF data
  <2>4. last >= PairLen
    BY <1>3, <1>4, <2>1 DEF PairLen
  <2>5. QED
    BY <1>2, <1>4, <1>6, <1>10, <2>1, <2>3, <2>4 DEF Place
<1>11. QED
  BY <1>4, <1>8, <1>9, <1>10

\* A frame begins with its header, and a header with itself.
LEMMA FirstTwo ==
  ASSUME NEW s \in Words, Len(s) >= 2
  PROVE  SubSeq(s, 1, 2) = <<s[1], s[2]>>
BY FirstWordsRead, PairOfTwo DEF Words

LEMMA FrameHead ==
  ASSUME NEW n \in Nat, NEW k \in Kinds
  PROVE  /\ SubSeq(Pair(n), 1, PairLen) = Pair(n) /\ MessageNumber(Pair(n)) = n
         /\ SubSeq(Frame(n, k), 1, PairLen) = Pair(n) /\ MessageNumber(Frame(n, k)) = n
         /\ BodyLen[k] = 0 => Frame(n, k) = Pair(n)
<1>1. /\ Pair(n) \in Words /\ Len(Pair(n)) = 2 /\ Pair(n)[1] = <<n, 1>> /\ Pair(n)[2] = <<n, 2>>
      /\ Pair(n) = <<<<n, 1>>, <<n, 2>>>>
  BY FrameWords DEF Pair, PairLen
<1>2. SubSeq(Pair(n), 1, PairLen) = Pair(n) /\ MessageNumber(Pair(n)) = n
  BY <1>1, FirstTwo DEF PairLen, MessageNumber
<1> DEFINE b == Body(n, k)
           v == Pair(n) \o b
<1>3. b \in Words
  BY FrameWords
<1> HIDE DEF b
<1>4. /\ v \in Words /\ Len(v) = 2 + Len(b) /\ Len(b) \in Nat
      /\ \A j \in 1..2 : v[j] = Pair(n)[j]
  BY <1>1, <1>3, ConcatWords
<1> HIDE DEF v
<1>5. SubSeq(v, 1, 2) = <<v[1], v[2]>>
  <2>1. Len(v) >= 2
    BY <1>4
  <2>2. QED
    BY <1>4, <2>1, FirstTwo
<1>6. v[1] = <<n, 1>> /\ v[2] = <<n, 2>>
  BY <1>1, <1>4
<1>7. SubSeq(v, 1, PairLen) = Pair(n) /\ MessageNumber(v) = n
  BY <1>1, <1>5, <1>6 DEF PairLen, MessageNumber
<1>8. BodyLen[k] = 0 => Frame(n, k) = Pair(n)
  <2> SUFFICES ASSUME BodyLen[k] = 0 PROVE Frame(n, k) = Pair(n)
    OBVIOUS
  <2>1. Body(n, k) = <<>>
    BY DEF Body
  <2>2. QED
    BY <1>1, <2>1 DEF Frame, Words
<1>9. QED
  BY <1>2, <1>7, <1>8 DEF Frame, v, b

\* A message is handed over: it is the next one, whole.
LEMMA ReaderHears ==
  ASSUME AllInv, NEW f \in Ends, HeaderRead(f) \/ BodyRead(f)
  PROVE  LET e == Peer(f) IN
         /\ HeardWhole(sent[e], recv'[f])
         /\ reads'[f] # <<>>
         /\ Place(sent[e], stream[e], taken[f], Len(recv'[f]), reads'[f][1])
         /\ recv'[f] = recv[f] \/ (Len(recv'[f]) = Len(recv[f]) + 1 /\ Len(recv'[f]) <= Len(sent[e]))
<1> DEFINE e == Peer(f)
           k == sent[e]
           st == stream[e]
           t == taken[f]
           x == recv[f]
           c == Len(x)
           r == reads[f][1]
           h == Read(f, "header", PairLen, <<>>)
<1>1. IndInv /\ DOMAIN recv = Ends /\ DOMAIN reads = Ends
  BY DEF AllInv, ChannelInv, IndInv, RestOK, ReadsOK
<1>2. /\ reads[f] = <<r>> /\ r.ec = "ok" /\ r.op \in {"header", "body"}
      /\ HeaderRead(f) => r.op = "header"
      /\ BodyRead(f) => r.op = "body"
  BY <1>1, HeaderReadEffect, BodyReadEffect
<1>3. /\ k \in Seq(Kinds) /\ st \in Words /\ t \in Nat /\ c \in 0..Len(k) /\ x \in Seq(Words)
      /\ WordsOfSent(st, Len(k)) /\ HeardWhole(k, x)
      /\ Place(k, st, t, c, r) /\ r \in ReadOps /\ Len(k) \in Nat /\ c \in Nat
  <2>1. reads[f] # <<>>
    BY <1>2
  <2>2. QED
    BY <2>1, ReaderFacts
<1>4. h.op = "header" /\ h.ec # "ok" /\ <<h>> # <<>> /\ <<h>>[1] = h
  BY DEF Read, Started
<1> DEFINE b == BodyLen[k[c + 1]]
<1>5. t >= PairLen /\ \E m : At(st, t, <<c + 1, m>>)
  BY <1>2, <1>3 DEF Place
<1>6. c + 1 \in 1..Len(k)
  <2>1. PICK m : st[t] = <<c + 1, m>> /\ t \in 1..Len(st)
    BY <1>5 DEF At
  <2>2. st[t][1] = c + 1 /\ st[t][1] <= Len(k)
    BY <1>3, <2>1 DEF WordsOfSent
  <2>3. QED
    BY <1>3, <2>2
<1>7. b \in {0, 1, 2} /\ FrameLen(k, c + 1) = 2 + b
  BY <1>3, <1>6, Sizes
<1> HIDE DEF h
\* The reader goes on to the next header.
<1>8. ASSUME NEW w \in Words, w = Frame(c + 1, k[c + 1]), At(st, t, <<c + 1, FrameLen(k, c + 1)>>),
             recv'[f] = Append(x, w), reads'[f] = <<h>>
      PROVE  /\ HeardWhole(k, recv'[f]) /\ reads'[f] # <<>>
             /\ Place(k, st, t, Len(recv'[f]), reads'[f][1])
             /\ Len(recv'[f]) = c + 1 /\ c + 1 <= Len(k)
  <2>1. HeardWhole(k, Append(x, w))
    <3>1. Len(x) + 1 <= Len(k) /\ w = Frame(Len(x) + 1, k[Len(x) + 1])
      BY <1>3, <1>6, <1>8
    <3>2. k \in Seq(Kinds) /\ x \in Seq(Words) /\ HeardWhole(k, x)
      BY <1>3
    <3> HIDE DEF k, x, c
    <3>3. QED
      BY <1>8, <3>1, <3>2, WholeOnes
  <2>2. Len(Append(x, w)) = c + 1
    BY <1>3
  <2>3. Place(k, st, t, c + 1, h)
    BY <1>4, <1>5, <1>8 DEF Place
  <2>4. QED
    BY <1>3, <1>4, <1>6, <1>8, <2>1, <2>2, <2>3
<1>9. CASE BodyRead(f)
  <2> DEFINE w == r.head \o r.data
  <2>1. reads'[f] = <<h>> /\ recv'[f] = Append(x, w)
    BY <1>1, <1>9, BodyReadEffect DEF h
  <2>2. /\ r.head = Pair(c + 1) /\ r.data = Body(c + 1, k[c + 1])
        /\ At(st, t, <<c + 1, FrameLen(k, c + 1)>>)
    BY <1>2, <1>3, <1>9 DEF Place
  <2>3. w \in Words
    BY <1>3 DEF ReadOps, Words
  <2>4. w = Frame(c + 1, k[c + 1])
    BY <2>2 DEF Frame
  <2> HIDE DEF w
  <2>5. QED
    BY <1>8, <2>1, <2>2, <2>3, <2>4
<1>10. CASE HeaderRead(f)
  <2>1. r.data = Pair(c + 1) /\ At(st, t, <<c + 1, PairLen>>) /\ r.op = "header"
    BY <1>2, <1>3, <1>10 DEF Place
  <2>2. SizesOf(e, r.data) = {b}
    <3>1. SubSeq(Pair(c + 1), 1, PairLen) = Pair(c + 1) /\ MessageNumber(Pair(c + 1)) = c + 1
      BY <1>3, FrameHead DEF Kinds
    <3>2. HasHeaderOf(e, r.data)
      <4>1. DOMAIN k = 1..Len(k)
        BY <1>3
      <4>2. QED
        BY <1>6, <2>1, <3>1, <4>1 DEF HasHeaderOf
    <3>3. MessageNumber(r.data) = c + 1
      BY <2>1, <3>1
    <3>4. QED
      BY <3>2, <3>3 DEF SizesOf
  <2>3. \/ /\ b > 0
           /\ reads' = [reads EXCEPT ![f] = <<Read(f, "body", b, r.data)>>]
           /\ recv' = recv
        \/ /\ ~(b > 0)
           /\ reads' = [reads EXCEPT ![f] = <<h>>]
           /\ recv' = [recv EXCEPT ![f] = Append(x, r.data)]
    BY <1>1, <1>10, <2>2, HeaderReadEffect DEF h
  <2>4. CASE b > 0 /\ reads' = [reads EXCEPT ![f] = <<Read(f, "body", b, r.data)>>] /\ recv' = recv
    <3> DEFINE q == Read(f, "body", b, r.data)
    <3>1. /\ q.op = "body" /\ q.len = b /\ q.head = Pair(c + 1) /\ q.ec \in {"pending", "failed"}
          /\ <<q>> # <<>> /\ <<q>>[1] = q
      BY <2>1 DEF Read, Started
    <3> HIDE DEF q
    <3>2. reads'[f] = <<q>> /\ recv'[f] = x
      BY <1>1, <2>4 DEF q
    <3>3. Place(k, st, t, c, q)
      BY <1>5, <2>1, <3>1 DEF Place
    <3>4. QED
      BY <1>3, <3>1, <3>2, <3>3
  <2>5. CASE ~(b > 0) /\ reads' = [reads EXCEPT ![f] = <<h>>] /\ recv' = [recv EXCEPT ![f] = Append(x, r.data)]
    <3>1. reads'[f] = <<h>> /\ recv'[f] = Append(x, r.data)
      BY <1>1, <2>5
    <3>2. b = 0 /\ FrameLen(k, c + 1) = PairLen
      BY <1>7, <2>5 DEF PairLen
    <3>3. r.data = Frame(c + 1, k[c + 1])
      <4>1. c + 1 \in Nat /\ k[c + 1] \in Kinds
        BY <1>3, <1>6
      <4>2. QED
        BY <2>1, <3>2, <4>1, FrameHead
    <3>4. r.data \in Words
      BY <1>3 DEF ReadOps
    <3>5. QED
      BY <1>8, <2>1, <3>1, <3>2, <3>3, <3>4
  <2>6. QED
    BY <2>3, <2>4, <2>5
<1>11. QED
  BY <1>9, <1>10

\* A read that has failed says nothing of where the reader is.
LEMMA FailedPlace ==
  ASSUME NEW k, NEW st, NEW t, NEW c, NEW r \in ReadOps, NEW q, Place(k, st, t, c, r),
         q.op = r.op, q.ec = "failed"
  PROVE  Place(k, st, t, c, q)
BY DEF Place

\* What the reader does at a step, by the messages and words that were there before.
LEMMA ReaderMoves ==
  ASSUME AllInv, [Next]_vars, NEW f \in Ends
  PROVE  LET e == Peer(f) IN
         /\ taken'[f] <= Len(stream[e])
         /\ HeardWhole(sent[e], recv'[f])
         /\ recv'[f] = recv[f] \/ (Len(recv'[f]) = Len(recv[f]) + 1 /\ Len(recv'[f]) <= Len(sent[e]))
         /\ reads'[f] # <<>> =>
               Place(sent[e], stream[e], taken'[f], Len(recv'[f]), reads'[f][1])
<1> DEFINE e == Peer(f)
           k == sent[e]
           st == stream[e]
           t == taken[f]
           x == recv[f]
           r == reads[f][1]
<1>1. /\ IndInv /\ HandshakeInv /\ ClientOK /\ ChangesAt(f)
      /\ DOMAIN recv = Ends /\ DOMAIN reads = Ends /\ DOMAIN taken = Ends
  BY EndChanges DEF AllInv, ChannelInv, ApartInv, IndInv, RestOK, ReadsOK
<1>2. /\ k \in Seq(Kinds) /\ st \in Words /\ t \in Nat /\ t <= Len(st)
      /\ x \in Seq(Words) /\ HeardWhole(k, x)
      /\ Marked(st) => InRow(k, st)
      /\ reads[f] # <<>> => Place(k, st, t, Len(x), r) /\ r \in ReadOps /\ reads[f] = <<r>>
  BY <1>1, ReaderFacts, ReadHandled
<1>3. CASE Arrive(f)
  <2>1. recv'[f] = x
    BY <1>3 DEF Arrive, appVars
  <2>2. QED
    BY <1>2, <1>3, <2>1, ReaderArrives
<1>4. CASE HeaderRead(f) \/ BodyRead(f)
  <2>1. taken'[f] = t
    BY <1>4 DEF HeaderRead, BodyRead
  <2>2. QED
    BY <1>2, <1>4, <2>1, ReaderHears
<1>5. CASE /\ ~Arrive(f) /\ ~HeaderRead(f) /\ ~BodyRead(f)
  <2>1. taken'[f] = t /\ recv'[f] = x
    BY <1>1, <1>5 DEF ChangesAt
  <2> SUFFICES ASSUME reads'[f] # <<>>
               PROVE  Place(k, st, t, Len(x), reads'[f][1])
    BY <1>2, <2>1
  <2>2. CASE reads'[f] = reads[f]
    BY <1>2, <2>2
  <2>3. CASE ReadFails(f)
    <3> DEFINE q == [r EXCEPT !.ec = "failed"]
    <3>1. reads[f] = <<r>> /\ reads' = [reads EXCEPT ![f] = <<q>>]
      BY <1>1, <2>3, ReadFailsEffect
    <3>2. reads[f] # <<>> /\ reads'[f][1] = q
      BY <1>1, <3>1
    <3>3. q.op = r.op /\ q.ec = "failed"
      BY <1>2, <3>2 DEF ReadOps
    <3> HIDE DEF q
    <3>4. QED
      BY <1>2, <3>2, <3>3, FailedPlace
  <2>4. CASE RunClose(f)
    <3>1. reads'[f] = Abort(reads[f])
      BY <1>1, <2>4 DEF RunClose
    <3>2. reads[f] # <<>>
      BY <1>1, <3>1, ReadAborted
    <3>3. reads'[f][1] = IF r.ec = "pending" THEN [r EXCEPT !.ec = "failed"] ELSE r
      <4>1. reads[f] = <<r>> /\ DOMAIN reads[f] = {1}
        BY <1>2, <3>2
      <4>2. QED
        BY <3>1, <4>1 DEF Abort
    <3>4. CASE r.ec # "pending"
      BY <1>2, <3>2, <3>3, <3>4
    <3>5. CASE r.ec = "pending"
      <4> DEFINE q == [r EXCEPT !.ec = "failed"]
      <4>1. q.op = r.op /\ q.ec = "failed" /\ reads'[f][1] = q
        BY <1>2, <3>2, <3>3, <3>5 DEF ReadOps
      <4> HIDE DEF q
      <4>2. QED
        BY <1>2, <3>2, <4>1, FailedPlace
    <3>6. QED
      BY <3>4, <3>5
  <2>5. CASE ReadError(f) \/ (f = "client" /\ AnswerValidation) \/ (f = "server" /\ ClientRejected)
    <3>1. reads[f] # <<>> /\ reads'[f] = Tail(reads[f])
      BY <1>1, <2>5 DEF ReadError, AnswerValidation, ClientRejected, HasRead
    <3>2. Tail(<<r>>) = <<>>
      OBVIOUS
    <3>3. QED
      BY <1>2, <3>1, <3>2
  <2>6. CASE Quit(f)
    BY <1>1, <2>6 DEF Quit
  <2>7. CASE f = "client" /\ NonceWritten(f)
    <3> DEFINE q == Read(f, "header", PairLen, <<>>)
    <3>1. ~NoNonce(writes[f])
      <4>1. writes[f] # <<>> /\ Head(writes[f]).op = "nonce"
        BY <2>7 DEF NonceWritten
      <4>2. 1 \in 1..Len(writes[f]) /\ Head(writes[f]) = writes[f][1]
        BY <1>1, <4>1 DEF IndInv, WritesOK
      <4>3. QED
        BY <4>1, <4>2 DEF NoNonce
    <3>2. reads[f] = <<>> /\ t = 2 /\ Len(x) = 0
      BY <1>1, <2>7, <3>1 DEF IndInv, TurnsOK, ClientOK, PairLen
    <3>3. reads'[f] = <<q>> /\ q.op = "header" /\ q.ec # "ok"
      BY <1>1, <2>7, <3>2, AppendToNone DEF NonceWritten, Read, Started
    <3> HIDE DEF q
    <3>4. Place(k, st, 2, 0, q)
      BY <1>2, <3>2, <3>3, FirstPlace
    <3>5. QED
      BY <3>2, <3>3, <3>4
  <2>8. CASE f = "server" /\ ClientValidated
    <3> DEFINE q == Read(f, "header", PairLen, <<>>)
    <3>1. reads[f] # <<>> /\ Head(reads[f]).op = "nonce" /\ Head(reads[f]).ec = "ok"
      BY <2>8 DEF ClientValidated, HasRead
    <3>2. r.op = "nonce" /\ r.ec = "ok"
      BY <1>1, <3>1, ReadHandled
    <3>3. reads'[f] = <<q>> /\ q.op = "header" /\ q.ec # "ok"
      BY <1>1, <2>8, <3>1, ReadHandled DEF ClientValidated, Read, Started
    <3>4. t = 2 /\ Len(x) = 0
      BY <1>2, <3>1, <3>2 DEF Place, PairLen
    <3> HIDE DEF q
    <3>5. Place(k, st, 2, 0, q)
      BY <1>2, <3>3, <3>4, FirstPlace
    <3>6. QED
      BY <3>3, <3>4, <3>5
  <2>9. CASE f = "client" /\ ConnectDone
    <3> DEFINE q == Read(f, "nonce", PairLen, <<>>)
    <3>1. reads[f] = <<>> /\ Len(x) = 0
      BY <1>1, <2>9 DEF ConnectDone, IndInv, TurnsOK, ClientOK
    <3>2. reads'[f] = <<q>> /\ q.op = "nonce" /\ q.ec # "ok"
      BY <1>1, <2>9, <3>1, AppendToNone DEF ConnectDone, Read, Started
    <3> HIDE DEF q
    <3>3. Place(k, st, t, 0, q)
      BY <3>2 DEF Place
    <3>4. QED
      BY <3>1, <3>2, <3>3
  <2>10. CASE f = "server" /\ Accept
    <3> DEFINE q == [op |-> "nonce", len |-> PairLen, head |-> <<>>, data |-> <<>>, ec |-> "pending"]
    <3>1. reads'[f] = <<q>> /\ q.op = "nonce" /\ q.ec # "ok"
      BY <1>1, <2>10 DEF Accept
    <3>2. Len(x) = 0
      BY <1>1, <2>10 DEF HandshakeInv, AcceptOK, Untouched, Accept, AcceptHandler
    <3> HIDE DEF q
    <3>3. Place(k, st, t, 0, q)
      BY <3>1 DEF Place
    <3>4. QED
      BY <3>1, <3>2, <3>3
  <2>11. CASE f = "server" /\ NonceWritten(f)
    <3>1. reads'[f] = reads[f]
      BY <2>11 DEF NonceWritten
    <3>2. QED
      BY <2>2, <3>1
  <2>12. QED
    BY <1>1, <1>5, <2>2, <2>3, <2>4, <2>5, <2>6, <2>7, <2>8, <2>9, <2>10, <2>11 DEF ChangesAt, Ends
<1>6. QED
  BY <1>3, <1>4, <1>5

LEMMA ReaderStays ==
  ASSUME AllInv, [Next]_vars
  PROVE  ReaderOK'
<1> SUFFICES ASSUME NEW f \in Ends
             PROVE  /\ taken'[f] <= Len(stream'[Peer(f)])
                    /\ HeardWhole(sent'[Peer(f)], recv'[f])
                    /\ reads'[f] # <<>> =>
                          Place(sent'[Peer(f)], stream'[Peer(f)], taken'[f], Len(recv'[f]), reads'[f][1])
  BY DEF ReaderOK, Peer
<1> DEFINE e == Peer(f)
           k == sent[e]
           st == stream[e]
           l == sent'[e]
           st2 == stream'[e]
           x == recv'[f]
<1>1. /\ e \in Ends /\ k \in Seq(Kinds) /\ st \in Words /\ WordsOfSent(st, Len(k)) /\ IndInv
      /\ Len(k) \in Nat /\ Len(recv[f]) \in 0..Len(k)
  BY ReaderFacts DEF AllInv, ChannelInv
<1>2. /\ st2 \in Words /\ Len(st) <= Len(st2) /\ Len(st) \in Nat /\ Len(st2) \in Nat
      /\ \A j \in 1..Len(st) : st2[j] = st[j]
  BY <1>1, StreamGrows
<1>3. l = k \/ \E y \in Kinds : l = Append(k, y)
  BY <1>1, SentGrows
<1>4. IndInv'
  BY <1>1, NextIndInv
<1>5. /\ taken'[f] \in Nat /\ x \in Seq(Words)
      /\ reads'[f] # <<>> => reads'[f][1] \in ReadOps
  <2>1. taken'[f] \in Nat /\ x \in Seq(Words) /\ reads'[f] \in ReadQueues
    BY <1>4 DEF IndInv, RestOK, ReadsOK
  <2>2. ASSUME reads'[f] # <<>> PROVE reads'[f][1] \in ReadOps
    BY <2>1, <2>2, ReadQueueHead
  <2>3. QED
    BY <2>1, <2>2
<1>6. /\ taken'[f] <= Len(st) /\ HeardWhole(k, x)
      /\ x = recv[f] \/ (Len(x) = Len(recv[f]) + 1 /\ Len(x) <= Len(k))
      /\ reads'[f] # <<>> => Place(k, st, taken'[f], Len(x), reads'[f][1])
  BY ReaderMoves
<1>7. Len(x) \in 0..Len(k)
  BY <1>1, <1>5, <1>6, WholeOnes
<1> HIDE DEF k, st, l, st2, x
<1>8. HeardWhole(l, x)
  BY <1>1, <1>3, <1>5, <1>6, WholeOnes
<1>9. reads'[f] # <<>> => Place(l, st2, taken'[f], Len(x), reads'[f][1])
  BY <1>1, <1>2, <1>3, <1>5, <1>6, <1>7, PlaceStays
<1>10. QED
  BY <1>2, <1>5, <1>6, <1>8, <1>9 DEF l, st2, x, st

-----------------------------------------------------------------------------
(* The invariant holds, and the connection is a channel.                   *)

LEMMA InitApart == Init => AllInv
<1> SUFFICES ASSUME Init PROVE AllInv
  OBVIOUS
<1>1. ChannelInv
  BY InitIndInv, InitHandshake, InitOrder DEF ChannelInv
<1>2. /\ \A e \in Ends : /\ tasks[e] = <<>> /\ writes[e] = <<>> /\ reads[e] = <<>>
                         /\ stream[e] = <<>> /\ taken[e] = 0 /\ sent[e] = <<>> /\ recv[e] = <<>>
                         /\ socket[e] = "none"
      /\ connect = "no" /\ Len(<<>>) = 0
      /\ \A e \in Ends : Peer(e) \in Ends
      /\ "client" \in Ends
  BY DEF Init, Ends, Peer
<1>3. WriterOK
  BY <1>2 DEF WriterOK, Marked, Bodied, CanWrite
<1>4. ClientOK
  BY <1>2 DEF ClientOK, Marked, NoNonce
<1>5. ReaderOK
  BY <1>2 DEF ReaderOK, HeardWhole
<1>6. QED
  BY <1>1, <1>3, <1>4, <1>5 DEF AllInv, ApartInv

LEMMA ApartStep ==
  ASSUME AllInv, [Next /\ SendsApart]_vars
  PROVE  AllInv'
<1>1. IndInv /\ HandshakeInv /\ OrderInv /\ [Next]_vars
  BY DEF AllInv, ChannelInv
<1>2. SendsApart
  <2> SUFFICES ASSUME UNCHANGED vars, NEW e \in Ends PROVE ~RunSend(e)
    BY DEF SendsApart
  <2>1. tasks' = tasks /\ tasks[e] \in Seq(Tasks) /\ DOMAIN tasks = Ends
    BY <1>1 DEF vars, IndInv, TasksOK
  <2>2. \A q \in Seq(Tasks) : q # <<>> => Tail(q) # q
    <3>1. \A q \in Seq(Tasks) : q # <<>> => Len(Tail(q)) # Len(q)
      OBVIOUS
    <3>2. QED
      BY <3>1
  <2>3. RunSend(e) => tasks[e] # <<>> /\ tasks'[e] = Tail(tasks[e])
    BY <2>1 DEF RunSend
  <2>4. QED
    BY <2>1, <2>2, <2>3
<1>3. ChannelInv'
  BY <1>1, NextIndInv, HandshakeStep, OrderStep DEF ChannelInv
<1>4. WriterOK' /\ ClientOK' /\ ReaderOK'
  BY <1>1, <1>2, WriterStays, ClientStays, ReaderStays
<1>5. QED
  BY <1>3, <1>4 DEF AllInv, ApartInv

\* What an end has received are the messages of its peer, whole and in order.
Delivered == \A f \in Ends : \A n \in 1..Len(recv[f]) : WholeFrom(Peer(f), recv[f][n]) = n

LEMMA AllDelivered == AllInv => Delivered
<1> SUFFICES ASSUME AllInv, NEW f \in Ends, NEW n \in 1..Len(recv[f])
             PROVE  WholeFrom(Peer(f), recv[f][n]) = n
  BY DEF Delivered
<1> DEFINE e == Peer(f)
           k == sent[e]
           w == recv[f][n]
<1>1. /\ k \in Seq(Kinds) /\ HeardWhole(k, recv[f]) /\ Len(k) \in Nat /\ Len(recv[f]) \in Nat
  BY ReaderFacts
<1>2. n \in 1..Len(k) /\ n \in Nat /\ w = Frame(n, k[n]) /\ k[n] \in Kinds /\ DOMAIN k = 1..Len(k)
  BY <1>1 DEF HeardWhole
<1>3. SubSeq(w, 1, PairLen) = Pair(n) /\ MessageNumber(w) = n
  BY <1>2, FrameHead
<1>4. HasHeaderOf(e, w)
  BY <1>2, <1>3 DEF HasHeaderOf
<1>5. QED
  BY <1>2, <1>3, <1>4 DEF WholeFrom

\* A step that hands a message over sends none, and does nothing at the other end.
LEMMA OneHears ==
  ASSUME IndInv, [Next]_vars, NEW f \in Ends, recv'[f] # recv[f]
  PROVE  sent' = sent /\ \A e \in Ends : e # f => recv'[e] = recv[e]
<1>1. HeaderRead(f) \/ BodyRead(f)
  BY EndChanges DEF ChangesAt
<1>2. sent' = sent
  BY <1>1 DEF HeaderRead, BodyRead
<1>3. \A e \in Ends : e # f => recv'[e] = recv[e]
  BY <1>1, OtherEnd DEF Handlers
<1>4. QED
  BY <1>2, <1>3

LEMMA OneSends ==
  ASSUME IndInv, [Next]_vars, NEW e \in Ends, sent'[e] # sent[e]
  PROVE  \A f \in Ends : f # e => sent'[f] = sent[f]
<1>1. DOMAIN sent = Ends
  BY DEF IndInv, RestOK
<1>2. (\E k \in Kinds : Send(e, k)) \/ (e = "server" /\ IdExists)
  BY EndChanges DEF ChangesAt
<1>3. QED
  BY <1>1, <1>2 DEF Send, IdExists

LEMMA ChannelMoves ==
  ASSUME AllInv, AllInv', [Next]_vars
  PROVE  [Channel!Next]_(Channel!vars)
<1> DEFINE Sent == [e \in Ends |-> Len(sent[e])]
           Handed == [e \in Ends |-> [i \in DOMAIN recv[e] |-> WholeFrom(Peer(e), recv[e][i])]]
           Count(k) == [i \in 1..k |-> i]
<1>1. IndInv /\ IndInv' /\ Delivered /\ Delivered'
  <2>1. Delivered
    BY AllDelivered
  <2>2. AllInv' => Delivered'
    BY AllDelivered, PTL
  <2>3. QED
    BY <2>1, <2>2, NextIndInv DEF AllInv, ChannelInv
<1>2. ASSUME NEW e \in Ends
      PROVE  /\ Peer(e) \in Ends /\ Len(sent[e]) \in Nat /\ Len(recv[e]) \in Nat
             /\ recv[e] \in Seq(Words) /\ recv'[e] \in Seq(Words)
             /\ sent[e] \in Seq(Kinds)
             /\ Len(sent'[e]) \in Nat /\ Len(recv'[e]) \in Nat
  <2>1. recv'[e] \in Seq(Words) /\ sent'[e] \in Seq(Kinds)
    BY <1>1 DEF IndInv, RestOK
  <2>2. recv[e] \in Seq(Words) /\ sent[e] \in Seq(Kinds)
    BY <1>1 DEF IndInv, RestOK
  <2>3. Peer(e) \in Ends
    BY DEF Peer, Ends
  <2>4. QED
    BY <2>1, <2>2, <2>3
<1>3. /\ Sent = [e \in Ends |-> Len(sent[e])] /\ Sent' = [e \in Ends |-> Len(sent'[e])]
  OBVIOUS
<1>4. Handed = [e \in Ends |-> Count(Len(recv[e]))]
  <2>1. ASSUME NEW e \in Ends
        PROVE  [i \in DOMAIN recv[e] |-> WholeFrom(Peer(e), recv[e][i])] = Count(Len(recv[e]))
    <3>1. DOMAIN recv[e] = 1..Len(recv[e])
      BY <1>2
    <3>2. \A i \in 1..Len(recv[e]) : WholeFrom(Peer(e), recv[e][i]) = i
      BY <1>1 DEF Delivered
    <3>3. QED
      BY <3>1, <3>2
  <2>2. QED
    BY <2>1
<1>5. Handed' = [e \in Ends |-> Count(Len(recv'[e]))]
  <2>1. ASSUME NEW e \in Ends
        PROVE  [i \in DOMAIN recv'[e] |-> WholeFrom(Peer(e), recv[e][i])'] = Count(Len(recv'[e]))
    <3>1. DOMAIN recv'[e] = 1..Len(recv'[e])
      BY <1>2
    <3>2. \A i \in 1..Len(recv'[e]) : WholeFrom(Peer(e), recv[e][i])' = i
      BY <1>1 DEF Delivered, Peer
    <3>3. QED
      BY <3>1, <3>2
  <2>2. QED
    BY <2>1 DEF Peer
<1> HIDE DEF Sent, Handed
\* The next message of the peer is handed over.
<1>6. ASSUME NEW f \in Ends, recv'[f] # recv[f]
      PROVE  Channel!Next
  <2> DEFINE n == Len(recv[f]) + 1
  <2>1. /\ sent' = sent /\ \A e \in Ends : e # f => recv'[e] = recv[e]
    BY <1>1, <1>6, OneHears
  <2>2. Len(recv'[f]) = n /\ n <= Len(sent[Peer(f)])
    BY <1>6, ReaderMoves
  <2>3. Sent' = Sent
    BY <1>3, <2>1
  <2>4. Handed[f] = Count(n - 1) /\ Len(Handed[f]) = n - 1 /\ n \in Nat
    BY <1>2, <1>4
  <2>5. Append(Handed[f], Len(Handed[f]) + 1) = Count(n)
    BY <2>4
  <2>6. Handed' = [Handed EXCEPT ![f] = Append(Handed[f], Len(Handed[f]) + 1)]
    <3>1. Handed' = [Handed EXCEPT ![f] = Count(n)]
      BY <1>4, <1>5, <2>1, <2>2
    <3>2. QED
      BY <2>5, <3>1
  <2>7. Len(Handed[f]) < Sent[Peer(f)]
    BY <1>2, <1>3, <2>2, <2>4
  <2>8. Channel!Deliver(f)
    BY <2>3, <2>6, <2>7 DEF Channel!Deliver, Sent, Handed
  <2>9. QED
    BY <2>8 DEF Channel!Next
<1>7. CASE \A f \in Ends : recv'[f] = recv[f]
  <2>1. Handed' = Handed
    BY <1>4, <1>5, <1>7
  <2>2. ASSUME NEW e \in Ends, sent'[e] # sent[e]
        PROVE  Channel!Next
    <3>1. Len(sent'[e]) = Len(sent[e]) + 1
      BY <1>1, <1>2, <2>2, SentGrows, FramesStay
    <3>2. \A f \in Ends : f # e => sent'[f] = sent[f]
      BY <1>1, <2>2, OneSends
    <3>3. Sent' = [Sent EXCEPT ![e] = Sent[e] + 1]
      BY <1>3, <3>1, <3>2
    <3>4. Channel!Send(e)
      BY <2>1, <3>3 DEF Channel!Send, Sent, Handed
    <3>5. QED
      BY <3>4 DEF Channel!Next
  <2>3. CASE \A e \in Ends : sent'[e] = sent[e]
    <3>1. Sent' = Sent
      BY <1>3, <2>3
    <3>2. QED
      BY <2>1, <3>1 DEF Channel!vars, Sent, Handed
  <2>4. QED
    BY <2>2, <2>3
<1>8. QED
  BY <1>6, <1>7

\* As long as no posted send runs before the connection is up, nor while the header
\* of a message with a body is being written, an end hears the messages of the
\* other whole, in order, none twice and none left out: however headers without a
\* body, the handshake and the server's replies overlap, whatever the client sends
\* and when, whatever the kernel, the timers and the accept handler do, and
\* whenever a process ends.  (That a message is heard at all is not said.)
THEOREM SendsApartMakeAChannel == ApartSpec => ImplementsChannel
<1>1. Init => AllInv
  BY InitApart
<1>2. AllInv /\ [Next /\ SendsApart]_vars => AllInv'
  BY ApartStep
<1>3. Init => Channel!Init
  <2> SUFFICES ASSUME Init PROVE Channel!Init
    OBVIOUS
  <2>1. \A e \in Ends : sent[e] = <<>> /\ recv[e] = <<>>
    BY DEF Init
  <2>2. [e \in Ends |-> Len(sent[e])] = [e \in Ends |-> 0]
    BY <2>1
  <2>3. [e \in Ends |-> [i \in DOMAIN recv[e] |-> WholeFrom(Peer(e), recv[e][i])]]
          = [e \in Ends |-> <<>>]
    BY <2>1
  <2>4. QED
    BY <2>2, <2>3 DEF Channel!Init
<1>4. AllInv /\ AllInv' /\ [Next /\ SendsApart]_vars => [Channel!Next]_(Channel!vars)
  BY ChannelMoves
<1>5. QED
  BY <1>1, <1>2, <1>3, <1>4, PTL DEF ApartSpec, ImplementsChannel, Channel!Spec
=============================================================================
