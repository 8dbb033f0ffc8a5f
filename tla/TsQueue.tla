------------------------------ MODULE TsQueue ------------------------------
(***************************************************************************)
(* Ts_queue<T> of NetCommon/NetTsqueue.h, lock by lock, with the threads   *)
(* that use one: asio threads that call emplace_back() and the one thread  *)
(* that consumes.  A consumer is either                                    *)
(*   - blocking: server_Interface::Update(-1, true) in a loop, that is     *)
(*     wait(), then empty()/pop_front()/OnMessage() until empty, or        *)
(*   - polling: the client's main loop, empty()/pop_front()/switch.        *)
(*                                                                         *)
(* Two mutexes and a condition variable: emplace_back() takes queueMutex   *)
(* and, still holding it, muxBlocking to notify; wait() tests empty() under *)
(* queueMutex, RELEASES it, and only then locks muxBlocking to sleep.      *)
(***************************************************************************)
EXTENDS Naturals, Sequences

CONSTANTS Producers,  \* threads that call emplace_back
          Consumer,   \* the thread that waits and pops
          Items,      \* the messages they deliver
          NoItem,     \* "no message in hand"
          NoThread,   \* "the mutex is free"
          MaxLen      \* bound on the queue's length while the consumer is awake

Threads == Producers \cup {Consumer}

ASSUME ThreadsAssumption ==
    /\ Consumer \notin Producers
    /\ NoThread \notin Threads
ASSUME ItemsAssumption == NoItem \notin Items
ASSUME BoundAssumption == MaxLen \in Nat

VARIABLES blocking,     \* whether the consumer calls wait() first (bWait); chosen once
          deqQueue,     \* std::deque<T>
          queueMutex,   \* holder of queueMutex, or NoThread
          muxBlocking,  \* holder of muxBlocking, or NoThread
          cvBlocking,   \* threads asleep in cvBlocking.wait
          pc,           \* where each thread is
          item          \* producer: its argument; consumer: the message popped

vars == <<blocking, deqQueue, queueMutex, muxBlocking, cvBlocking, pc, item>>

ProducerStates == {"idle", "lockQueue", "append", "lockBlocking", "notify",
                   "unlockBlocking", "unlockQueue"}
ConsumerStates == {"wait", "lockBlocking", "sleep", "asleep", "unlockBlocking",
                   "drain", "pop", "handle"}

Init ==
    /\ blocking \in BOOLEAN
    /\ deqQueue = <<>>
    /\ queueMutex = NoThread
    /\ muxBlocking = NoThread
    /\ cvBlocking = {}
    /\ pc = [t \in Threads |-> IF t # Consumer THEN "idle"
                               ELSE IF blocking THEN "wait" ELSE "drain"]
    /\ item = [t \in Threads |-> NoItem]

Goto(t, l) == pc' = [pc EXCEPT ![t] = l]

-----------------------------------------------------------------------------
(* emplace_back(item), run by a producer.                                  *)

\* The caller has a message.  MaxLen bounds the queue while the consumer is awake.
\* While it sleeps a further message may arrive: pushes begun before it slept
\* leave fewer than MaxLen + Cardinality(Producers), so 2 * MaxLen bars none.
CallEmplaceBack(p, m) ==
    /\ pc[p] = "idle"
    /\ \/ Len(deqQueue) < MaxLen
       \/ Consumer \in cvBlocking /\ Len(deqQueue) < 2 * MaxLen
    /\ item' = [item EXCEPT ![p] = m]
    /\ Goto(p, "lockQueue")
    /\ UNCHANGED <<blocking, deqQueue, queueMutex, muxBlocking, cvBlocking>>

\* Mutation of LockQueue: the argument is moved from before it is stored.
LockQueueMovesItem(p) ==
    /\ pc[p] = "lockQueue"
    /\ queueMutex = NoThread
    /\ queueMutex' = p
    /\ item' = [item EXCEPT ![p] = NoItem]
    /\ Goto(p, "append")
    /\ UNCHANGED <<blocking, deqQueue, muxBlocking, cvBlocking>>

\* std::lock_guard<std::mutex> lock(queueMutex);
LockQueue(p) ==
    /\ pc[p] = "lockQueue"
    /\ queueMutex = NoThread
    /\ queueMutex' = p
    /\ Goto(p, "append")
    /\ UNCHANGED <<blocking, deqQueue, muxBlocking, cvBlocking, item>>

\* Mutation of AppendItem: emplace_front where emplace_back is meant.
AppendItemInFront(p) ==
    /\ pc[p] = "append"
    /\ deqQueue' = <<item[p]>> \o deqQueue
    /\ Goto(p, "lockBlocking")
    /\ UNCHANGED <<blocking, queueMutex, muxBlocking, cvBlocking, item>>

\* deqQueue.emplace_back(std::move(item));
AppendItem(p) ==
    /\ pc[p] = "append"
    /\ deqQueue' = Append(deqQueue, item[p])
    /\ Goto(p, "lockBlocking")
    /\ UNCHANGED <<blocking, queueMutex, muxBlocking, cvBlocking, item>>

\* std::unique_lock<std::mutex> ul(muxBlocking); also in wait(), below.
LockBlocking(t, next) ==
    /\ pc[t] = "lockBlocking"
    /\ muxBlocking = NoThread
    /\ muxBlocking' = t
    /\ Goto(t, next)
    /\ UNCHANGED <<blocking, deqQueue, queueMutex, cvBlocking, item>>

\* Mutation of NotifyOne: the call is missing.
NotifyNobody(p) ==
    /\ pc[p] = "notify"
    /\ Goto(p, "unlockBlocking")
    /\ UNCHANGED <<blocking, deqQueue, queueMutex, muxBlocking, cvBlocking, item>>

\* cvBlocking.notify_one(): the one thread that can be waiting is woken.
NotifyOne(p) ==
    /\ pc[p] = "notify"
    /\ cvBlocking' = cvBlocking \ {Consumer}
    /\ Goto(p, "unlockBlocking")
    /\ UNCHANGED <<blocking, deqQueue, queueMutex, muxBlocking, item>>

\* End of a scope that holds ul: the mutex is released.
UnlockBlocking(t, next) ==
    /\ pc[t] = "unlockBlocking"
    /\ muxBlocking' = NoThread
    /\ Goto(t, next)
    /\ UNCHANGED <<blocking, deqQueue, queueMutex, cvBlocking, item>>

\* End of emplace_back: the lock_guard releases queueMutex last.
UnlockQueue(p) ==
    /\ pc[p] = "unlockQueue"
    /\ queueMutex' = NoThread
    /\ item' = [item EXCEPT ![p] = NoItem]
    /\ Goto(p, "idle")
    /\ UNCHANGED <<blocking, deqQueue, muxBlocking, cvBlocking>>

EmplaceBack(p) ==
    \/ LockQueue(p)
    \/ AppendItem(p)
    \/ LockBlocking(p, "notify")
    \/ NotifyOne(p)
    \/ UnlockBlocking(p, "unlockQueue")
    \/ UnlockQueue(p)

-----------------------------------------------------------------------------
(* wait(), run by a blocking consumer.                                     *)

\* while (empty()): empty() locks queueMutex, looks, and unlocks it.
WaitTestsEmpty ==
    /\ pc[Consumer] = "wait"
    /\ queueMutex = NoThread
    /\ Goto(Consumer, IF deqQueue = <<>> THEN "lockBlocking" ELSE "drain")
    /\ UNCHANGED <<blocking, deqQueue, queueMutex, muxBlocking, cvBlocking, item>>

\* Mutation of Sleep: a wait that keeps the mutex it was given.
SleepHoldingLock ==
    /\ pc[Consumer] = "sleep"
    /\ cvBlocking' = cvBlocking \cup {Consumer}
    /\ Goto(Consumer, "asleep")
    /\ UNCHANGED <<blocking, deqQueue, queueMutex, muxBlocking, item>>

\* cvBlocking.wait(ul): releases muxBlocking and falls asleep in one step.
\* The queue is not looked at again.
Sleep ==
    /\ pc[Consumer] = "sleep"
    /\ cvBlocking' = cvBlocking \cup {Consumer}
    /\ muxBlocking' = NoThread
    /\ Goto(Consumer, "asleep")
    /\ UNCHANGED <<blocking, deqQueue, queueMutex, item>>

\* A condition variable may wake its waiters with no notification.
SpuriousWakeup ==
    /\ Consumer \in cvBlocking
    /\ cvBlocking' = cvBlocking \ {Consumer}
    /\ UNCHANGED <<blocking, deqQueue, queueMutex, muxBlocking, pc, item>>

\* A woken thread leaves cvBlocking.wait(ul) once it has muxBlocking again.
WakeUp ==
    /\ pc[Consumer] = "asleep"
    /\ Consumer \notin cvBlocking
    /\ muxBlocking = NoThread
    /\ muxBlocking' = Consumer
    /\ Goto(Consumer, "unlockBlocking")
    /\ UNCHANGED <<blocking, deqQueue, queueMutex, cvBlocking, item>>

-----------------------------------------------------------------------------
(* The consumer's loop: while (!empty()) { pop_front(); OnMessage(); }     *)

\* Mutation of DrainTestsEmpty: the wake-up is taken for a message.
DrainTrustsWakeup ==
    /\ pc[Consumer] = "drain"
    /\ queueMutex = NoThread
    /\ Goto(Consumer, "pop")
    /\ UNCHANGED <<blocking, deqQueue, queueMutex, muxBlocking, cvBlocking, item>>

\* empty() again; a blocking consumer leaves Update() and calls it anew, a
\* polling one simply looks again.
DrainTestsEmpty ==
    /\ pc[Consumer] = "drain"
    /\ queueMutex = NoThread
    /\ Goto(Consumer, IF deqQueue # <<>> THEN "pop"
                      ELSE IF blocking THEN "wait" ELSE "drain")
    /\ UNCHANGED <<blocking, deqQueue, queueMutex, muxBlocking, cvBlocking, item>>

\* pop_front(): front() of an empty deque is undefined, see PopHasMessage.
PopFront ==
    /\ pc[Consumer] = "pop"
    /\ queueMutex = NoThread
    /\ deqQueue # <<>>
    /\ item' = [item EXCEPT ![Consumer] = Head(deqQueue)]
    /\ deqQueue' = Tail(deqQueue)
    /\ Goto(Consumer, "handle")
    /\ UNCHANGED <<blocking, queueMutex, muxBlocking, cvBlocking>>

\* OnMessage(msg.remote, msg.msg), or the switch of the client's main loop.
HandleMessage ==
    /\ pc[Consumer] = "handle"
    /\ item' = [item EXCEPT ![Consumer] = NoItem]
    /\ Goto(Consumer, "drain")
    /\ UNCHANGED <<blocking, deqQueue, queueMutex, muxBlocking, cvBlocking>>

Consume ==
    \/ WaitTestsEmpty
    \/ LockBlocking(Consumer, "sleep")
    \/ Sleep
    \/ WakeUp
    \/ UnlockBlocking(Consumer, "wait")
    \/ DrainTestsEmpty
    \/ PopFront
    \/ HandleMessage

-----------------------------------------------------------------------------
Next ==
    \/ \E p \in Producers, m \in Items : CallEmplaceBack(p, m)
    \/ \E p \in Producers : EmplaceBack(p)
    \/ Consume
    \/ SpuriousWakeup

Spec == Init /\ [][Next]_vars

(***************************************************************************)
(* Fairness.  A thread that can run is run.  A thread that wants a mutex    *)
(* that is free again and again gets it: std::mutex does not say so, the   *)
(* schedulers it runs on do.                                               *)
(***************************************************************************)
ThreadFairness ==
    /\ \A p \in Producers : /\ WF_vars(EmplaceBack(p))
                            /\ SF_vars(LockQueue(p))
                            /\ SF_vars(LockBlocking(p, "notify"))
    /\ SF_vars(Consume)

\* The other end keeps sending: each producer has a message again and again.  A
\* polling consumer gets no such help: its peers may fall silent at any time.
Traffic ==
    \A p \in Producers :
        WF_vars(blocking /\ \E m \in Items : CallEmplaceBack(p, m))

FairSpec == Spec /\ ThreadFairness /\ Traffic

-----------------------------------------------------------------------------
(* Properties.                                                             *)

TypeOK ==
    /\ blocking \in BOOLEAN
    /\ deqQueue \in Seq(Items)
    /\ queueMutex \in Threads \cup {NoThread}
    /\ muxBlocking \in Threads \cup {NoThread}
    /\ cvBlocking \subseteq {Consumer}
    /\ pc \in [Threads -> ProducerStates \cup ConsumerStates]
    /\ \A p \in Producers : pc[p] \in ProducerStates
    /\ pc[Consumer] \in ConsumerStates
    /\ item \in [Threads -> Items \cup {NoItem}]

\* The states in which a producer holds queueMutex.
InQueueScope(p) ==
    pc[p] \in {"append", "lockBlocking", "notify", "unlockBlocking", "unlockQueue"}

\* The states in which a thread holds muxBlocking.
InBlockingScope(t) == pc[t] \in {"notify", "sleep", "unlockBlocking"}

\* Each mutex is held by exactly the thread whose position is inside its
\* scope, and a sleeping consumer holds neither: with this no two threads are
\* ever inside emplace_back's critical section, whatever wait() interleaves.
LockOwnership ==
    /\ queueMutex # Consumer
    /\ \A p \in Producers : InQueueScope(p) <=> queueMutex = p
    /\ \A t \in Threads : InBlockingScope(t) <=> muxBlocking = t
    /\ Consumer \in cvBlocking => pc[Consumer] = "asleep"

\* Update() and the client's loop test empty() in one critical section and
\* pop_front() in another; no pop ever meets an empty deque (whose front() is
\* undefined), although producers run between the two.
PopHasMessage == pc[Consumer] = "pop" => deqQueue # <<>>

\* Lock by lock, Ts_queue is the first-in first-out queue of MessageQueue: a
\* message is neither lost, duplicated nor overtaken.
Abstract == INSTANCE MessageQueue WITH queue <- deqQueue, inHand <- item[Consumer]
ImplementsQueue == Abstract!Spec

\* wait() may miss a notification: emplace_back() can run between its empty()
\* and its cvBlocking.wait(), and the consumer then sleeps on a queue that is
\* not empty.  What the code still gives is that the NEXT message wakes it, so
\* while the peers keep sending (Traffic) no message waits for ever; a polling
\* consumer handles it with no further message.
MessageHandled == deqQueue # <<>> ~> pc[Consumer] = "handle"

\* emplace_back() runs on the asio thread and locks two mutexes; it always
\* returns, so the I/O of every connection goes on.
PushReturns == \A p \in Producers : pc[p] = "lockQueue" ~> pc[p] = "idle"
=============================================================================
