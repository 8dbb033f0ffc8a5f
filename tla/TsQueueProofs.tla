--------------------------- MODULE TsQueueProofs ---------------------------
(***************************************************************************)
(* Theorems about Ts_queue, for any set of producers, any messages and any *)
(* bound: the lock discipline, that pop_front() never meets an empty       *)
(* deque, and that the queue implements MessageQueue.  IndInv, the         *)
(* conjunction of TsQueue's invariants with ItemsInHand, is inductive.     *)
(***************************************************************************)
EXTENDS TsQueue, TLAPS

\* A thread holds a message exactly while it delivers or handles it.
ItemsInHand ==
    /\ \A p \in Producers : pc[p] # "idle" => item[p] \in Items
    /\ item[Consumer] # NoItem <=> pc[Consumer] = "handle"

IndInv ==
    /\ TypeOK
    /\ LockOwnership
    /\ PopHasMessage
    /\ ItemsInHand

\* The sets a reader of a leaf needs to know that two positions differ.
USE ThreadsAssumption, ItemsAssumption, BoundAssumption DEF Threads

LEMMA InitIndInv == Init => IndInv
<1> SUFFICES ASSUME Init PROVE IndInv
  OBVIOUS
<1> USE DEF Init, ProducerStates, ConsumerStates
<1>1. pc \in [Threads -> {"idle", "wait", "drain"}]
  OBVIOUS
<1>2. pc[Consumer] \in {"wait", "drain"} /\ \A p \in Producers : pc[p] = "idle"
  OBVIOUS
<1>3. TypeOK
  BY <1>1, <1>2 DEF TypeOK
<1>4. LockOwnership
  BY <1>2 DEF LockOwnership, InQueueScope, InBlockingScope
<1>5. PopHasMessage
  BY <1>2 DEF PopHasMessage
<1>6. ItemsInHand
  BY <1>2 DEF ItemsInHand
<1>7. QED
  BY <1>3, <1>4, <1>5, <1>6 DEF IndInv

\* A call of emplace_back, from its entry to its return, keeps the invariant.
LEMMA EmplaceBackStep ==
  ASSUME IndInv, NEW p \in Producers,
         EmplaceBack(p) \/ \E m \in Items : CallEmplaceBack(p, m)
  PROVE  IndInv'
<1> USE DEF IndInv, TypeOK, LockOwnership, PopHasMessage, ItemsInHand,
            InQueueScope, InBlockingScope, ProducerStates, ConsumerStates, Goto
<1>1. ASSUME NEW m \in Items, CallEmplaceBack(p, m) PROVE IndInv'
  BY <1>1 DEF CallEmplaceBack
<1>2. CASE LockQueue(p)
  BY <1>2 DEF LockQueue
<1>3. CASE AppendItem(p)
  BY <1>3 DEF AppendItem
<1>4. CASE LockBlocking(p, "notify")
  BY <1>4 DEF LockBlocking
<1>5. CASE NotifyOne(p)
  BY <1>5 DEF NotifyOne
<1>6. CASE UnlockBlocking(p, "unlockQueue")
  BY <1>6 DEF UnlockBlocking
<1>7. CASE UnlockQueue(p)
  BY <1>7 DEF UnlockQueue
<1>8. QED
  BY <1>1, <1>2, <1>3, <1>4, <1>5, <1>6, <1>7 DEF EmplaceBack

\* So does every step of the consumer, woken with or without a notification.
LEMMA ConsumerStep ==
  ASSUME IndInv, Consume \/ SpuriousWakeup
  PROVE  IndInv'
<1> USE DEF IndInv, TypeOK, LockOwnership, PopHasMessage, ItemsInHand,
            InQueueScope, InBlockingScope, ProducerStates, ConsumerStates, Goto
<1>1. CASE WaitTestsEmpty
  BY <1>1 DEF WaitTestsEmpty
<1>2. CASE LockBlocking(Consumer, "sleep")
  BY <1>2 DEF LockBlocking
<1>3. CASE Sleep
  BY <1>3 DEF Sleep
<1>4. CASE WakeUp
  BY <1>4 DEF WakeUp
<1>5. CASE UnlockBlocking(Consumer, "wait")
  BY <1>5 DEF UnlockBlocking
<1>6. CASE DrainTestsEmpty
  BY <1>6 DEF DrainTestsEmpty
<1>7. CASE PopFront
  BY <1>7 DEF PopFront
<1>8. CASE HandleMessage
  BY <1>8 DEF HandleMessage
<1>9. CASE SpuriousWakeup
  BY <1>9 DEF SpuriousWakeup
<1>10. QED
  BY <1>1, <1>2, <1>3, <1>4, <1>5, <1>6, <1>7, <1>8, <1>9 DEF Consume

LEMMA NextIndInv == IndInv /\ [Next]_vars => IndInv'
<1> SUFFICES ASSUME IndInv, [Next]_vars PROVE IndInv'
  OBVIOUS
<1>1. CASE UNCHANGED vars
  BY <1>1 DEF vars, IndInv, TypeOK, LockOwnership, PopHasMessage, ItemsInHand,
              InQueueScope, InBlockingScope
<1>2. CASE Next
  BY <1>2, EmplaceBackStep, ConsumerStep DEF Next
<1>3. QED
  BY <1>1, <1>2

LEMMA IndInvHolds == Spec => []IndInv
  BY InitIndInv, NextIndInv, PTL DEF Spec

\* Every variable of the queue keeps its type.
THEOREM TypeCorrect == Spec => []TypeOK
<1>1. IndInv => TypeOK
  BY DEF IndInv
<1>2. QED
  BY <1>1, IndInvHolds, PTL

\* The scopes of queueMutex and muxBlocking exclude each other's threads.
THEOREM LocksOwned == Spec => []LockOwnership
<1>1. IndInv => LockOwnership
  BY DEF IndInv
<1>2. QED
  BY <1>1, IndInvHolds, PTL

\* The check of empty() still holds when pop_front() runs, because only the
\* consumer removes messages.
THEOREM PopsAreSafe == Spec => []PopHasMessage
<1>1. IndInv => PopHasMessage
  BY DEF IndInv
<1>2. QED
  BY <1>1, IndInvHolds, PTL

-----------------------------------------------------------------------------
(* Refinement: AppendItem is Push, PopFront is Pop, HandleMessage is        *)
(* Handled, and every other step is a stutter of the abstract queue.        *)

LEMMA StepRefines == IndInv /\ [Next]_vars => [Abstract!Next]_(Abstract!vars)
<1> SUFFICES ASSUME IndInv, [Next]_vars
             PROVE  Abstract!Next \/ UNCHANGED <<deqQueue, item[Consumer]>>
  BY DEF Abstract!vars
<1> USE DEF IndInv, TypeOK, ItemsInHand, ProducerStates, ConsumerStates, Goto
<1>1. ASSUME NEW p \in Producers, NEW m \in Items, CallEmplaceBack(p, m)
      PROVE  UNCHANGED <<deqQueue, item[Consumer]>>
  BY <1>1 DEF CallEmplaceBack
<1>2. ASSUME NEW p \in Producers, AppendItem(p) PROVE Abstract!Next
  <2>1. Abstract!Push(item[p])
    BY <1>2 DEF AppendItem, Abstract!Push
  <2>2. item[p] \in Items
    BY <1>2 DEF AppendItem
  <2>3. QED
    BY <2>1, <2>2 DEF Abstract!Next
<1>3. ASSUME NEW p \in Producers, EmplaceBack(p), ~AppendItem(p)
      PROVE  UNCHANGED <<deqQueue, item[Consumer]>>
  BY <1>3 DEF EmplaceBack, LockQueue, LockBlocking, NotifyOne, UnlockBlocking, UnlockQueue
<1>4. CASE PopFront
  <2>1. Abstract!Pop
    BY <1>4 DEF PopFront, Abstract!Pop
  <2>2. QED
    BY <2>1 DEF Abstract!Next
<1>5. CASE HandleMessage
  <2>1. Abstract!Handled
    BY <1>5 DEF HandleMessage, Abstract!Handled
  <2>2. QED
    BY <2>1 DEF Abstract!Next
<1>6. ASSUME Consume \/ SpuriousWakeup, ~PopFront, ~HandleMessage
      PROVE  UNCHANGED <<deqQueue, item[Consumer]>>
  BY <1>6 DEF Consume, WaitTestsEmpty, LockBlocking, Sleep, WakeUp, UnlockBlocking,
              DrainTestsEmpty, SpuriousWakeup
<1>7. CASE UNCHANGED vars
  BY <1>7 DEF vars
<1>8. QED
  BY <1>1, <1>2, <1>3, <1>4, <1>5, <1>6, <1>7 DEF Next

\* Whatever the interleaving of its locks, Ts_queue is a FIFO queue.
THEOREM QueueRefinement == Spec => ImplementsQueue
<1>1. Init => Abstract!Init
  BY DEF Init, Abstract!Init
<1>2. QED
  BY <1>1, StepRefines, IndInvHolds, PTL DEF Spec, ImplementsQueue, Abstract!Spec
=============================================================================
