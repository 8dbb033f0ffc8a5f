--------------------------- MODULE WebPageProofs ---------------------------
(***************************************************************************)
(* Proofs about WebPage, for every length of the buffer and of the page.   *)
(***************************************************************************)
EXTENDS WebPage, TLAPS

\* Before the reads start nobody has signalled.
NotStarted == main \in {"connect", "grab"} => read = "none" /\ n = 0 /\ io = "run"

\* The chain of reads has ended when it has signalled, or is about to; it signals
\* once.
Signalled ==
    /\ n = 1 \/ io \in {"lock", "notify"} \/ main \in {"join", "printed"} => read = "none"
    /\ io = "lock" => n = 0

\* A read has taken bytes that have arrived.
ReadArrived == read = "ok" => buffer + length <= sent

\* The inductive invariant.
IndInv == TypeOK /\ NotStarted /\ Signalled /\ ReadArrived

LEMMA InitInd == Init => IndInv
<1> SUFFICES ASSUME Init PROVE IndInv
    OBVIOUS
<1>1. length \in 0..Chunk /\ sent \in 0..page /\ buffer \in 0..sent
    BY SizesAssumption DEF Init
<1>2. TypeOK
  <2>0. notified \in BOOLEAN /\ mu \in {"free", "main", "io"}
      BY Zenon DEF Init
  <2>1. n \in 0..1 /\ page \in 1..MaxPage
      BY DEF Init
  <2>2. /\ main \in {"connect", "grab", "request", "lock", "test", "asleep", "join", "printed"}
        /\ io \in {"run", "lock", "notify", "stopped"}
      BY DEF Init
  <2>3. /\ socket \in {"closed", "connected", "failed"}
        /\ server \in {"silent", "sending", "closed", "reset"}
        /\ read \in {"none", "pending", "ok", "failed"}
      BY DEF Init
  <2> QED BY <1>1, <2>0, <2>1, <2>2, <2>3 DEF TypeOK
<1>3. NotStarted /\ Signalled /\ ReadArrived
    BY DEF Init, NotStarted, Signalled, ReadArrived
<1> QED BY <1>2, <1>3 DEF IndInv

LEMMA NextInd == IndInv /\ [Next]_vars => IndInv'
<1> SUFFICES ASSUME IndInv, [Next]_vars PROVE IndInv'
    OBVIOUS
<1> USE SizesAssumption DEF IndInv, TypeOK, NotStarted, Signalled, ReadArrived,
        semVars, netVars, readVars
<1>1. CASE Connect
    BY <1>1 DEF Connect
<1>2. CASE StartGrabbing
    BY <1>2 DEF StartGrabbing, GrabData
<1>3. CASE WriteRequest
    BY <1>3 DEF WriteRequest
<1>4. CASE WaitLocks
    BY <1>4 DEF WaitLocks
<1>5. CASE WaitSleeps
    BY <1>5 DEF WaitSleeps
<1>6. CASE WaitTakes
    BY <1>6 DEF WaitTakes
<1>7. CASE StopAndPrint
    BY <1>7 DEF StopAndPrint
<1>8. CASE ReadError
    BY <1>8 DEF ReadError
<1>9. CASE ReadMore
    BY <1>9 DEF ReadMore, GrabData
<1>10. CASE ReadFinished
    BY <1>10 DEF ReadFinished
<1>11. CASE SignalCounts
    BY <1>11 DEF SignalCounts
<1>12. CASE SignalNotifies
    BY <1>12 DEF SignalNotifies
<1>13. CASE SpuriousWakeup
    BY <1>13 DEF SpuriousWakeup
<1>14. CASE Arrive
    BY <1>14 DEF Arrive
<1>15. CASE ServerCloses \/ ServerResets
    BY <1>15 DEF ServerCloses, ServerResets
<1>16. CASE ReadSome
    BY <1>16 DEF ReadSome
<1>17. CASE ReadFails
    BY <1>17 DEF ReadFails
<1>18. CASE UNCHANGED vars
    BY <1>18 DEF vars
<1> QED BY <1>1, <1>2, <1>3, <1>4, <1>5, <1>6, <1>7, <1>8, <1>9, <1>10, <1>11, <1>12,
           <1>13, <1>14, <1>15, <1>16, <1>17, <1>18 DEF Next, Main, Handlers

LEMMA Invariance == Spec => []IndInv
BY InitInd, NextInd, PTL DEF Spec

\* The semaphore stays at 0 or 1 and the buffer holds only what has arrived.
THEOREM TypeCorrect == Spec => []TypeOK
<1>1. IndInv => TypeOK
    BY DEF IndInv
<1> QED BY <1>1, Invariance, PTL

\* When wait() returns, the chain of reads has ended: vBuffer and the socket
\* belong to the main thread (GetWebPage.cpp:135-159).
THEOREM MainAlone == Spec => []NothingInFlight
<1>1. IndInv => NothingInFlight
    BY DEF IndInv, Signalled, NothingInFlight
<1> QED BY <1>1, Invariance, PTL
=============================================================================
