------------------------ MODULE SearchCourierProofs ------------------------
(***************************************************************************)
(* Proofs about the courier with its search looper.  It takes the steps of *)
(* Courier and, at the same time, those of Looper: the search looper       *)
(* implements the looper, and the courier keeps its invariant.             *)
(***************************************************************************)
EXTENDS SearchCourier, CourierProofs

-----------------------------------------------------------------------------
(* The looper.                                                             *)

\* The invariant of the looper in terms of its flags: its counters tell no more.
LooperInv ==
    /\ started \in BOOLEAN /\ ms \in BOOLEAN /\ timer \in BOOLEAN
    /\ active \in BOOLEAN /\ hasty \in BOOLEAN
    /\ timers = IF timer THEN 1 ELSE 0
    /\ runs = IF active THEN 1 ELSE 0
    /\ started /\ ms => timer \/ active

LEMMA LooperInvHolds == LooperInv => L!TypeOK /\ LooperAwake
<1> SUFFICES ASSUME LooperInv PROVE L!TypeOK /\ LooperAwake
  OBVIOUS
<1>1. timers \in {0, 1} /\ runs \in {0, 1} /\ (timer => timers = 1)
  BY DEF LooperInv
<1>2. timers \in Nat /\ runs \in Nat /\ (timer => timers > 0)
  BY <1>1
<1>3. L!TypeOK
  BY <1>2 DEF LooperInv, L!TypeOK
<1>4. L!OneTimer /\ L!OneRun
  BY DEF LooperInv, L!OneTimer, L!OneRun
<1>5. L!Awake
  BY <1>2 DEF LooperInv, L!Awake
<1> QED
  BY <1>3, <1>4, <1>5 DEF LooperAwake

LEMMA LooperInit == L!Init => LooperInv
BY Zenon DEF L!Init, LooperInv

\* No timer is left when the one that is set is cleared, or fires.
LEMMA NoTimerLeft ==
    ASSUME LooperInv
    PROVE  /\ L!Unscheduled = 0
           /\ timers > 0 => timers - 1 = 0
           /\ ~(timers > 1)
<1>1. CASE timer
  <2>1. timers = 1
    BY <1>1, Zenon DEF LooperInv
  <2>2. L!Unscheduled = timers - 1
    BY <1>1, Zenon DEF L!Unscheduled
  <2> QED
    BY <2>1, <2>2
<1>2. CASE ~timer
  <2>1. timers = 0
    BY <1>2, Zenon DEF LooperInv
  <2>2. L!Unscheduled = timers
    BY <1>2, Zenon DEF L!Unscheduled
  <2> QED
    BY <2>1, <2>2
<1> QED
  BY <1>1, <1>2

\* A run begins when none is under way.
LEMMA OneRunAtATime ==
    ASSUME LooperInv
    PROVE  /\ ~active => runs + 1 = 1
           /\ active => runs - 1 = 0
<1>1. active => runs = 1
  BY Zenon DEF LooperInv
<1>2. ~active => runs = 0
  BY Zenon DEF LooperInv
<1> QED
  BY <1>1, <1>2

LEMMA LooperNext == LooperInv /\ [L!Next]_looperVars => LooperInv'
<1> SUFFICES ASSUME LooperInv, [L!Next]_looperVars PROVE LooperInv'
  OBVIOUS
<1>0. 0 + 1 = 1
  OBVIOUS
<1>1. ASSUME L!LoopTheLoop
      PROVE  /\ active' \in BOOLEAN /\ hasty' \in BOOLEAN /\ active'
             /\ runs' = IF active' THEN 1 ELSE 0
  <2>1. CASE ~active
    BY <1>1, <2>1, OneRunAtATime, Zenon DEF L!LoopTheLoop, LooperInv
  <2>2. CASE active
    BY <1>1, <2>2, Zenon DEF L!LoopTheLoop, LooperInv
  <2> QED
    BY <2>1, <2>2
<1>2. ASSUME NEW m \in BOOLEAN, L!ScheduleLoop(m)
      PROVE  timer' = m /\ timers' = IF timer' THEN 1 ELSE 0
  BY <1>0, <1>2, NoTimerLeft, Zenon DEF L!ScheduleLoop
<1>3. ASSUME L!UnscheduleLoop PROVE timer' = FALSE /\ timers' = 0
  BY <1>3, NoTimerLeft, Zenon DEF L!UnscheduleLoop
<1>4. CASE L!Start
  BY <1>1, <1>3, <1>4, Zenon DEF L!Start, LooperInv
<1>5. CASE L!Restart
  BY <1>2, <1>5, Zenon DEF L!Restart, L!StartLater, LooperInv
<1>6. CASE L!Stop
  BY <1>3, <1>6, Zenon DEF L!Stop, LooperInv
<1>7. ASSUME NEW m \in BOOLEAN, L!SetMs(m) PROVE LooperInv'
  BY <1>2, <1>3, <1>7, Zenon DEF L!SetMs, LooperInv
<1>8. CASE L!Tick
  <2>1. timers' = 0
    BY <1>8, NoTimerLeft, Zenon DEF L!Tick
  <2>2. timer' = FALSE
    BY <1>8, NoTimerLeft, Zenon DEF L!Tick
  <2> QED
    BY <1>1, <1>8, <2>1, <2>2, Zenon DEF L!Tick, LooperInv
<1>9. CASE L!RunDone
  <2>1. active /\ L!ScheduleLoop(ms) /\ ms' = ms /\ started' = started
    BY <1>9, Zenon DEF L!RunDone
  <2>2. ms \in BOOLEAN
    BY Zenon DEF LooperInv
  <2>3. timer' = ms /\ timers' = IF timer' THEN 1 ELSE 0
    BY <1>2, <2>1, <2>2, Zenon
  <2>4. /\ active' = hasty /\ hasty' = FALSE
        /\ runs' = IF hasty THEN 1 ELSE 0
    BY <1>9, <2>1, OneRunAtATime, Zenon DEF L!RunDone, LooperInv
  <2> QED
    BY <2>1, <2>2, <2>3, <2>4, Zenon DEF LooperInv
<1>10. CASE L!RunFails
  BY <1>3, <1>10, OneRunAtATime, Zenon DEF L!RunFails, LooperInv
<1>11. CASE UNCHANGED looperVars
  BY <1>11, Zenon DEF looperVars, LooperInv
<1> QED
  BY <1>4, <1>5, <1>6, <1>7, <1>8, <1>9, <1>10, <1>11 DEF L!Next

\* Every step of the search looper, whatever the courier does with it, is one of a looper.
LEMMA LooperStep == [LoopNext]_allVars => [L!Next]_looperVars
<1> SUFFICES ASSUME [LoopNext]_allVars PROVE [L!Next]_looperVars
  OBVIOUS
<1>1. CASE External
  BY <1>1 DEF External, OnlyCourier, CourierFetch, StartLooper, LooperTick, FetchInterval, L!Next
<1>2. CASE Digest
  BY <1>2 DEF Digest, RunDone, RunFails, RestartLooper, L!Next
<1>3. CASE CloseCourier
  BY <1>3 DEF CloseCourier, L!Next
<1>4. CASE UNCHANGED allVars
  BY <1>4 DEF allVars, looperVars
<1> QED
  BY <1>1, <1>2, <1>3, <1>4 DEF LoopNext

\* The search looper of courier.js implements the looper of looper/_looper.js: runs that
\* wait for requests, restarts after a fetch and the close of the courier included.
THEOREM SearchLooperImplementsLooper == LoopSpec => L!Spec
<1>1. LoopInit => L!Init
  BY DEF LoopInit
<1>2. [LoopNext]_allVars => [L!Next]_looperVars
  BY LooperStep
<1> QED
  BY <1>1, <1>2, PTL DEF LoopSpec, L!Spec, L!vars, looperVars

\* A started search looper with an interval is in a run or has a timer; runs do not
\* overlap and no $timeout is leaked.
THEOREM LooperStaysAwake == LoopSpec => []LooperAwake
<1>1. LoopInit => LooperInv
  BY LooperInit DEF LoopInit
<1>2. LooperInv /\ [LoopNext]_allVars => LooperInv'
  BY LooperStep, LooperNext
<1>3. LooperInv => LooperAwake
  BY LooperInvHolds
<1> QED
  BY <1>1, <1>2, <1>3, PTL DEF LoopSpec

-----------------------------------------------------------------------------
(* The courier.                                                            *)

\* Of the steps of the whole, all but the failure of a run are steps of the courier.
LEMMA CourierStep == [LoopNext]_allVars => [Next]_vars \/ RunFails
<1> SUFFICES ASSUME [LoopNext]_allVars PROVE [Next]_vars \/ RunFails
  OBVIOUS
<1>1. CASE External
  BY <1>1 DEF External, CourierFetch, StartLooper, LooperTick, FetchInterval, Run, Next
<1>2. CASE Digest
  BY <1>2 DEF Digest, RunDone, RestartLooper, Run, Next
<1>3. CASE CloseCourier
  BY <1>3 DEF CloseCourier, Next
<1>4. CASE UNCHANGED allVars
  BY <1>4 DEF allVars
<1> QED
  BY <1>1, <1>2, <1>3, <1>4 DEF LoopNext

\* A run that fails is a fatal error.
LEMMA LoopInvariant == IInv /\ [LoopNext]_allVars => IInv'
<1> SUFFICES ASSUME IInv, [LoopNext]_allVars PROVE IInv'
  OBVIOUS
<1>1. CASE [Next]_vars
  BY <1>1, NextInvariant
<1>2. CASE RunFails
  <2>1. /\ UNCHANGED <<req, promise, activeFetchCount, debounced, batches>>
        /\ fatal' = TRUE /\ singleCall' \subseteq Sources /\ closed' \in BOOLEAN
    BY <1>2 DEF RunFails, IInv, TypeOK
  <2> QED
    BY <2>1, OthersInvariant
<1> QED
  BY <1>1, <1>2, CourierStep

LEMMA LoopInvariantHolds == LoopSpec => []IInv
<1>1. LoopInit => IInv
  BY InitInvariant DEF LoopInit
<1> QED
  BY <1>1, LoopInvariant, PTL DEF LoopSpec

\* The search looper fetches, and its failures end, without breaking what the courier
\* promises: the count of a source, the promise of a consumer, the way of a request.
THEOREM LoopKeepsCourier ==
    LoopSpec => [](LoadingMeansFetching /\ OneRequestPerPromise /\ RequestedIsFetched)
<1>1. IInv => LoadingMeansFetching /\ OneRequestPerPromise /\ RequestedIsFetched
  BY HeldOnce DEF IInv
<1> QED
  BY <1>1, LoopInvariantHolds, PTL

\* The variables of the courier and its looper stay in their types: the runs wait for
\* requests that were made, the fetches for promises.
THEOREM LoopTypeCorrect == LoopSpec => []LoopTypeOK
<1> DEFINE Waits == awaited \subseteq Requests /\ fetches \subseteq SUBSET Requests
<1>1. LoopInit => LooperInv /\ Waits
  BY LooperInit DEF LoopInit
<1>2. LooperInv /\ [LoopNext]_allVars => LooperInv'
  BY LooperStep, LooperNext
<1>3. IInv /\ Waits /\ [LoopNext]_allVars => Waits'
  <2> SUFFICES ASSUME IInv, Waits, [LoopNext]_allVars PROVE Waits'
    OBVIOUS
  <2>1. Inactive \subseteq Requests
    BY RequestTypes DEF IInv, Inactive, Queue
  <2>2. \A begins : Run(begins) => awaited' = awaited \/ awaited' = Inactive
    BY DEF Run
  <2>3. awaited' = awaited \/ awaited' = Inactive
    BY <2>2 DEF LoopNext, External, OnlyCourier, CourierFetch, StartLooper, LooperTick,
       FetchInterval, Digest, RunDone, RunFails, RestartLooper, CloseCourier, allVars
  <2> DEFINE marked == {req[r].defer : r \in {q \in DOMAIN req :
                                               req'[q].requested /\ ~req[q].requested}}
  <2>4. marked \subseteq Requests
    BY RequestTypes DEF IInv
  <2>5. \/ fetches' = fetches \/ fetches' = fetches \cup {marked}
        \/ \E F \in fetches : fetches' = fetches \ {F}
    BY DEF LoopNext, External, OnlyCourier, CourierFetch, StartLooper, LooperTick,
       FetchInterval, Digest, RunDone, RunFails, RestartLooper, CloseCourier, allVars
  <2> HIDE DEF marked
  <2> QED
    BY <2>1, <2>3, <2>4, <2>5
<1>4. IInv /\ LooperInv /\ Waits => LoopTypeOK
  BY LooperInvHolds DEF IInv, LoopTypeOK
<1> QED
  BY <1>1, <1>2, <1>3, <1>4, LoopInvariantHolds, PTL DEF LoopSpec

=============================================================================
