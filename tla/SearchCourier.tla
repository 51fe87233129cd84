--------------------------- MODULE SearchCourier ---------------------------
(***************************************************************************)
(* The courier with its search looper (src/ui/public/courier/courier.js,   *)
(* looper/search.js): the requests of Courier, fetched by a Looper whose   *)
(* function sends every request that has not started and is done when each *)
(* of them completed or was aborted.                                       *)
(***************************************************************************)
EXTENDS Courier

CONSTANT MaxFetches   \* bound: courier.fetch calls under way

VARIABLES started, ms, timers, timer, active, runs, hasty,   \* the looper
          awaited,   \* requests the active run waits for
          fetches    \* courier.fetch calls under way: the promises each waits for

looperVars == <<started, ms, timers, timer, active, runs, hasty>>
allVars == <<vars, looperVars, awaited, fetches>>

L == INSTANCE Looper WITH QueuesHasty <- TRUE

LoopTypeOK == TypeOK /\ L!TypeOK /\ awaited \subseteq Requests /\ fetches \subseteq SUBSET Requests

LoopInit == Init /\ L!Init /\ awaited = {} /\ fetches = {}

-----------------------------------------------------------------------------
\* getCompleteOrAbortedPromise of every request awaited: all settled, or one rejected.
\* The mutant waits for getCompletePromise.
Rejected == active /\ \E r \in awaited : promise[req[r].defer] = "rejected"
EndedComplete == active /\ ~Rejected /\ awaited \subseteq Stopped \ Aborted
Ended == active /\ ~Rejected /\ awaited \subseteq Stopped

\* The looper's function, when a run begins.
Inactive == {r \in Queue : ~req[r].started}
Run(begins) ==
    IF begins THEN SearchLoop /\ awaited' = Inactive ELSE UNCHANGED <<vars, awaited>>

\* courier.start, and the looper's timer.
StartLooper == L!Start /\ Run(~active) /\ UNCHANGED fetches
LooperTick == L!Tick /\ Run(~active) /\ UNCHANGED fetches

\* The run is done, or fails, in the digest that settles the last promise.
RunDone == Ended /\ L!RunDone /\ Run(hasty) /\ UNCHANGED fetches
RunFails ==
    /\ Rejected /\ L!RunFails
    /\ fatal' = TRUE
    /\ UNCHANGED <<req, promise, activeFetchCount, debounced, batches, singleCall, closed>>
    /\ UNCHANGED <<awaited, fetches>>

\* courier.fetch; once all of its promises are resolved the looper is restarted.
CourierFetch ==
    /\ FetchQueued /\ Cardinality(fetches) < MaxFetches
    /\ fetches' = IF Thrown # {} THEN fetches
                  ELSE fetches \cup {{req[r].defer : r \in {q \in DOMAIN req :
                                        req'[q].requested /\ ~req[q].requested}}}
    /\ UNCHANGED <<looperVars, awaited>>
RestartLooper(F) ==
    /\ \A d \in F : promise[d] \in {"resolved", "bogus"}
    /\ L!Restart
    /\ fetches' = fetches \ {F}
    /\ UNCHANGED <<vars, awaited>>

\* courier.fetchInterval, when the refresh interval of the time filter changes.
FetchInterval(m) == L!SetMs(m) /\ UNCHANGED <<vars, awaited, fetches>>

CloseCourier == Close /\ L!Stop /\ UNCHANGED <<awaited, fetches>>

OnlyCourier == UNCHANGED <<looperVars, awaited, fetches>>
External ==
    \/ (Consume \/ Advance) /\ OnlyCourier
    \/ CourierFetch
    \/ StartLooper \/ LooperTick
    \/ \E m \in BOOLEAN : FetchInterval(m)
Digest == RunDone \/ RunFails \/ \E F \in fetches : RestartLooper(F)

LoopNext ==
    \/ ~fatal /\ ~Ended /\ ~Rejected /\ External
    \/ ~fatal /\ Digest
    \/ CloseCourier

LoopSpec == LoopInit /\ [][LoopNext]_allVars

\* The timers of the looper and of the debounce fire, digests run, the Elasticsearch
\* client settles every msearch and the state of a source resolves or is rejected.
\* Nothing is asked of the users.
FairLoopSpec ==
    /\ LoopSpec
    /\ WF_allVars(LooperTick) /\ WF_allVars(RunDone) /\ WF_allVars(RunFails)
    /\ WF_allVars(DebouncedFetchThese /\ OnlyCourier)
    /\ WF_allVars(AdvanceFetches /\ OnlyCourier)

-----------------------------------------------------------------------------
\* With an interval, a started search looper is in a run or has a timer, and no timer
\* is leaked, though runs end, restarts and new intervals come in any order.
LooperAwake == L!Awake /\ L!OneTimer /\ L!OneRun

\* While the looper is started with an interval, every request in the queue is started
\* in the end: the clones of failed requests too, which nobody else fetches.
QueueDrains ==
    \A r \in Requests :
        (r \in Queue /\ started /\ ms)
            ~> (r \notin Inactive \/ ~started \/ ~ms \/ fatal)
=============================================================================
