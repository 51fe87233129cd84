------------------------------- MODULE Looper -------------------------------
(***************************************************************************)
(* The loopers of the courier (src/ui/public/courier/looper): a function   *)
(* is run, and run again some time after it is done, unless its interval   *)
(* is 0.  The search looper does not skip a loop that comes while a run is *)
(* active: it queues one.                                                  *)
(***************************************************************************)
EXTENDS Naturals

CONSTANT QueuesHasty   \* whether onHastyLoop queues a run: the search looper's does

VARIABLES
    started,   \* _started
    ms,        \* _ms is not 0
    timers,    \* $timeouts that are pending
    timer,     \* _timer is one of them
    active,    \* active is a promise
    runs,      \* runs of the function that are not done
    hasty      \* afterHastyQueued

vars == <<started, ms, timers, timer, active, runs, hasty>>

TypeOK ==
    /\ started \in BOOLEAN /\ ms \in BOOLEAN /\ timer \in BOOLEAN
    /\ active \in BOOLEAN /\ hasty \in BOOLEAN
    /\ timers \in Nat /\ runs \in Nat

\* The search looper is made with an interval of null, the others with 1500.
Init ==
    /\ started = FALSE
    /\ ms = ~QueuesHasty
    /\ timers = 0 /\ timer = FALSE
    /\ active = FALSE /\ runs = 0
    /\ hasty = FALSE

\* _unScheduleLoop and _scheduleLoop, with an interval of m.  One mutant does not look
\* at _timer, the other leaves the old timer alone.
UnscheduledBlindly == timers - 1
Unscheduled == IF timer THEN timers - 1 ELSE timers
UnscheduleLoop == timer' = FALSE /\ timers' = Unscheduled
ScheduleLoopTwice(m) == timer' = m /\ timers' = IF m THEN timers + 1 ELSE timers
ScheduleLoop(m) == timer' = m /\ timers' = IF m THEN Unscheduled + 1 ELSE Unscheduled

\* _loopTheLoop: a run, unless one is active.
LoopTheLoop ==
    \/ ~active /\ active' = TRUE /\ runs' = runs + 1 /\ UNCHANGED hasty
    \/ active /\ hasty' = (hasty \/ QueuesHasty) /\ UNCHANGED <<active, runs>>

\* start(): runs at once.  start(false): runs after the interval.
Start ==
    /\ started' = TRUE
    /\ IF started THEN UnscheduleLoop ELSE UNCHANGED <<timer, timers>>
    /\ LoopTheLoop
    /\ UNCHANGED ms
StartLater ==
    /\ started' = TRUE
    /\ ScheduleLoop(ms)
    /\ UNCHANGED <<ms, active, runs, hasty>>

\* restart(): called when courier.fetch is done.
Restart == StartLater

\* ms(m)
SetMs(m) ==
    /\ ms' = m
    /\ IF ~started THEN UNCHANGED <<timer, timers>>
       ELSE IF m THEN ScheduleLoop(m) ELSE UnscheduleLoop
    /\ UNCHANGED <<started, active, runs, hasty>>

Stop ==
    /\ UnscheduleLoop
    /\ started' = FALSE
    /\ UNCHANGED <<ms, active, runs, hasty>>

\* $timeout fires.
Tick ==
    /\ timers > 0
    /\ timers' = timers - 1
    /\ timer' \in {FALSE, timer /\ timers > 1}
    /\ LoopTheLoop
    /\ UNCHANGED <<started, ms>>

\* The run is done: the next one is scheduled, a hasty one begins.
RunDone ==
    /\ active
    /\ ScheduleLoop(ms)
    /\ active' = hasty /\ hasty' = FALSE
    /\ runs' = IF hasty THEN runs ELSE runs - 1
    /\ UNCHANGED <<started, ms>>

\* The run fails: the looper stops, the hasty run does not begin.
RunFails ==
    /\ active
    /\ UnscheduleLoop
    /\ started' = FALSE
    /\ active' = FALSE /\ hasty' = FALSE
    /\ runs' = runs - 1
    /\ UNCHANGED ms

Next ==
    \/ Start \/ Restart \/ Stop
    \/ \E m \in BOOLEAN : SetMs(m)
    \/ Tick \/ RunDone \/ RunFails

Spec == Init /\ [][Next]_vars

-----------------------------------------------------------------------------
\* Loops never overlap: at most one run of the function is under way, and it is the
\* one that active stands for.
OneRun == runs = IF active THEN 1 ELSE 0

\* No timer is leaked: the only $timeout that may be pending is the one that stop()
\* and ms() can cancel.
OneTimer == timers = IF timer THEN 1 ELSE 0

\* A looper that is started and has an interval goes on: it is in a run, or a timer
\* will begin one, whatever mix of start, restart, ms and hasty loops came before.
Awake == started /\ ms => timers > 0 \/ active

=============================================================================
