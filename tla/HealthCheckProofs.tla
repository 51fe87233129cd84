-------------------------- MODULE HealthCheckProofs --------------------------
(***************************************************************************)
(* Proofs about the health check, for any set of conditions of the cluster *)
(* and any bounds.  The inductive invariant adds to OneGoesOn that nothing *)
(* goes on after a stop, and how far a check can get while the cluster     *)
(* stays in a condition that blocks it.                                    *)
(***************************************************************************)
EXTENDS ServerHealth, TLAPS

\* After onPreStop no timer and no check goes on.
Stopped == stopped => timeoutId = None

\* The calls a check can have reached in a condition that has not changed since it began.
Reached ==
    \A i \in Ids :
        (steady[i] /\ Running(i)) =>
            /\ es \in {"down", "refused"} => checks[i] = "ping"
            /\ es = "tribe" => checks[i] \in {"ping", "version", "tribe"}
            /\ es = "implicit" => checks[i] \in {"ping", "version", "tribe", "explicit"}
            /\ es = "initializing" =>
                 checks[i] \in {"ping", "version", "tribe", "explicit", "shards"}

Inv == TypeOK /\ OneGoesOn /\ Stopped /\ Reached

\* The identity that ScheduleCheck picks has no check, but the one that ends.
LEMMA Scheduling ==
    ASSUME NEW but, ScheduleCheck(but)
    PROVE  /\ timeoutId' \in Ids /\ (~Running(timeoutId') \/ timeoutId' = but)
           /\ armed' = (armed \ {timeoutId}) \cup {timeoutId'}
<1>1. (CHOOSE i \in Idle(but) : TRUE) \in Idle(but)
  BY DEF ScheduleCheck
<1> QED
  BY <1>1 DEF ScheduleCheck, Idle

\* The invariant holds before the first start.
LEMMA InitInv == Init => Inv
<1> SUFFICES ASSUME Init PROVE Inv
  OBVIOUS
<1>1. TypeOK
  <2>1. es \in Conditions /\ custom \in {"up", "down"} /\ changes \in 0..MaxChanges
    BY HealthAssumption DEF Init
  <2>2. status \in Statuses
    BY DEF Init, Statuses
  <2>3. timeoutId \in Ids \cup {None} /\ armed \subseteq Ids
    BY DEF Init
  <2>4. checks \in [Ids -> Steps \cup {"idle"}] /\ steady \in [Ids -> BOOLEAN]
    BY DEF Init
  <2>5. loops \in [{"version", "custom"} -> 0..MaxLoops]
    BY HealthAssumption DEF Init
  <2>6. starts \in 0..MaxStarts
    BY HealthAssumption DEF Init
  <2>7. stopped \in BOOLEAN
    BY DEF Init
  <2> QED
    BY <2>1, <2>2, <2>3, <2>4, <2>5, <2>6, <2>7 DEF TypeOK
<1>2. OneGoesOn
  <2>1. armed \subseteq {timeoutId} /\ timeoutId = None
    BY DEF Init
  <2>2. ~(starts < MaxStarts)
    BY HealthAssumption DEF Init
  <2> QED
    BY <2>1, <2>2 DEF OneGoesOn
<1>3. Stopped /\ Reached
  BY DEF Init, Stopped, Reached, Running
<1> QED
  BY <1>1, <1>2, <1>3 DEF Inv

\* What a step of a check may do to the timers and the checks: it goes to another call, or
\* waits, or ends.
Moves(i) ==
    /\ checks' = [checks EXCEPT ![i] = checks'[i]] /\ checks'[i] \in Steps
    /\ UNCHANGED <<timers, steady>>

\* A step of a check moves that check alone, or ends it.
LEMMA Shape ==
    ASSUME TypeOK, NEW i \in Ids, CheckStep(i)
    PROVE  checks[i] \in Steps /\ (Moves(i) \/ Ends(i))
<1>1. CASE Ping(i)
  BY <1>1 DEF Ping, Fails, Passes, GoesTo, Moves, TypeOK, Steps
<1>2. CASE Version(i)
  BY <1>2 DEF Version, Passes, GoesTo, Moves, TypeOK, Steps
<1>3. CASE Tribe(i) \/ Explicit(i)
  BY <1>3 DEF Tribe, Explicit, Passes, GoesTo, Moves, TypeOK, Steps
<1>4. CASE Shards(i)
  BY <1>4 DEF Shards, Initializing, Passes, GoesTo, Moves, TypeOK, Steps
<1>5. CASE Create(i) \/ Online(i) \/ Plugins(i)
  BY <1>5 DEF Create, Online, Plugins, Passes, GoesTo, Moves, TypeOK, Steps
<1>6. CASE Langs(i) \/ CallThrows(i)
  BY <1>6 DEF Langs, CallThrows, Fails, Steps
<1> QED
  BY <1>1, <1>2, <1>3, <1>4, <1>5, <1>6 DEF CheckStep
-----------------------------------------------------------------------------
\* Types.  The status, the background and the clusters first.
LEMMA TypeStep == Inv /\ [Next]_vars => TypeOK'
<1> SUFFICES ASSUME Inv, [Next]_vars PROVE TypeOK'
  OBVIOUS
<1> USE DEF Inv
<1>1. CASE UNCHANGED vars
  BY <1>1 DEF vars, TypeOK
<1>2. CASE Start
  <2>1. starts' \in 0..MaxStarts
    BY <1>2, HealthAssumption DEF Start, TypeOK
  <2>2. timeoutId' \in Ids /\ armed' \subseteq Ids
    BY <1>2, Scheduling DEF Start, TypeOK
  <2> QED
    BY <1>2, <2>1, <2>2 DEF Start, clusters, TypeOK
<1>3. CASE PreStop
  BY <1>3 DEF PreStop, clusters, TypeOK
<1>4. CASE Change
  <2>1. changes' \in 0..MaxChanges
    BY <1>4, HealthAssumption DEF Change, TypeOK
  <2>2. es' \in Conditions /\ custom' \in {"up", "down"} /\ steady' \in [Ids -> BOOLEAN]
    BY <1>4 DEF Change, TypeOK
  <2> QED
    BY <1>4, <2>1, <2>2 DEF Change, timers, TypeOK
<1>5. CASE VersionLoop \/ CustomLoop
  <2>1. PICK k \in {"version", "custom"} :
          /\ loops[k] > 0 /\ loops' \in {loops, [loops EXCEPT ![k] = @ - 1]}
          /\ status' \in Statuses
          /\ UNCHANGED <<clusters, timers, checks, steady>>
    BY <1>5 DEF VersionLoop, CustomLoop, LoopOf, Red, Statuses, TypeOK
  <2>2. loops' \in [{"version", "custom"} -> 0..MaxLoops]
    BY <2>1, HealthAssumption DEF TypeOK
  <2> QED
    BY <2>1, <2>2 DEF clusters, timers, TypeOK
<1>6. ASSUME NEW i \in Ids, TimerFires(i) PROVE TypeOK'
  <2>1. loops' \in [{"version", "custom"} -> 0..MaxLoops]
    BY <1>6, HealthAssumption DEF TimerFires, TypeOK
  <2>2. checks' \in [Ids -> Steps \cup {"idle"}] /\ steady' \in [Ids -> BOOLEAN]
    BY <1>6 DEF TimerFires, TypeOK, Steps
  <2> QED
    BY <1>6, <2>1, <2>2 DEF TimerFires, clusters, TypeOK
<1>7. ASSUME NEW i \in Ids, CheckStep(i) PROVE TypeOK'
  <2>1. status' \in Statuses
    BY <1>7 DEF CheckStep, Ping, Version, Tribe, Explicit, Shards, Initializing, Create, Online,
       Plugins, Langs, CallThrows, Fails, Passes, Red, Yellow, Green, Statuses, TypeOK
  <2>2. loops' \in [{"version", "custom"} -> 0..MaxLoops]
    <3>1. loops' = loops \/ (loops["version"] < MaxLoops
                             /\ loops' = [loops EXCEPT !["version"] = @ + 1])
      BY <1>7 DEF CheckStep, Ping, Version, Tribe, Explicit, Shards, Initializing, Create,
         Online, Plugins, Langs, CallThrows, Fails, Passes, Ends, Finally
    <3> QED
      BY <3>1, HealthAssumption DEF TypeOK
  <2>3. es' \in Conditions /\ UNCHANGED <<custom, changes>>
    BY <1>7, HealthAssumption DEF CheckStep, Ping, Version, Tribe, Explicit, Shards, Initializing,
       Create, Online, Plugins, Langs, CallThrows, Fails, Passes, GoesTo, Ends, Finally, clusters, TypeOK
  <2>4. CASE Moves(i)
    BY <2>1, <2>2, <2>3, <2>4 DEF Moves, timers, TypeOK
  <2>5. CASE Ends(i)
    <3>1. timeoutId' \in Ids \cup {None} /\ armed' \subseteq Ids
      BY <2>5, Scheduling DEF Ends, Finally, TypeOK
    <3> QED
      BY <2>1, <2>2, <2>3, <2>5, <3>1 DEF Ends, Finally, TypeOK
  <2> QED
    BY <1>7, <2>4, <2>5, Shape
<1> QED
  BY <1>1, <1>2, <1>3, <1>4, <1>5, <1>6, <1>7 DEF Next
-----------------------------------------------------------------------------
\* One goes on: the identities that the timers and the ends leave.
LEMMA OneStep == Inv /\ [Next]_vars => (OneGoesOn /\ Stopped)'
<1> SUFFICES ASSUME Inv, [Next]_vars PROVE (OneGoesOn /\ Stopped)'
  OBVIOUS
<1> USE DEF Inv
<1>0. None \notin Ids
  BY HealthAssumption DEF None, Ids
<1>1. CASE UNCHANGED vars
  BY <1>1 DEF vars, OneGoesOn, Stopped, Running
<1>2. CASE Start
  <2>1. /\ timeoutId' \in Ids /\ ~Running(timeoutId')
        /\ armed' = {timeoutId'}
    BY <1>2, <1>0, Scheduling DEF Start, OneGoesOn, TypeOK
  <2>2. checks' = checks /\ stopped' = stopped /\ ~stopped
    BY <1>2 DEF Start
  <2> QED
    BY <1>0, <2>1, <2>2 DEF OneGoesOn, Stopped, Running
<1>3. CASE PreStop
  BY <1>3 DEF PreStop, OneGoesOn, Stopped
<1>4. CASE Change \/ VersionLoop \/ CustomLoop
  BY <1>4 DEF Change, VersionLoop, CustomLoop, LoopOf, timers, OneGoesOn, Stopped, Running
<1>5. ASSUME NEW i \in Ids, TimerFires(i) PROVE (OneGoesOn /\ Stopped)'
  <2>1. i = timeoutId /\ armed' = {}
    BY <1>5 DEF TimerFires, OneGoesOn
  <2>2. checks'[i] # "idle" /\ UNCHANGED <<timeoutId, starts, stopped>>
    BY <1>5 DEF TimerFires, TypeOK
  <2> QED
    BY <2>1, <2>2 DEF OneGoesOn, Stopped, Running
<1>6. ASSUME NEW i \in Ids, CheckStep(i) PROVE (OneGoesOn /\ Stopped)'
  <2>1. checks[i] # "idle" /\ (Moves(i) \/ Ends(i))
    BY <1>6, Shape DEF Steps
  <2>2. CASE Moves(i)
    <3>1. \A j \in Ids : Running(j)' <=> Running(j)
      BY <2>1, <2>2 DEF Moves, Running, Steps, TypeOK
    <3> QED
      BY <2>2, <3>1 DEF Moves, timers, OneGoesOn, Stopped, TypeOK
  <2>3. CASE Ends(i)
    <3>1. /\ \A j \in Ids : Running(j)' <=> (Running(j) /\ j # i)
          /\ UNCHANGED <<starts, stopped>>
      BY <2>1, <2>3 DEF Ends, Finally, Running, TypeOK
    <3>2. CASE timeoutId = i
      <4>1. /\ timeoutId' \in Ids /\ (~Running(timeoutId') \/ timeoutId' = i)
            /\ armed' = {timeoutId'}
        BY <2>3, <3>2, <1>0, Scheduling DEF Ends, Finally, OneGoesOn, TypeOK
      <4>2. ~stopped
        BY <3>2, <1>0 DEF Stopped
      <4> QED
        BY <1>0, <3>1, <4>1, <4>2 DEF OneGoesOn, Stopped
    <3>3. CASE timeoutId # i
      <4>1. UNCHANGED <<timeoutId, armed>>
        BY <2>3, <3>3 DEF Ends, Finally
      <4> QED
        BY <3>1, <3>3, <4>1 DEF OneGoesOn, Stopped, TypeOK
    <3> QED
      BY <3>2, <3>3
  <2> QED
    BY <2>1, <2>2, <2>3
<1> QED
  BY <1>1, <1>2, <1>3, <1>4, <1>5, <1>6 DEF Next

-----------------------------------------------------------------------------
\* How far a check gets under a condition that stays.
LEMMA ReachedStep == Inv /\ [Next]_vars => Reached'
<1> SUFFICES ASSUME Inv, [Next]_vars PROVE Reached'
  OBVIOUS
<1> USE DEF Inv
<1>1. CASE UNCHANGED vars
  BY <1>1 DEF vars, Reached, Running
<1>2. CASE Start \/ PreStop \/ VersionLoop \/ CustomLoop
  BY <1>2 DEF Start, PreStop, VersionLoop, CustomLoop, LoopOf, clusters, Reached, Running
<1>3. CASE Change
  <2>1. CASE steady' = [i \in Ids |-> FALSE]
    BY <2>1 DEF Reached
  <2>2. CASE UNCHANGED <<es, steady>>
    BY <1>3, <2>2 DEF Change, Reached, Running
  <2> QED
    BY <1>3, <2>1, <2>2 DEF Change
<1>4. ASSUME NEW i \in Ids, TimerFires(i) PROVE Reached'
  <2>1. es' = es /\ checks'[i] = "ping"
    BY <1>4 DEF TimerFires, clusters, TypeOK
  <2>2. \A j \in Ids \ {i} : checks'[j] = checks[j] /\ steady'[j] = steady[j]
    BY <1>4 DEF TimerFires, TypeOK
  <2> QED
    BY <2>1, <2>2 DEF Reached, Running
<1>5. ASSUME NEW i \in Ids, CheckStep(i) PROVE Reached'
  <2>1. \A j \in Ids \ {i} : checks'[j] = checks[j] /\ steady'[j] = steady[j]
    BY <1>5, Shape DEF Moves, Ends, Finally, TypeOK
  <2>2. CASE Ends(i)
    <3>1. checks'[i] = "idle" /\ es' = es
      BY <2>2 DEF Ends, Finally, clusters, TypeOK
    <3> QED
      BY <2>1, <3>1 DEF Reached, Running
  <2>3. CASE Moves(i)
    <3>1. steady'[i] = steady[i] /\ checks[i] # "idle"
      BY <1>5, <2>3, Shape DEF Moves, Steps
    <3>2. CASE Create(i)
      BY <3>2 DEF Create, Reached
    <3>3. CASE ~Create(i)
      <4>1. es' = es
        BY <1>5, <3>3 DEF CheckStep, Ping, Version, Tribe, Explicit, Shards, Initializing, Online,
           Plugins, Langs, CallThrows, Fails, Passes, Ends, Finally, clusters
      <4>2. steady[i] => /\ es \in {"down", "refused"} => checks'[i] = "ping"
                         /\ es = "tribe" => checks'[i] \in {"ping", "version", "tribe"}
                         /\ es = "implicit" => checks'[i] \in {"ping", "version", "tribe", "explicit"}
                         /\ es = "initializing" =>
                              checks'[i] \in {"ping", "version", "tribe", "explicit", "shards"}
        <5>1. CASE Version(i)
          BY <3>1, <5>1 DEF Version, Passes, GoesTo, Reached, Running, TypeOK
        <5>5. CASE Ping(i)
          <6>1. ~Fails(i)
            BY <2>3 DEF Fails, Ends, Finally, Moves, Steps, TypeOK
          <6> QED
            BY <5>5, <6>1 DEF Ping, Passes, GoesTo, Answers, TypeOK
        <5>2. CASE Tribe(i) \/ Explicit(i) \/ Shards(i)
          BY <3>1, <5>2 DEF Tribe, Explicit, Shards, Initializing, Passes, GoesTo, Answers, Throws,
             Reached, Running, TypeOK
        <5>3. CASE Online(i) \/ Plugins(i) \/ Langs(i)
          BY <3>1, <5>3 DEF Online, Plugins, Langs, Reached, Running
        <5>4. CASE CallThrows(i)
          BY <2>3, <5>4 DEF CallThrows, Fails, Ends, Finally, Moves, Steps, TypeOK
        <5> QED
          BY <1>5, <3>3, <5>1, <5>2, <5>3, <5>4, <5>5 DEF CheckStep
      <4> QED
        BY <2>1, <3>1, <4>1, <4>2 DEF Reached, Running
    <3> QED
      BY <3>2, <3>3
  <2> QED
    BY <1>5, <2>2, <2>3, Shape
<1> QED
  BY <1>1, <1>2, <1>3, <1>4, <1>5 DEF Next

\* Every step keeps the invariant.
LEMMA NextInv == Inv /\ [Next]_vars => Inv'
BY TypeStep, OneStep, ReachedStep DEF Inv

-----------------------------------------------------------------------------
\* The invariant of the health check.
THEOREM Invariance == Spec => []Inv
BY InitInv, NextInv, PTL DEF Spec

\* What was started goes on, as one timer or one check, and nothing else is armed.
THEOREM OneCheckGoesOn == Spec => []OneGoesOn
BY Invariance, PTL DEF Inv

\* No check begins after onPreStop, whatever was on its way.
THEOREM StopHolds == Spec => StopIsFinal
<1>1. Inv /\ Inv' /\ [Next]_vars =>
        [stopped => armed' = {} /\ \A i \in Ids : Running(i)' => Running(i)]_vars
  <2> SUFFICES ASSUME Inv, Inv', Next, stopped
               PROVE  armed' = {} /\ \A i \in Ids : Running(i)' => Running(i)
    OBVIOUS
  <2>0. None \notin Ids
    BY HealthAssumption DEF None, Ids
  <2>1. armed = {} /\ timeoutId = None
    BY <2>0 DEF Inv, Stopped, OneGoesOn, TypeOK
  <2>2. CASE Start \/ PreStop \/ Change \/ VersionLoop \/ CustomLoop
    BY <2>1, <2>2 DEF Start, PreStop, Change, VersionLoop, CustomLoop, LoopOf, timers, Running
  <2>3. ASSUME NEW i \in Ids, TimerFires(i) PROVE FALSE
    BY <2>1, <2>3 DEF TimerFires
  <2>4. ASSUME NEW i \in Ids, CheckStep(i)
        PROVE  armed' = {} /\ \A j \in Ids : Running(j)' => Running(j)
    BY <2>0, <2>1, <2>4, Shape DEF Inv, TypeOK, Moves, Ends, Finally, timers, Running, Steps
  <2> QED
    BY <2>2, <2>3, <2>4 DEF Next
<1> QED
  BY <1>1, Invariance, PTL DEF Spec, StopIsFinal

\* A check during the whole of which the cluster was in a blocking condition never turns
\* the status green.
THEOREM BlockedHolds == Spec => BlockedStaysOut
<1>1. Inv /\ [Next]_vars =>
        [\A i \in Ids : GreenBy(i) => ~(steady[i] /\ es \in Blocking)]_vars
  <2> SUFFICES ASSUME Inv, Next, NEW i \in Ids, GreenBy(i)
               PROVE  ~(steady[i] /\ es \in Blocking)
    OBVIOUS
  <2>1. Running(i) /\ checks'[i] = "idle" /\ status'.state = "green"
    BY DEF GreenBy
  <2>2. CheckStep(i)
    <3>1. CASE Start \/ PreStop \/ Change \/ VersionLoop \/ CustomLoop
      BY <2>1, <3>1 DEF Start, PreStop, Change, VersionLoop, CustomLoop, LoopOf, Running
    <3>2. ASSUME NEW j \in Ids, TimerFires(j) PROVE FALSE
      BY <2>1, <3>2 DEF TimerFires, Running, Inv, TypeOK
    <3>3. ASSUME NEW j \in Ids, CheckStep(j), j # i PROVE FALSE
      BY <2>1, <3>3, Shape DEF Inv, TypeOK, Moves, Ends, Finally, Running
    <3> QED
      BY <3>1, <3>2, <3>3 DEF Next
  <2>3. Langs(i)
    <3>1. ~Moves(i)
      BY <2>1 DEF Moves, Steps
    <3>2. ~CallThrows(i)
      BY <2>1 DEF CallThrows, Fails, Red
    <3>3. CASE Ping(i)
      BY <2>1, <3>3 DEF Ping, Fails, Red, Passes, GoesTo, Running, Inv, TypeOK
    <3>4. CASE Version(i) \/ Tribe(i) \/ Explicit(i) \/ Shards(i) \/ Create(i) \/ Online(i) \/ Plugins(i)
      BY <2>1, <3>4 DEF Version, Tribe, Explicit, Shards, Initializing, Create, Online, Plugins,
         Passes, GoesTo, Running, Inv, TypeOK
    <3> QED
      BY <2>2, <3>2, <3>3, <3>4 DEF CheckStep
  <2> QED
    BY <2>1, <2>3 DEF Langs, Inv, Reached, Blocking
<1> QED
  BY <1>1, Invariance, PTL DEF Spec, BlockedStaysOut

-----------------------------------------------------------------------------
\* The composition with the migrations plugin is a health check.
THEOREM Composition == HealthSpec => Spec
<1>1. HealthInit => Init
  BY DEF HealthInit
<1>2. [HealthNext]_allVars => [Next]_vars
  BY DEF HealthNext, HealthStep, MigrationsInit, Verdict, LateVerdict, allVars
<1> QED
  BY <1>1, <1>2, PTL DEF HealthSpec, Spec

\* The types of the composition: a status, a listener and the counts under way.
THEOREM HealthTypeCorrect == HealthSpec => []HealthTypeOK
<1> DEFINE Rest == /\ migrations \in {"uninitialized", "yellow"} \cup Verdicts
                   /\ listening \in BOOLEAN /\ counted \in BOOLEAN
                   /\ last \in BOOLEAN /\ earlier \in 0..MaxEarlier
<1>1. HealthInit => Rest
  <2>1. 0 \in 0..MaxEarlier
    BY CountsAssumption
  <2> QED
    BY <2>1 DEF HealthInit
<1>2. Rest /\ [HealthNext]_allVars => Rest'
  <2> SUFFICES ASSUME Rest, [HealthNext]_allVars PROVE Rest'
    OBVIOUS
  <2>1. ASSUME CheckMigrations PROVE last' \in BOOLEAN /\ earlier' \in 0..MaxEarlier
    BY <2>1, CountsAssumption DEF CheckMigrations
  <2>2. CASE HealthStep
    <3>1. CheckMigrations \/ UNCHANGED counts
      BY <2>2 DEF HealthStep, Heard, Listen
    <3>2. UNCHANGED <<migrations, listening>> /\ counted' \in BOOLEAN
      BY <2>2 DEF HealthStep, Heard
    <3> QED
      BY <2>1, <3>1, <3>2 DEF counts
  <2>3. CASE MigrationsInit
    BY <2>1, <2>3 DEF MigrationsInit, counts
  <2>4. CASE Verdict \/ LateVerdict
    <3>1. migrations' \in Verdicts /\ UNCHANGED listening
          /\ last' \in BOOLEAN /\ counted' \in BOOLEAN
      BY <2>4 DEF Verdict, LateVerdict
    <3>2. earlier' \in 0..MaxEarlier
      BY <2>4, CountsAssumption DEF Verdict, LateVerdict
    <3> QED
      BY <3>1, <3>2
  <2>5. CASE UNCHANGED allVars
    BY <2>5 DEF allVars, migrationVars, counts
  <2> QED
    BY <2>2, <2>3, <2>4, <2>5 DEF HealthNext
<1>3. Spec => []TypeOK
  BY Invariance, PTL DEF Inv
<1>4. TypeOK /\ Rest => HealthTypeOK
  BY DEF HealthTypeOK
<1> HIDE DEF Rest
<1> QED
  BY <1>1, <1>2, <1>3, <1>4, Composition, PTL DEF HealthSpec
=============================================================================
