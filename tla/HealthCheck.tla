----------------------------- MODULE HealthCheck -----------------------------
(***************************************************************************)
(* The health check of the elasticsearch plugin                            *)
(* (src/core_plugins/elasticsearch/lib/health_check.js): a timer that      *)
(* starts a chain of calls to the admin cluster, and the status of the     *)
(* plugin, which that chain sets.  A chain that has to wait for the        *)
(* cluster asks again after a delay; some of what it starts goes on in the *)
(* background when the chain is done.                                      *)
(***************************************************************************)
EXTENDS Integers, FiniteSets

CONSTANTS Conditions,  \* the conditions the admin cluster can be in
          Custom,      \* TRUE iff a cluster of the connector is configured
          MaxStarts,   \* bound: calls of start
          MaxChanges,  \* bound: changes of the clusters
          MaxLoops     \* bound: loops of a kind left in the background

AllConditions == {"down", "refused", "incompatible", "tribe", "implicit",
                  "no_index", "initializing", "missing", "ready"}

ASSUME HealthAssumption ==
    /\ Conditions \subseteq AllConditions /\ "ready" \in Conditions
    /\ Custom \in BOOLEAN
    /\ MaxStarts \in Nat \ {0} /\ MaxChanges \in Nat /\ MaxLoops \in Nat \ {0}

Ids == 1..MaxStarts   \* identities of the timers alive
None == 0

VARIABLES es, custom, changes,   \* the clusters; changes left
          status,      \* the status of the plugin: state and message
          timeoutId,   \* the timer or the check that goes on, or None
          armed,       \* timers that have not fired
          checks,      \* by timer: the call its check waits for, or "idle"
          steady,      \* by timer: es has not changed since its check began
          loops,       \* background loops by kind
          starts,      \* calls of start left
          stopped      \* onPreStop has run

vars == <<es, custom, changes, status, timeoutId, armed, checks, steady, loops, starts, stopped>>
clusters == <<es, custom, changes>>
timers == <<timeoutId, armed, starts, stopped>>

Steps == {"ping", "version", "tribe", "explicit", "shards", "create", "online", "plugins", "langs"}
Statuses == [state : {"yellow", "red", "green"},
             message : {"waiting", "unreachable", "custom", "version", "error", "no_index",
                        "initializing", "missing", "ready"}]

TypeOK ==
    /\ es \in Conditions /\ custom \in {"up", "down"} /\ changes \in 0..MaxChanges
    /\ status \in Statuses
    /\ timeoutId \in Ids \cup {None} /\ armed \subseteq Ids
    /\ checks \in [Ids -> Steps \cup {"idle"}] /\ steady \in [Ids -> BOOLEAN]
    /\ loops \in [{"version", "custom"} -> 0..MaxLoops]
    /\ starts \in 0..MaxStarts /\ stopped \in BOOLEAN

Yellow(m) == status' = [state |-> "yellow", message |-> m]
Red(m) == status' = [state |-> "red", message |-> m]
Green == status' = [state |-> "green", message |-> "ready"]

Init ==
    /\ es \in Conditions /\ changes = MaxChanges
    /\ custom \in (IF Custom THEN {"up", "down"} ELSE {"up"})
    /\ status = [state |-> "yellow", message |-> "waiting"]
    /\ timeoutId = None /\ armed = {}
    /\ checks = [i \in Ids |-> "idle"] /\ steady = [i \in Ids |-> TRUE]
    /\ loops = [k \in {"version", "custom"} |-> 0]
    /\ starts = MaxStarts /\ stopped = FALSE

\* What the admin cluster answers: anything at all, and which calls its condition makes throw.
Answers == es \notin {"down", "refused"}
Throws(step) ==
    ~Answers \/ (step = "tribe" /\ es = "tribe") \/ (step = "explicit" /\ es = "implicit")

-----------------------------------------------------------------------------
\* The timer: startorRestartChecking stops what goes on and schedules a check,
\* under an identity that no check has, but the one whose end is being handled.
\* The mutant leaves the old timer armed.
Running(i) == checks[i] # "idle"
Idle(but) == {i \in Ids : ~Running(i) \/ i = but}
ScheduleCheckLeaky(but) ==
    LET new == CHOOSE i \in Idle(but) \ armed : TRUE
    IN  Idle(but) \ armed # {} /\ timeoutId' = new /\ armed' = armed \cup {new}
ScheduleCheck(but) ==
    LET new == CHOOSE i \in Idle(but) : TRUE
    IN  Idle(but) # {} /\ timeoutId' = new /\ armed' = (armed \ {timeoutId}) \cup {new}

Start ==
    /\ starts > 0 /\ ~stopped
    /\ starts' = starts - 1
    /\ ScheduleCheck(None)
    /\ UNCHANGED <<clusters, status, checks, steady, loops, stopped>>

\* onPreStop: stopChecking clears the timer; a check on its way goes on.
PreStop ==
    /\ ~stopped
    /\ stopped' = TRUE
    /\ timeoutId' = None /\ armed' = armed \ {timeoutId}
    /\ UNCHANGED <<clusters, status, checks, steady, loops, starts>>

\* The timer fires: check pings the admin cluster and, at once, the custom one, whose
\* answer nothing waits for.
TimerFires(i) ==
    /\ i \in armed
    /\ Custom => loops["custom"] < MaxLoops
    /\ armed' = armed \ {i}
    /\ checks' = [checks EXCEPT ![i] = "ping"]
    /\ steady' = [steady EXCEPT ![i] = TRUE]
    /\ loops' = [loops EXCEPT !["custom"] = IF Custom THEN @ + 1 ELSE @]
    /\ UNCHANGED <<clusters, status, timeoutId, starts, stopped>>

\* The end of a check, with its finally: it restarts unless it was stopped or superseded.
\* The fault restarts whatever happened since.
Finally(i, restarts) ==
    /\ checks' = [checks EXCEPT ![i] = "idle"]
    /\ steady' = [steady EXCEPT ![i] = TRUE]
    /\ IF restarts THEN ScheduleCheck(i) ELSE UNCHANGED <<timeoutId, armed>>
    /\ UNCHANGED <<clusters, loops, starts, stopped>>
EndsAlways(i) == Finally(i, TRUE)
Ends(i) == Finally(i, timeoutId = i)

-----------------------------------------------------------------------------
\* The calls of check i, each with what follows its answer.
GoesTo(i, step) ==
    /\ checks' = [checks EXCEPT ![i] = step]
    /\ UNCHANGED <<timers, steady, custom, changes>>
Passes(i, step) == GoesTo(i, step) /\ UNCHANGED <<status, es, loops>>

\* The catch of the chain.
Fails(i) == Red("error") /\ Ends(i)

Ping(i) ==
    /\ checks[i] = "ping"
    /\ \/ es = "down" /\ Red("unreachable") /\ UNCHANGED <<clusters, timers, checks, steady, loops>>
       \/ es = "refused" /\ Fails(i)
       \/ Answers /\ Passes(i, "version")

\* waitForEsVersion: the retry is not part of the chain, which goes on.
Version(i) ==
    /\ checks[i] = "version"
    /\ \/ /\ ~Answers \/ es = "incompatible"
          /\ loops["version"] < MaxLoops
          /\ Red("version")
          /\ loops' = [loops EXCEPT !["version"] = @ + 1]
          /\ GoesTo(i, "tribe") /\ UNCHANGED es
       \/ Answers /\ es # "incompatible" /\ Passes(i, "tribe")

Tribe(i) == checks[i] = "tribe" /\ ~Throws("tribe") /\ Passes(i, "explicit")
Explicit(i) == checks[i] = "explicit" /\ ~Throws("explicit") /\ Passes(i, "shards")

\* waitForShards.  The mutant forgets to return the promise of the retry.
InitializingForgotten(i) == Red("initializing") /\ GoesTo(i, "plugins") /\ UNCHANGED <<es, loops>>
Initializing(i) == Red("initializing") /\ UNCHANGED <<clusters, timers, checks, steady, loops>>
Shards(i) ==
    /\ checks[i] = "shards" /\ Answers
    /\ \/ es = "no_index" /\ Yellow("no_index") /\ GoesTo(i, "create") /\ UNCHANGED <<es, loops>>
       \/ es = "initializing" /\ Initializing(i)
       \/ es \notin {"no_index", "initializing"} /\ Passes(i, "plugins")

\* createKibanaIndex, which fails if another server has created the index meanwhile.
Create(i) ==
    /\ checks[i] = "create" /\ es = "no_index"
    /\ es' = "ready"
    /\ GoesTo(i, "online") /\ UNCHANGED <<status, loops>>

\* The index is there, but not its shards: the call times out, and is not told to ignore it.
TimesOut == es \in {"no_index", "initializing"}
Online(i) == checks[i] = "online" /\ Answers /\ ~TimesOut /\ Passes(i, "plugins")

\* pluginList always resolves, with a status of its own if something is wrong.
Plugins(i) ==
    /\ checks[i] = "plugins"
    /\ \/ ~Answers /\ Yellow("error")
       \/ es = "missing" /\ Red("missing")
       \/ Answers /\ es # "missing" /\ UNCHANGED status
    /\ GoesTo(i, "langs") /\ UNCHANGED <<es, loops>>

\* The last call, and setGreenStatus.
Langs(i) == checks[i] = "langs" /\ Answers /\ Green /\ Ends(i)

CallThrows(i) ==
    /\ \/ checks[i] \in {"tribe", "explicit"} /\ Throws(checks[i])
       \/ checks[i] \in {"shards", "online", "langs"} /\ ~Answers
       \/ checks[i] = "online" /\ TimesOut
       \/ checks[i] = "create" /\ es # "no_index"
    /\ Fails(i)

CheckStep(i) ==
    \/ Ping(i) \/ Version(i) \/ Tribe(i) \/ Explicit(i) \/ Shards(i) \/ Create(i)
    \/ Online(i) \/ Plugins(i) \/ Langs(i) \/ CallThrows(i)

-----------------------------------------------------------------------------
\* The background: a loop asks again after a delay until the answer is right.  The
\* mutants never stop, or ask twice after a wrong answer.
LoopForEver(kind, good, message) ==
    /\ loops[kind] > 0
    /\ Red(message)
    /\ UNCHANGED <<clusters, timers, checks, steady, loops>>
LoopDoubling(kind, good, message) ==
    /\ loops[kind] > 0
    /\ \/ good /\ loops' = [loops EXCEPT ![kind] = @ - 1] /\ UNCHANGED status
       \/ ~good /\ Red(message) /\ loops' = [loops EXCEPT ![kind] = @ + 1]
    /\ UNCHANGED <<clusters, timers, checks, steady>>
LoopOf(kind, good, message) ==
    /\ loops[kind] > 0
    /\ \/ good /\ loops' = [loops EXCEPT ![kind] = @ - 1] /\ UNCHANGED status
       \/ ~good /\ Red(message) /\ UNCHANGED loops
    /\ UNCHANGED <<clusters, timers, checks, steady>>
VersionLoop == LoopOf("version", Answers /\ es # "incompatible", "version")
CustomLoop == LoopOf("custom", custom = "up", "custom")

\* The clusters change by themselves.
Change ==
    /\ changes > 0 /\ changes' = changes - 1
    /\ \/ es' \in Conditions \ {es} /\ steady' = [i \in Ids |-> FALSE] /\ UNCHANGED custom
       \/ Custom /\ custom' \in {"up", "down"} \ {custom} /\ UNCHANGED <<es, steady>>
    /\ UNCHANGED <<status, timers, checks, loops>>

Next ==
    \/ Start \/ PreStop \/ Change \/ VersionLoop \/ CustomLoop
    \/ \E i \in Ids : TimerFires(i) \/ CheckStep(i)

Spec == Init /\ [][Next]_vars

-----------------------------------------------------------------------------
\* Conditions that the check waits for, or gives up on, before it looks at the plugins.
Blocking == {"down", "refused", "tribe", "implicit", "initializing"}

GreenBy(i) == Running(i) /\ checks'[i] = "idle" /\ status'.state = "green"

\* A check during the whole of which the cluster was down, refusing, of an unsupported
\* setup or initializing never turns the status green.
BlockedStaysOut == [][\A i \in Ids : GreenBy(i) => ~(steady[i] /\ es \in Blocking)]_vars

\* "Kibana should require that ES has the same version" (ensure_es_version.js): the same
\* of a cluster with nodes of an incompatible version.
IncompatibleStaysOut ==
    [][\A i \in Ids : GreenBy(i) => ~(steady[i] /\ es = "incompatible")]_vars

\* Once onPreStop has run no check begins, whatever was on its way when it ran.
StopIsFinal == [][stopped => armed' = {} /\ \A i \in Ids : Running(i)' => Running(i)]_vars

\* What was started goes on: one timer or one check, however start, stop and the ends
\* of the checks fall, and no other timer is armed.
OneGoesOn ==
    /\ armed \subseteq {timeoutId}
    /\ timeoutId # None => (timeoutId \in armed <=> ~Running(timeoutId))
    /\ (starts < MaxStarts /\ ~stopped) => timeoutId # None
=============================================================================
