------------------------------- MODULE GremlinServer -------------------------------
(* The Gremlin server of the backend: a Java process that the plugin of                *)
(* src/kibi_plugins/gremlin_server starts and stops with the handler of                *)
(* src/server/gremlin_server, the status of Elasticsearch it listens to, and the end   *)
(* of the server, where src/server/shutdown_manager runs the cleaning tasks and        *)
(* src/server/pid removes its file.                                                    *)
EXTENDS Naturals, FiniteSets

CONSTANTS
  MaxStarts,     \* bound: starts of the Gremlin server, over all lives of the server
  MaxPings,      \* maxCounter of the ping loop (20 in the code)
  MaxChanges,    \* bound: changes of the status of Elasticsearch
  MaxLives,      \* bound: times the server is started
  Outcomes,      \* how the checks before a spawn may end
  PidExclusive   \* pid.exclusive

ASSUME GremlinAssumption ==
  /\ MaxStarts \in Nat /\ MaxPings \in Nat \ {0}
  /\ MaxChanges \in Nat /\ MaxLives \in Nat
  /\ Outcomes \subseteq {"spawn", "refused", "complaint", "unread"}
  /\ PidExclusive \in BOOLEAN

VARIABLES
  server,         \* the Node process: down, boot, ready (plugins are up), up, closing
  es,             \* the state of the status of the elasticsearch plugin
  watching,       \* the plugin listens to it
  status,         \* the state of the status of the gremlin_server plugin
  initialized,    \* of the handler
  gremlinServer,  \* of the handler: the process spawned last, 0 when there is none
  ping,           \* of the handler: the start whose closure self.ping is, 0 for none
  start,          \* the calls of start: place, promise, and the ping loop of each
  cleaningArray,  \* of kbnServer: the tasks to run at the end
  proc,           \* Java processes, one for each start that spawns; operating system
  pidFile,        \* file system
  mine,           \* not in the code: processes spawned in this life of the server
  exempt,         \* not in the code: what happened in this life
  lives, changes  \* not in the code: budgets

vars == <<server, es, watching, status, initialized, gremlinServer, ping, start,
          cleaningArray, proc, pidFile, mine, exempt, lives, changes>>
handler == <<watching, status, initialized, gremlinServer, ping, start>>

Starts == 1..MaxStarts
Places == {"idle", "asking", "java", "timer", "asked", "scheduled", "unread",
           "over"}
Call == [at : Places, promise : {"pending", "fulfilled", "rejected"},
         counter : 0..MaxPings, via : 0..MaxStarts]
NoCall == [at |-> "idle", promise |-> "pending", counter |-> 0, via |-> 0]

TypeOK ==
  /\ server \in {"down", "boot", "ready", "up", "closing"}
  /\ es \in {"yellow", "red", "green"} /\ status \in {"yellow", "red", "green"}
  /\ watching \in BOOLEAN /\ initialized \in BOOLEAN /\ pidFile \in BOOLEAN
  /\ gremlinServer \in 0..MaxStarts /\ ping \in 0..MaxStarts
  /\ start \in [Starts -> Call]
  /\ cleaningArray \subseteq {"pid", "gremlin"}
  /\ proc \in [Starts -> {"none", "starting", "serving", "closing", "dead"}]
  /\ mine \subseteq Starts
  /\ exempt \subseteq {"overlap", "complaint", "pending", "early", "crash"}
  /\ lives \in 0..MaxLives /\ changes \in 0..MaxChanges

Init ==
  /\ server = "down" /\ es = "yellow" /\ status = "yellow"
  /\ watching = FALSE /\ initialized = FALSE /\ pidFile = FALSE
  /\ gremlinServer = 0 /\ ping = 0
  /\ start = [s \in Starts |-> NoCall]
  /\ cleaningArray = {}
  /\ proc = [s \in Starts |-> "none"]
  /\ mine = {} /\ exempt = {} /\ lives = 0 /\ changes = 0

Running == server \in {"boot", "ready", "up"}
Active == {s \in Starts : start[s].at \notin {"idle", "unread", "over"}}

-------------------------------------------------------------------------------------
\* Java processes. A process that was sent SIGINT is closing and may answer until it is
\* dead. A ping may go unanswered at any time.

Live == {p \in Starts : proc[p] \in {"starting", "serving"}}
Answers == \E p \in Starts : proc[p] \in {"serving", "closing"}
Kill(p) ==
  [q \in Starts |-> IF q = p /\ q \in Live THEN "closing" ELSE proc[q]]

\* One process has the port.
Serves(p) ==
  /\ proc[p] = "starting" /\ \A q \in Starts : proc[q] # "serving"
  /\ proc' = [proc EXCEPT ![p] = "serving"]
  /\ UNCHANGED <<server, es, handler, cleaningArray, pidFile, mine, exempt, lives, changes>>

Dies(p) ==
  /\ proc[p] \in {"starting", "serving", "closing"}
  /\ proc' = [proc EXCEPT ![p] = "dead"]
  /\ UNCHANGED <<server, es, handler, cleaningArray, pidFile, mine, exempt, lives, changes>>

-------------------------------------------------------------------------------------
\* The handler and the plugin.

\* Fault: the task that stops the Gremlin server is not registered.
SettleUnregistered(calls, s, outcome) ==
  IF calls[s].promise # "pending"
  THEN start' = calls /\ UNCHANGED <<status, cleaningArray>>
  ELSE /\ start' = [calls EXCEPT ![s].promise = outcome]
       /\ status' = IF outcome = "fulfilled" THEN "green" ELSE "red"
       /\ UNCHANGED cleaningArray

\* A promise of start is settled once; the plugin shows the outcome and, after a
\* success, registers the task that stops the Gremlin server.
Settle(calls, s, outcome) ==
  IF calls[s].promise # "pending"
  THEN start' = calls /\ UNCHANGED <<status, cleaningArray>>
  ELSE /\ start' = [calls EXCEPT ![s].promise = outcome]
       /\ status' = IF outcome = "fulfilled" THEN "green" ELSE "red"
       /\ cleaningArray' = IF outcome = "fulfilled"
                           THEN cleaningArray \cup {"gremlin"} ELSE cleaningArray

Load ==
  \E s \in Starts :
    /\ start[s].at = "idle" /\ \A t \in 1..(s - 1) : start[t].at # "idle"
    /\ start' = [start EXCEPT ![s].at = "asking"]
    /\ exempt' = IF Active = {} THEN exempt ELSE exempt \cup {"overlap"}

\* stop: the promise is that of the signal, not of the end of the process.
Stop ==
  /\ initialized' = FALSE
  /\ proc' = IF initialized THEN Kill(gremlinServer) ELSE proc

InitPlugin ==
  /\ server = "boot" /\ server' = "ready"
  /\ \/ /\ es = "green" /\ Load
        /\ UNCHANGED watching
     \/ /\ es # "green" /\ watching' = TRUE
        /\ UNCHANGED <<start, exempt>>
  /\ UNCHANGED <<es, status, initialized, gremlinServer, ping, cleaningArray, proc,
                 pidFile, mine, lives, changes>>

\* A change of the status, or of its message only, which green does not have.
StatusChange(new) ==
  /\ Running /\ changes < MaxChanges /\ changes' = changes + 1
  /\ ~(es = "green" /\ new = "green") /\ es' = new
  /\ \/ /\ watching /\ new = "green" /\ ~initialized
        /\ Load
        /\ UNCHANGED <<status, initialized, proc>>
     \/ /\ watching /\ new = "red" /\ initialized
        /\ status' = "red" /\ Stop
        /\ UNCHANGED <<start, exempt>>
     \/ /\ ~watching \/ new = "yellow" \/ (new = "green") = initialized
        /\ UNCHANGED <<status, initialized, proc, start, exempt>>
  /\ UNCHANGED <<server, watching, gremlinServer, ping, cleaningArray, pidFile, mine,
                 lives>>

\* The answer to _isAnotherGremlinRunning.
Asked(s) ==
  /\ Running /\ start[s].at = "asking"
  /\ \/ /\ Answers
        /\ Settle([start EXCEPT ![s].at = "over"], s, "fulfilled")
     \/ /\ start' = [start EXCEPT ![s].at = "java"]
        /\ UNCHANGED <<status, cleaningArray>>
  /\ UNCHANGED <<server, es, watching, initialized, gremlinServer, ping, proc, pidFile,
                 mine, exempt, lives, changes>>

\* The checks of Java, of the configuration and of the jar file: the start is refused, or
\* the process is spawned. A complaint about the configuration rejects the promise and
\* does not return.
Refused(s) ==
  /\ Running /\ start[s].at = "java" /\ "refused" \in Outcomes
  /\ Settle([start EXCEPT ![s].at = "over"], s, "rejected")
  /\ UNCHANGED <<server, es, watching, initialized, gremlinServer, ping, proc, pidFile,
                 mine, exempt, lives, changes>>

\* The version that "java -version" prints has no three numbers: the check neither accepts
\* nor refuses it, and the promise of the start is left as it is.
JavaUnread(s) ==
  /\ Running /\ start[s].at = "java" /\ "unread" \in Outcomes
  /\ start' = [start EXCEPT ![s].at = "unread"]
  /\ UNCHANGED <<server, es, watching, status, initialized, gremlinServer, ping,
                 cleaningArray, proc, pidFile, mine, exempt, lives, changes>>

Spawn(s, outcome) ==
  /\ Running /\ start[s].at = "java" /\ outcome \in Outcomes \cap {"spawn", "complaint"}
  /\ proc' = [proc EXCEPT ![s] = "starting"]
  /\ mine' = mine \cup {s} /\ gremlinServer' = s /\ ping' = s
  /\ LET looping == [start EXCEPT ![s].at = "timer", ![s].counter = MaxPings, ![s].via = s]
     IN  IF outcome = "complaint"
         THEN /\ Settle(looping, s, "rejected")
              /\ exempt' = exempt \cup {"complaint"}
         ELSE start' = looping /\ UNCHANGED <<status, cleaningArray, exempt>>
  /\ UNCHANGED <<server, es, watching, initialized, pidFile, lives, changes>>

SendPing(s) ==
  /\ Running /\ start[s].at = "timer"
  /\ start' = [start EXCEPT ![s].at = "asked"]
  /\ UNCHANGED <<server, es, watching, status, initialized, gremlinServer, ping,
                 cleaningArray, proc, pidFile, mine, exempt, lives, changes>>

\* Fault: a ping that failed is not sent again.
PingAnsweredOnce(s) ==
  /\ Running /\ start[s].at = "asked"
  /\ \/ /\ Answers
        /\ initialized' = TRUE
        /\ Settle([start EXCEPT ![s].at = "over"], start[s].via, "fulfilled")
     \/ /\ start' = [start EXCEPT ![s].at = "over"]
        /\ UNCHANGED <<status, cleaningArray, initialized>>
  /\ UNCHANGED <<server, es, watching, gremlinServer, ping, proc, pidFile, mine, exempt,
                 lives, changes>>

\* The answer to a ping, in the closure of the start via.
PingAnswered(s) ==
  /\ Running /\ start[s].at = "asked"
  /\ \/ /\ Answers
        /\ initialized' = TRUE
        /\ Settle([start EXCEPT ![s].at = "over"], start[s].via, "fulfilled")
     \/ /\ start' = [start EXCEPT ![s].at = "scheduled", ![s].counter = @ - 1]
        /\ UNCHANGED <<status, cleaningArray, initialized>>
  /\ UNCHANGED <<server, es, watching, gremlinServer, ping, proc, pidFile, mine, exempt,
                 lives, changes>>

\* Fault: the counter is not looked at.
PingForEver(s) ==
  /\ Running /\ start[s].at = "scheduled"
  /\ start' = [start EXCEPT ![s].at = "timer", ![s].via = ping]
  /\ UNCHANGED <<server, es, watching, status, initialized, gremlinServer, ping,
                 cleaningArray, proc, pidFile, mine, exempt, lives, changes>>

\* The timer calls self.ping, which is the closure of the last start that spawned.
PingAgain(s) ==
  /\ Running /\ start[s].at = "scheduled" /\ start[s].counter > 0
  /\ start' = [start EXCEPT ![s].at = "timer", ![s].via = ping]
  /\ UNCHANGED <<server, es, watching, status, initialized, gremlinServer, ping,
                 cleaningArray, proc, pidFile, mine, exempt, lives, changes>>

\* Fault: giving up leaves the process alone.
GiveUpOnly(s) ==
  /\ Running /\ start[s].at = "scheduled" /\ start[s].counter = 0
  /\ Settle([start EXCEPT ![s].at = "over"], ping, "rejected")
  /\ UNCHANGED <<server, es, watching, initialized, gremlinServer, ping, proc, pidFile,
                 mine, exempt, lives, changes>>

GiveUp(s) ==
  /\ Running /\ start[s].at = "scheduled" /\ start[s].counter = 0
  /\ proc' = Kill(gremlinServer)
  /\ Settle([start EXCEPT ![s].at = "over"], ping, "rejected")
  /\ UNCHANGED <<server, es, watching, initialized, gremlinServer, ping, pidFile, mine,
                 exempt, lives, changes>>

-------------------------------------------------------------------------------------
\* The life of the server.

\* pidMixin refuses to start over the file of another process when pid.exclusive is set.
Boot ==
  /\ server = "down" /\ lives < MaxLives /\ lives' = lives + 1
  /\ ~(PidExclusive /\ pidFile)
  /\ server' = "boot" /\ pidFile' = TRUE /\ cleaningArray' = {"pid"}
  /\ es' = "yellow" /\ status' = "yellow" /\ watching' = FALSE
  /\ initialized' = FALSE /\ gremlinServer' = 0 /\ ping' = 0
  /\ start' = [s \in Starts |->
                 IF start[s].at = "idle" THEN NoCall ELSE [NoCall EXCEPT !.at = "over"]]
  /\ mine' = {} /\ exempt' = {}
  /\ UNCHANGED <<proc, changes>>

\* listen, after the plugins: installs the shutdown manager.
Listen ==
  /\ server = "ready" /\ server' = "up"
  /\ UNCHANGED <<es, handler, cleaningArray, proc, pidFile, mine, exempt, lives, changes>>

\* What the tasks do when they are called: stop signals Java, and unlink removes the
\* file at once.
Clean ==
  /\ IF "gremlin" \in cleaningArray THEN Stop ELSE UNCHANGED <<initialized, proc>>
  /\ pidFile' = (pidFile /\ "pid" \notin cleaningArray)

Noted(why) == exempt' = exempt \cup why \cup IF Active = {} THEN {} ELSE {"pending"}

\* SIGINT or SIGTERM when the shutdown manager is there: it starts every task and then
\* sends the signal again.
Signal ==
  /\ server = "up" /\ server' = "closing"
  /\ Clean /\ Noted({})
  /\ UNCHANGED <<es, watching, status, gremlinServer, ping, start, cleaningArray, mine,
                 lives, changes>>

\* The reduce of the shutdown manager passes promises where then takes functions, so
\* it does not wait for a task; that of pid is a promise that is never settled.
Resend ==
  /\ server = "closing" /\ server' = "down"
  /\ UNCHANGED <<es, handler, cleaningArray, proc, pidFile, mine, exempt, lives, changes>>

\* SIGINT, or an exit, before that: only the handlers of pid are there. SIGTERM finds none.
SignalEarly ==
  /\ server \in {"boot", "ready"} /\ server' = "down"
  /\ pidFile' \in {pidFile, FALSE}
  /\ Noted({"early"})
  /\ UNCHANGED <<es, handler, cleaningArray, proc, mine, lives, changes>>

Crash ==
  /\ server # "down" /\ server' = "down"
  /\ Noted({"crash"})
  /\ UNCHANGED <<es, handler, cleaningArray, proc, pidFile, mine, lives, changes>>

-------------------------------------------------------------------------------------
Next ==
  \/ Boot \/ InitPlugin \/ Listen \/ Signal \/ Resend \/ SignalEarly \/ Crash
  \/ \E new \in {"yellow", "red", "green"} : StatusChange(new)
  \/ \E s \in Starts :
       \/ Asked(s) \/ Refused(s) \/ JavaUnread(s) \/ SendPing(s) \/ PingAnswered(s)
       \/ PingAgain(s) \/ GiveUp(s) \/ Serves(s) \/ Dies(s)
       \/ \E outcome \in {"spawn", "complaint"} : Spawn(s, outcome)

Spec == Init /\ [][Next]_vars

\* Calls are answered and timers fire. Nothing obliges Elasticsearch, users, signals or the
\* processes.
Fairness ==
  \A s \in Starts :
    /\ WF_vars(Asked(s)) /\ WF_vars(SendPing(s)) /\ WF_vars(PingAnswered(s))
    /\ WF_vars(PingAgain(s)) /\ WF_vars(GiveUp(s))
    /\ WF_vars(Refused(s) \/ JavaUnread(s) \/ \E outcome \in Outcomes : Spawn(s, outcome))

FairSpec == Spec /\ Fairness

-------------------------------------------------------------------------------------
\* The plugin shows the outcome of a start: its status does not stay yellow once
\* Elasticsearch is green, although two starts may share self.ping, and the promise of
\* the first is then never settled (gremlin_server.js:165). Exempt is a version of Java that
\* the check cannot read.
VerdictReached ==
  (server = "up" /\ status = "yellow" /\ es = "green")
    ~> \/ server # "up" \/ status # "yellow" \/ es # "green"
       \/ \E s \in Starts : start[s].at = "unread"

\* A Java process that runs and was not told to end is the one the handler holds, and the
\* handler either knows that it is up, so that stop ends it, or still waits for its answer:
\* through starts that fail, outages and new starts, but for two starts at a time
\* (gremlin_server/index.js:45).
NoStray == Running /\ "overlap" \notin exempt =>
  \A p \in mine \cap Live : p = gremlinServer /\ (initialized \/ p \in Active)

\* When the server has ended after a signal, every Java process of it was told to end and
\* the pid file is gone. Exempt are a crash, a signal before the shutdown manager is there
\* or while a start is pending, two starts at a time, and a start that was rejected and
\* went on.
CleanEnd ==
  server = "down" /\ exempt = {} => mine \cap Live = {} /\ (lives > 0 => ~pidFile)
====================================================================================
