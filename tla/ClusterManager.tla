--------------------------- MODULE ClusterManager ---------------------------
(***************************************************************************)
(* The cluster manager of the development server and its workers           *)
(* (src/cli/cluster/cluster_manager.js, worker.js): each worker keeps one  *)
(* fork of the program running, replaces it when a file changes, and       *)
(* reacts to the events of the forks, which come late and, for the end of  *)
(* a fork, in any order.                                                   *)
(***************************************************************************)
EXTENDS Integers, FiniteSets

CONSTANTS Workers,   \* the optimizer and the server
          Server,    \* the worker of the server
          Watching,  \* the workers that restart when files change
          Slots      \* bound: forks of a worker not forgotten yet

ASSUME ClusterAssumption ==
    Server \in Workers /\ Watching \subseteq Workers /\ "none" \notin Workers

Forks == Workers \X Slots
None == <<"none", "none">>
Owner(f) == f[1]

VARIABLES fork,       \* by worker: its fork, or None
          online, listening, crashed,   \* workers with that flag
          changes,    \* workers with files in their change buffer
          exitBound,  \* workers whose processBinder listens to the exit of the manager
          life,       \* by fork: what the operating system knows
          failed,     \* forks that ended with an exit code above 0
          killed,     \* forks that were sent SIGTERM
          bound,      \* forks whose events their worker listens to
          events,     \* by fork that ended: the events not delivered yet
          manager     \* "running", or how it ended

flags == <<online, listening, crashed>>
binders == <<exitBound, killed, bound>>
vars == <<fork, flags, changes, binders, life, failed, events, manager>>

TypeOK ==
    /\ fork \in [Workers -> Forks \cup {None}]
    /\ \A w \in Workers : fork[w] # None => Owner(fork[w]) = w
    /\ online \subseteq Workers /\ listening \subseteq Workers /\ crashed \subseteq Workers
    /\ changes \subseteq Watching /\ exitBound \subseteq Workers
    /\ life \in [Forks -> {"free", "booting", "up", "gone"}]
    /\ failed \subseteq Forks /\ killed \subseteq Forks /\ bound \subseteq Forks
    /\ events \in [Forks -> SUBSET {"disconnect", "exit"}]
    /\ manager \in {"starting", "running", "exited", "thrown", "interrupted"}

Alive(f) == life[f] \in {"booting", "up"}
Dead(f) == ~Alive(f) \/ f \in killed
Free(w) == {f \in Forks : Owner(f) = w /\ life[f] = "free"}

Init ==
    /\ fork = [w \in Workers |-> None]
    /\ online = {} /\ listening = {} /\ crashed = {} /\ changes = {} /\ exitBound = {}
    /\ life = [f \in Forks |-> "free"]
    /\ failed = {} /\ killed = {} /\ bound = {}
    /\ events = [f \in Forks |-> {}]
    /\ manager = "starting"

-----------------------------------------------------------------------------
\* shutdown of the workers in W: the forks that are not dead are killed, and nothing more
\* is heard of them but their exit.  The mutant only kills a fork that is online.
VictimsOnline(W) == {fork[w] : w \in {v \in W : fork[v] # None /\ ~Dead(fork[v]) /\ v \in online}}
Victims(W) == {fork[w] : w \in {v \in W : fork[v] # None /\ ~Dead(fork[v])}}
Killed(W) ==
    /\ killed' = killed \cup Victims(W)
    /\ exitBound' = exitBound \ {Owner(f) : f \in Victims(W)}
    /\ bound' = bound \ Victims(W)

\* start of the workers in W.  One that has a fork shuts it down, and the exit starts the
\* next; the others flush their changes and fork.  ended is the fork whose exit is being
\* handled, already cleared.  The mutants forget to look for a fork, to clear it, and to
\* listen to the exit of the manager again.
WithoutLooking(W, ended) == W
WithoutClearing(W, ended) == {w \in W : fork[w] = None}
Without(W, ended) == {w \in W : fork[w] \in {None, ended}}
BindFirst(new) == IF exitBound = {} THEN new ELSE exitBound
Bind(new) == exitBound \cup new
Start(W, ended) ==
    LET new == Without(W, ended)
        chosen == [w \in new |-> CHOOSE f \in Free(w) : TRUE]
        forks == {chosen[w] : w \in new}
        victims == Victims(W \ new)
    IN  /\ \A w \in new : Free(w) # {}
        /\ fork' = [w \in Workers |-> IF w \in new THEN chosen[w] ELSE fork[w]]
        /\ life' = [f \in Forks |-> IF f \in forks THEN "booting" ELSE life[f]]
        /\ killed' = killed \cup victims
        /\ bound' = (bound \ victims) \cup forks
        /\ exitBound' = Bind(new) \ {Owner(f) : f \in victims}

\* startCluster, when the watcher is ready.
StartCluster ==
    /\ manager = "starting" /\ manager' = "running"
    /\ Start(Workers, None)
    /\ changes' = changes \ Without(Workers, None)
    /\ UNCHANGED <<flags, failed, events>>

\* onChange of every worker.  The mutant does not look at watch.
ChangedAll == Workers
Changed == Watching
FileChange ==
    /\ manager = "running"
    /\ Start(Changed, None)
    /\ changes' = (changes \cup Changed) \ Without(Changed, None)
    /\ UNCHANGED <<flags, failed, events, manager>>

\* Two empty lines: a manual restart of the server.
ManualRestart ==
    /\ manager = "running"
    /\ Start({Server}, None)
    /\ changes' = changes \ Without({Server}, None)
    /\ UNCHANGED <<flags, failed, events, manager>>

\* Ctrl-C: the server is shut down and the manager ends by a signal, without an exit event.
Interrupt ==
    /\ manager = "running" /\ manager' = "interrupted"
    /\ Killed({Server})
    /\ UNCHANGED <<fork, flags, changes, life, failed, events>>

-----------------------------------------------------------------------------
\* The events of a fork that its worker listens to.
Online(f) ==
    /\ life[f] = "booting" /\ life' = [life EXCEPT ![f] = "up"]
    /\ IF f \in bound /\ manager = "running"
       THEN online' = online \cup {Owner(f)} /\ crashed' = crashed \ {Owner(f)}
       ELSE UNCHANGED <<online, crashed>>
    /\ UNCHANGED <<fork, listening, changes, binders, failed, events, manager>>

Listening(f) ==
    /\ manager = "running" /\ life[f] = "up" /\ f \in bound
    /\ listening' = listening \cup {Owner(f)}
    /\ UNCHANGED <<fork, online, crashed, changes, binders, life, failed, events, manager>>

\* A broadcast is sent to the fork of every other worker that is online. If there is no such
\* fork, send is a TypeError; if its channel is closed, send emits an error to which nobody
\* listens. Either is thrown, and the manager exits.
Reached(to) == fork[to] # None /\ Alive(fork[to])
Broadcast(f) ==
    /\ manager = "running" /\ life[f] = "up" /\ f \in bound
    /\ IF \E to \in online \ {Owner(f)} : ~Reached(to)
       THEN manager' = "thrown" /\ Killed(exitBound)
       ELSE UNCHANGED <<binders, manager>>
    /\ UNCHANGED <<fork, flags, changes, life, failed, events>>

Disconnect(f) ==
    /\ manager = "running" /\ "disconnect" \in events[f]
    /\ events' = [events EXCEPT ![f] = @ \ {"disconnect"}]
    /\ IF f \in bound
       THEN online' = online \ {Owner(f)} /\ listening' = listening \ {Owner(f)}
       ELSE UNCHANGED <<online, listening>>
    /\ UNCHANGED <<fork, crashed, changes, binders, life, failed, manager>>

\* onExit.  A worker that does not watch takes the manager with it when its fork fails.
\* The mutant keeps online.
LostNot(w) == online
Lost(w) == online \ {w}
Exit(f) ==
    LET w == Owner(f)
        fails == f \in failed
    IN  /\ manager = "running" /\ "exit" \in events[f] /\ fork[w] = f
        /\ events' = [events EXCEPT ![f] = @ \ {"exit"}]
        /\ online' = Lost(w) /\ listening' = listening \ {w}
        /\ crashed' = IF fails THEN crashed \cup {w} ELSE crashed \ {w}
        /\ \/ /\ ~fails
              /\ Start({w}, f)
              /\ changes' = changes \ Without({w}, f) /\ UNCHANGED manager
           \/ /\ fails /\ w \in Watching
              /\ fork' = [fork EXCEPT ![w] = None]
              /\ UNCHANGED <<changes, binders, life, manager>>
           \/ /\ fails /\ w \notin Watching
              /\ fork' = [fork EXCEPT ![w] = None]
              /\ manager' = "exited" /\ Killed(exitBound)
              /\ UNCHANGED <<changes, life>>
        /\ UNCHANGED failed

\* A fork ends: killed, by itself, with or without an error.
Ends(f) ==
    /\ Alive(f) /\ life' = [life EXCEPT ![f] = "gone"]
    /\ failed' \in {failed, failed \cup {f}}
    /\ events' = [events EXCEPT ![f] = {"disconnect", "exit"}]
    /\ UNCHANGED <<fork, flags, changes, binders, manager>>

\* All is delivered: the slot can stand for another fork.
Forgotten(f) ==
    /\ life[f] = "gone" /\ events[f] = {} /\ life' = [life EXCEPT ![f] = "free"]
    /\ failed' = failed \ {f} /\ killed' = killed \ {f} /\ bound' = bound \ {f}
    /\ UNCHANGED <<fork, flags, changes, exitBound, events, manager>>

Next ==
    \/ StartCluster \/ FileChange \/ ManualRestart \/ Interrupt
    \/ \E f \in Forks : Online(f) \/ Listening(f) \/ Broadcast(f) \/ Disconnect(f) \/ Exit(f)
                          \/ Ends(f) \/ Forgotten(f)

Spec == Init /\ [][Next]_vars

\* A fork that was killed ends, and the events of the forks are delivered.
FairSpec ==
    /\ Spec
    /\ \A f \in Forks :
        /\ WF_vars(f \in killed /\ Ends(f)) /\ WF_vars(Disconnect(f)) /\ WF_vars(Exit(f))
        /\ WF_vars(Forgotten(f))

-----------------------------------------------------------------------------
\* A worker never has two forks that run, however changes, manual restarts and exits fall.
OneFork == \A w \in Workers : \A f \in Forks : (Owner(f) = w /\ Alive(f)) => fork[w] = f

\* A change in the buffer of a worker is not forgotten: the fork that runs without it is
\* being replaced, or its failure is waited for or was reported.
ChangePending ==
    manager = "running" =>
        \A w \in changes : (fork[w] # None /\ Dead(fork[w])) \/ w \in crashed

\* The manager dies of a broadcast only between the end of a fork and its exit event: online
\* may outlive a fork, in particular one that was killed (worker.js:95), but no broadcast is
\* sent to a worker that has handled the exit of its fork (worker.js:63).
DiesBeforeExit ==
    manager = "thrown" => \E w \in online : fork[w] # None /\ "exit" \in events[fork[w]]

\* When the manager exits because the optimizer failed or a broadcast threw, every fork that
\* still runs was sent SIGTERM, which starts its cleanup; after Ctrl-C, that of the server was.
GracefulEnd ==
    \A f \in Forks :
        Alive(f) /\ (manager \in {"exited", "thrown"} \/ (manager = "interrupted" /\ Owner(f) = Server))
            => f \in killed

\* A change ends up in a fork started after it, or the fork that was running fails.
ChangeTakesEffect ==
    \A w \in Watching :
        w \in changes ~> (w \notin changes \/ w \in crashed \/ manager # "running")
=============================================================================
