------------------------ MODULE ClusterManagerProofs ------------------------
(***************************************************************************)
(* Proofs about the cluster manager, for any workers.  The inductive       *)
(* invariant says what a worker knows of its forks: the fork it keeps is   *)
(* alive or has an exit to come, a fork that was killed is not listened    *)
(* to, and one that runs and was not killed will be when the manager       *)
(* exits.                                                                  *)
(***************************************************************************)
EXTENDS ClusterManager, TLAPS

\* Events come from forks that ended, and the fork of a worker has not been forgotten.
Delivered ==
    /\ \A f \in Forks : events[f] # {} => life[f] = "gone"
    /\ \A w \in Workers : fork[w] # None => Alive(fork[w]) \/ "exit" \in events[fork[w]]

\* The forks that were killed exist, and are not listened to.
Silenced == \A f \in killed : life[f] # "free" /\ f \notin bound

\* Who runs and was not killed will be killed at the exit of the manager.
Covered == \A f \in Forks : (Alive(f) /\ f \notin killed) => Owner(f) \in exitBound

\* A worker with changes has a dead fork, or none because it crashed.
Waiting ==
    \A w \in changes : IF fork[w] = None THEN w \in crashed ELSE Dead(fork[w])

\* A worker that is online has a fork.
OnlineForked == \A w \in online : fork[w] # None

Inv ==
    /\ TypeOK /\ OneFork /\ Delivered /\ Silenced /\ Covered /\ Waiting /\ OnlineForked
    /\ DiesBeforeExit /\ GracefulEnd

\* None stands for no fork, and a fork has a worker.
LEMMA NoneIsNoFork == None \notin Forks /\ \A f \in Forks : Owner(f) \in Workers
BY ClusterAssumption DEF None, Forks, Owner

\* What start does, in terms of the forks g it chooses.
Chosen(W, ended, g) ==
    LET new == Without(W, ended)
        victims == Victims(W \ new)
    IN  /\ g \in [new -> Forks]
        /\ \A w \in new : Owner(g[w]) = w /\ life[g[w]] = "free"
        /\ fork' = [w \in Workers |-> IF w \in new THEN g[w] ELSE fork[w]]
        /\ life' = [f \in Forks |-> IF \E w \in new : f = g[w] THEN "booting" ELSE life[f]]
        /\ killed' = killed \cup victims
        /\ bound' = (bound \ victims) \cup {g[w] : w \in new}
        /\ exitBound' = (exitBound \cup new) \ {Owner(f) : f \in victims}

\* The forks that start chooses are such a g.
LEMMA Starting ==
    ASSUME NEW W, NEW ended, Start(W, ended)
    PROVE  \E g : Chosen(W, ended, g)
<1> DEFINE new == Without(W, ended)
           g == [w \in new |-> CHOOSE f \in Free(w) : TRUE]
<1>1. \A w \in new : g[w] \in Free(w)
  BY DEF Start
<1>2. Chosen(W, ended, g)
  BY <1>1 DEF Chosen, Start, Free, Bind
<1> QED
  BY <1>2

\* The victims of shutdown are forks of the workers that run and were not killed.
LEMMA Victim ==
    ASSUME TypeOK, NEW W \in SUBSET Workers
    PROVE  /\ Victims(W) \subseteq Forks \ killed
           /\ \A f \in Victims(W) : Alive(f) /\ Owner(f) \in W /\ fork[Owner(f)] = f
           /\ \A w \in W : fork[w] # None => (fork[w] \in Victims(W) \/ Dead(fork[w]))
BY DEF Victims, TypeOK, Dead

\* The invariant holds when the manager is made.
LEMMA InitInv == Init => Inv
<1> SUFFICES ASSUME Init PROVE Inv
  OBVIOUS
<1>1. TypeOK
  BY DEF Init, TypeOK
<1>2. OneFork /\ Delivered /\ Silenced /\ Covered /\ Waiting /\ OnlineForked
  BY DEF Init, OneFork, Delivered, Silenced, Covered, Waiting, OnlineForked, Alive
<1>3. DiesBeforeExit /\ GracefulEnd
  BY DEF Init, DiesBeforeExit, GracefulEnd, Alive
<1> QED
  BY <1>1, <1>2, <1>3 DEF Inv
-----------------------------------------------------------------------------
\* A start keeps what is known of the forks.
LEMMA StartKeeps ==
    ASSUME Inv, NEW W \in SUBSET Workers, NEW ended \in Forks \cup {None},
           ended # None => ~Alive(ended), Start(W, ended)
    PROVE  /\ fork' \in [Workers -> Forks \cup {None}]
           /\ \A w \in Workers : fork'[w] # None => Owner(fork'[w]) = w
           /\ life' \in [Forks -> {"free", "booting", "up", "gone"}]
           /\ killed' \subseteq Forks /\ bound' \subseteq Forks /\ exitBound' \subseteq Workers
           /\ OneFork' /\ Silenced' /\ Covered'
           /\ \A f \in Forks : life[f] # "free" => life'[f] = life[f]
           /\ \A w \in Without(W, ended) : fork'[w] # None /\ life'[fork'[w]] = "booting"
           /\ \A w \in Workers \ Without(W, ended) : fork'[w] = fork[w]
           /\ \A w \in W \ Without(W, ended) : fork[w] # None /\ Dead(fork[w])'
           /\ killed \subseteq killed'
<1> DEFINE new == Without(W, ended)
           victims == Victims(W \ new)
<1>1. PICK g : Chosen(W, ended, g)
  BY Starting
<1>2. /\ g \in [new -> Forks] /\ \A w \in new : Owner(g[w]) = w /\ life[g[w]] = "free"
      /\ fork' = [w \in Workers |-> IF w \in new THEN g[w] ELSE fork[w]]
      /\ life' = [f \in Forks |-> IF \E w \in new : f = g[w] THEN "booting" ELSE life[f]]
      /\ killed' = killed \cup victims
      /\ bound' = (bound \ victims) \cup {g[w] : w \in new}
      /\ exitBound' = (exitBound \cup new) \ {Owner(f) : f \in victims}
  BY <1>1 DEF Chosen
<1>3. new \subseteq W /\ new \subseteq Workers /\ \A w \in new : fork[w] \in {None, ended}
  BY DEF Without
<1>4. /\ victims \subseteq Forks \ killed
      /\ \A f \in victims : Alive(f) /\ Owner(f) \in W \ new /\ fork[Owner(f)] = f
      /\ \A w \in W \ new : fork[w] # None => (fork[w] \in victims \/ Dead(fork[w]))
  BY Victim DEF Inv
<1>5. \A w \in new : g[w] \in Forks /\ g[w] # None
  BY <1>2, NoneIsNoFork
<1> HIDE DEF new, victims
<1>6. \A f \in Forks : life[f] # "free" => life'[f] = life[f]
  BY <1>2
<1>7. \A f \in Forks : Alive(f)' <=> (Alive(f) \/ \E w \in new : f = g[w])
  BY <1>2 DEF Alive
<1>8. fork' \in [Workers -> Forks \cup {None}] /\ \A w \in Workers : fork'[w] # None => Owner(fork'[w]) = w
  BY <1>2, <1>3, <1>5 DEF Inv, TypeOK
<1>9. life' \in [Forks -> {"free", "booting", "up", "gone"}]
  BY <1>2 DEF Inv, TypeOK
<1>10. killed' \subseteq Forks /\ bound' \subseteq Forks /\ exitBound' \subseteq Workers
  BY <1>2, <1>3, <1>4, <1>5 DEF Inv, TypeOK
<1>11. OneFork'
  <2> SUFFICES ASSUME NEW w \in Workers, NEW f \in Forks, Owner(f) = w, Alive(f)'
               PROVE  fork'[w] = f
    BY DEF OneFork
  <2>1. CASE Alive(f)
    <3>1. fork[w] = f /\ f # None
      BY <2>1, NoneIsNoFork DEF Inv, OneFork
    <3>2. w \notin new
      BY <1>3, <2>1, <3>1
    <3> QED
      BY <1>2, <3>1, <3>2
  <2>2. CASE \E v \in new : f = g[v]
    BY <1>2, <1>3, <2>2
  <2> QED
    BY <1>7, <2>1, <2>2
<1>12. Silenced'
  <2> SUFFICES ASSUME NEW f \in killed' PROVE life'[f] # "free" /\ f \notin bound'
    BY DEF Silenced
  <2>1. f \in Forks /\ life[f] # "free"
    BY <1>2, <1>4 DEF Inv, Silenced, TypeOK, Alive
  <2>2. f \notin bound \ victims
    BY <1>2 DEF Inv, Silenced
  <2> QED
    BY <1>2, <1>6, <2>1, <2>2
<1>13. Covered'
  <2> SUFFICES ASSUME NEW f \in Forks, Alive(f)', f \notin killed'
               PROVE  Owner(f) \in exitBound'
    BY DEF Covered
  <2>1. \A v \in victims : Owner(v) # Owner(f)
    <3> SUFFICES ASSUME NEW v \in victims, Owner(v) = Owner(f) PROVE FALSE
      OBVIOUS
    <3>1. fork[Owner(f)] = v /\ Owner(f) \notin new
      BY <1>4
    <3>2. CASE Alive(f)
      BY <1>2, <3>1, <3>2, NoneIsNoFork DEF Inv, OneFork
    <3> QED
      BY <1>2, <1>7, <3>1, <3>2
  <2>2. Owner(f) \in exitBound \cup new
    BY <1>2, <1>7 DEF Inv, Covered
  <2> QED
    BY <1>2, <2>1, <2>2
<1>14. \A w \in new : fork'[w] # None /\ life'[fork'[w]] = "booting"
  BY <1>2, <1>3, <1>5
<1>15. \A w \in Workers \ new : fork'[w] = fork[w]
  BY <1>2
<1>16. \A w \in W \ new : fork[w] # None /\ Dead(fork[w])'
  <2> SUFFICES ASSUME NEW w \in W \ new PROVE fork[w] # None /\ Dead(fork[w])'
    OBVIOUS
  <2>1. fork[w] # None
    BY DEF new, Without
  <2>2. CASE fork[w] \in victims
    BY <1>2, <1>15, <2>1, <2>2 DEF Dead
  <2>3. CASE Dead(fork[w])
    <3>1. fork[w] \in Forks
      BY <2>1 DEF Inv, TypeOK
    <3>2. life[fork[w]] # "free" \/ fork[w] \in killed
      BY <2>1 DEF Inv, Delivered, Alive, TypeOK
    <3> QED
      BY <1>2, <1>6, <1>15, <2>1, <2>3, <3>1, <3>2 DEF Dead, Alive
  <2> QED
    BY <1>4, <2>1, <2>2, <2>3
<1> QED
  BY <1>2, <1>6, <1>8, <1>9, <1>10, <1>11, <1>12, <1>13, <1>14, <1>15, <1>16 DEF new
-----------------------------------------------------------------------------
\* The actions that start workers: the cluster, a change, a manual restart.
LEMMA StartInv ==
    ASSUME Inv, NEW W \in SUBSET Workers, Start(W, None), UNCHANGED <<flags, failed, events>>,
           changes' \in {changes \ Without(W, None), (changes \cup W) \ Without(W, None)},
           changes' \subseteq Watching,
           manager \in {"starting", "running"}, manager' = "running"
    PROVE  Inv'
<1> USE DEF Inv
<1>1. /\ fork' \in [Workers -> Forks \cup {None}]
      /\ \A w \in Workers : fork'[w] # None => Owner(fork'[w]) = w
      /\ life' \in [Forks -> {"free", "booting", "up", "gone"}]
      /\ killed' \subseteq Forks /\ bound' \subseteq Forks /\ exitBound' \subseteq Workers
      /\ OneFork' /\ Silenced' /\ Covered'
      /\ \A f \in Forks : life[f] # "free" => life'[f] = life[f]
      /\ \A w \in Without(W, None) : fork'[w] # None /\ life'[fork'[w]] = "booting"
      /\ \A w \in Workers \ Without(W, None) : fork'[w] = fork[w]
      /\ \A w \in W \ Without(W, None) : fork[w] # None /\ Dead(fork[w])'
      /\ killed \subseteq killed'
  BY StartKeeps
<1>2. TypeOK'
  BY <1>1 DEF flags, TypeOK
<1>3. Delivered'
  <2>1. \A f \in Forks : events'[f] # {} => life'[f] = "gone"
    BY <1>1 DEF Delivered
  <2>2. ASSUME NEW w \in Workers, fork'[w] # None
        PROVE  Alive(fork[w])' \/ "exit" \in events'[fork'[w]]
    <3>1. CASE w \in Without(W, None)
      BY <1>1, <3>1 DEF Alive
    <3>2. CASE w \notin Without(W, None)
      BY <1>1, <2>2, <3>2 DEF Delivered, Alive, TypeOK
    <3> QED
      BY <3>1, <3>2
  <2> QED
    BY <2>1, <2>2 DEF Delivered
<1>4. Waiting'
  <2> SUFFICES ASSUME NEW w \in changes'
               PROVE  IF fork'[w] = None THEN w \in crashed' ELSE Dead(fork[w])'
    BY DEF Waiting
  <2>1. w \notin Without(W, None) /\ w \in Workers /\ fork'[w] = fork[w]
    BY <1>1, ClusterAssumption DEF TypeOK
  <2>2. CASE w \in W
    BY <1>1, <2>1, <2>2
  <2>3. CASE w \notin W
    <3>1. w \in changes
      BY <2>3
    <3>2. CASE fork[w] = None
      BY <2>1, <3>1, <3>2 DEF Waiting, flags
    <3>3. CASE fork[w] # None
      <4>1. Dead(fork[w]) /\ fork[w] \in Forks /\ life[fork[w]] # "free"
        BY <3>1, <3>3, <2>1 DEF Waiting, TypeOK, Delivered, Alive
      <4> QED
        BY <1>1, <2>1, <3>3, <4>1 DEF Dead, Alive
    <3> QED
      BY <3>2, <3>3
  <2> QED
    BY <2>2, <2>3
<1>5. OnlineForked'
  BY <1>1 DEF OnlineForked, flags, TypeOK
<1>6. DiesBeforeExit' /\ GracefulEnd'
  BY DEF DiesBeforeExit, GracefulEnd
<1> QED
  BY <1>1, <1>2, <1>3, <1>4, <1>5, <1>6
\* The shutdown of every worker in W, whatever fork becomes.
LEMMA KillKeeps ==
    ASSUME Inv, NEW W \in SUBSET Workers, Killed(W), UNCHANGED life
    PROVE  /\ killed' \subseteq Forks /\ bound' \subseteq Forks /\ exitBound' \subseteq Workers
           /\ killed \subseteq killed' /\ Silenced' /\ Covered'
           /\ \A f \in Forks : (Alive(f) /\ Owner(f) \in W) => f \in killed'
<1> USE DEF Inv
<1>1. /\ Victims(W) \subseteq Forks \ killed
      /\ \A f \in Victims(W) : Alive(f) /\ Owner(f) \in W /\ fork[Owner(f)] = f
      /\ \A w \in W : fork[w] # None => (fork[w] \in Victims(W) \/ Dead(fork[w]))
  BY Victim
<1>2. /\ killed' = killed \cup Victims(W)
      /\ exitBound' = exitBound \ {Owner(f) : f \in Victims(W)}
      /\ bound' = bound \ Victims(W)
  BY DEF Killed
<1>3. killed' \subseteq Forks /\ bound' \subseteq Forks /\ exitBound' \subseteq Workers
  BY <1>1, <1>2 DEF TypeOK
<1>4. Silenced'
  BY <1>1, <1>2 DEF Silenced, Alive
<1>5. Covered'
  <2> SUFFICES ASSUME NEW f \in Forks, Alive(f), f \notin killed' PROVE Owner(f) \in exitBound'
    BY DEF Covered, Alive
  <2>1. \A v \in Victims(W) : Owner(v) # Owner(f)
    BY <1>1, <1>2, NoneIsNoFork DEF OneFork
  <2> QED
    BY <1>2, <2>1 DEF Covered
<1>6. ASSUME NEW f \in Forks, Alive(f), Owner(f) \in W PROVE f \in killed'
  <2>1. fork[Owner(f)] = f /\ f # None
    BY <1>6, NoneIsNoFork DEF OneFork
  <2> QED
    BY <1>1, <1>2, <1>6, <2>1 DEF Dead
<1> QED
  BY <1>2, <1>3, <1>4, <1>5, <1>6

\* Ctrl-C keeps it.
LEMMA InterruptInv == Inv /\ Interrupt => Inv'
<1> SUFFICES ASSUME Inv, Interrupt PROVE Inv'
  OBVIOUS
<1> USE DEF Inv, Interrupt, flags
<1>1. /\ killed' \subseteq Forks /\ bound' \subseteq Forks /\ exitBound' \subseteq Workers
      /\ killed \subseteq killed' /\ Silenced' /\ Covered'
      /\ \A f \in Forks : (Alive(f) /\ Owner(f) = Server) => f \in killed'
  BY KillKeeps, ClusterAssumption
<1>2. TypeOK' /\ OneFork' /\ Delivered' /\ OnlineForked'
  BY <1>1 DEF TypeOK, OneFork, Delivered, OnlineForked, Alive
<1>3. Waiting'
  BY <1>1 DEF Waiting, Dead, Alive
<1>4. DiesBeforeExit' /\ GracefulEnd'
  BY <1>1 DEF DiesBeforeExit, GracefulEnd, Alive
<1> QED
  BY <1>1, <1>2, <1>3, <1>4

\* A fork that has booted keeps it.
LEMMA OnlineInv == ASSUME Inv, NEW f \in Forks, Online(f) PROVE Inv'
<1> USE DEF Inv, Online, flags, binders
<1>1. /\ life[f] = "booting" /\ life' = [life EXCEPT ![f] = "up"]
      /\ UNCHANGED <<fork, changes, exitBound, killed, bound, failed, events, manager, listening>>
  OBVIOUS
<1>2. \A v \in Forks : (Alive(v)' <=> Alive(v)) /\ (life'[v] = "free" <=> life[v] = "free")
                                               /\ (life'[v] = "gone" <=> life[v] = "gone")
  BY <1>1 DEF Alive, TypeOK
<1>3. Owner(f) \in Workers /\ fork[Owner(f)] = f /\ f # None
  BY <1>1, NoneIsNoFork DEF OneFork, Alive
<1>4. TypeOK'
  BY <1>1, <1>3 DEF TypeOK
<1>5. OneFork' /\ Delivered' /\ Silenced' /\ Covered' /\ DiesBeforeExit' /\ GracefulEnd'
  BY <1>1, <1>2 DEF OneFork, Delivered, Silenced, Covered, DiesBeforeExit, GracefulEnd, TypeOK
<1>6. Waiting'
  <2> SUFFICES ASSUME NEW w \in changes
               PROVE  IF fork[w] = None THEN w \in crashed' ELSE Dead(fork[w])'
    BY <1>1 DEF Waiting
  <2>1. w \in Workers
    BY ClusterAssumption DEF TypeOK
  <2>2. CASE fork[w] = None
    BY <1>3, <2>2 DEF Waiting
  <2>3. CASE fork[w] # None
    <3>1. fork[w] \in Forks /\ Dead(fork[w])
      BY <2>1, <2>3 DEF TypeOK, Waiting
    <3>2. Dead(fork[w])'
      BY <1>1, <1>2, <3>1 DEF Dead
    <3> QED
      BY <1>1, <2>3, <3>2
  <2> QED
    BY <2>2, <2>3
<1>7. OnlineForked'
  BY <1>1, <1>3 DEF OnlineForked
<1> QED
  BY <1>4, <1>5, <1>6, <1>7

\* A broadcast that throws is one to a fork that is gone and whose exit is to come, and every
\* fork that runs is killed.
LEMMA BroadcastInv == ASSUME Inv, NEW f \in Forks, Broadcast(f) PROVE Inv'
<1> USE DEF Inv, flags, binders
<1>1. /\ manager = "running"
      /\ UNCHANGED <<fork, online, listening, crashed, changes, life, failed, events>>
  BY DEF Broadcast
<1>2. CASE \E to \in online \ {Owner(f)} : ~Reached(to)
  <2>1. manager' = "thrown" /\ Killed(exitBound)
    BY <1>2 DEF Broadcast
  <2>2. /\ killed' \subseteq Forks /\ bound' \subseteq Forks /\ exitBound' \subseteq Workers
        /\ killed \subseteq killed' /\ Silenced' /\ Covered'
        /\ \A x \in Forks : (Alive(x) /\ Owner(x) \in exitBound) => x \in killed'
    BY <1>1, <2>1, KillKeeps DEF TypeOK
  <2>3. TypeOK' /\ OneFork' /\ Delivered' /\ OnlineForked'
    BY <1>1, <2>1, <2>2 DEF TypeOK, OneFork, Delivered, OnlineForked, Alive
  <2>4. Waiting'
    BY <1>1, <2>2 DEF Waiting, Dead, Alive
  <2>5. DiesBeforeExit'
    BY <1>1, <1>2 DEF DiesBeforeExit, Reached, OnlineForked, Delivered, TypeOK
  <2>6. GracefulEnd'
    BY <1>1, <2>2 DEF GracefulEnd, Covered, Alive
  <2> QED
    BY <2>2, <2>3, <2>4, <2>5, <2>6
<1>3. CASE UNCHANGED <<binders, manager>>
  <2>1. UNCHANGED vars
    BY <1>1, <1>3 DEF vars
  <2> QED
    BY <2>1 DEF vars, TypeOK, OneFork, Delivered, Silenced, Covered, Waiting, OnlineForked,
       DiesBeforeExit, GracefulEnd, Alive, Dead
<1> QED
  <2>1. (\E to \in online \ {Owner(f)} : ~Reached(to)) \/ UNCHANGED <<binders, manager>>
    BY DEF Broadcast
  <2> QED
    BY <1>2, <1>3, <2>1

\* A listening message of a fork, and its disconnection, keep it.
LEMMA MessageInv == ASSUME Inv, NEW f \in Forks, Listening(f) \/ Disconnect(f) PROVE Inv'
<1> USE DEF Inv, flags, binders
<1>1. CASE Listening(f)
  BY <1>1, NoneIsNoFork DEF Listening, TypeOK, OneFork, Delivered, Silenced, Covered, Waiting, OnlineForked,
     DiesBeforeExit, GracefulEnd, Alive, Dead
<1>2. CASE Disconnect(f)
  <2>1. /\ manager = "running" /\ events' = [events EXCEPT ![f] = @ \ {"disconnect"}] /\ events[f] # {}
        /\ online' \subseteq online /\ listening' \subseteq listening
        /\ UNCHANGED <<fork, crashed, changes, exitBound, killed, bound, life, failed, manager>>
    BY <1>2 DEF Disconnect
  <2>2. TypeOK'
    BY <2>1 DEF TypeOK
  <2>3. Delivered'
    BY <2>1 DEF Delivered, TypeOK, Alive
  <2> QED
    BY <2>1, <2>2, <2>3 DEF OneFork, Silenced, Covered, Waiting, OnlineForked, DiesBeforeExit,
       GracefulEnd, Alive, Dead
<1> QED
  BY <1>1, <1>2

\* After the exit of its fork, a worker has the next one, or none and it crashed.
LEMMA ExitInv == ASSUME Inv, NEW f \in Forks, Exit(f) PROVE Inv'
<1> DEFINE w == Owner(f)
<1> USE DEF Inv, flags, binders
<1>1. /\ w \in Workers /\ f # None /\ fork[w] = f /\ life[f] = "gone" /\ ~Alive(f)
      /\ manager = "running" /\ events' = [events EXCEPT ![f] = @ \ {"exit"}]
      /\ online' = online \ {w} /\ listening' = listening \ {w} /\ failed' = failed
      /\ crashed' = IF f \in failed THEN crashed \cup {w} ELSE crashed \ {w}
      /\ manager' \in {"running", "exited"}
  BY NoneIsNoFork DEF Exit, Delivered, Lost, Alive
<1>2. \A v \in Workers : v # w => fork[v] # f
  BY <1>1 DEF TypeOK
<1>3. /\ events' \in [Forks -> SUBSET {"disconnect", "exit"}] /\ failed' \subseteq Forks
      /\ online' \subseteq Workers /\ listening' \subseteq Workers /\ crashed' \subseteq Workers
  BY <1>1 DEF TypeOK
<1>4. \A x \in Forks : events'[x] # {} => life[x] = "gone"
  BY <1>1 DEF Delivered, TypeOK
<1>5. \A x \in Forks : x # f => events'[x] = events[x]
  BY <1>1 DEF TypeOK
<1>6. CASE f \notin failed
  <2>1. Start({w}, f) /\ changes' = changes \ {w} /\ manager' = "running"
    BY <1>1, <1>6 DEF Exit, Without
  <2>2. Without({w}, f) = {w}
    BY <1>1 DEF Without
  <2>3. /\ fork' \in [Workers -> Forks \cup {None}]
        /\ \A v \in Workers : fork'[v] # None => Owner(fork'[v]) = v
        /\ life' \in [Forks -> {"free", "booting", "up", "gone"}]
        /\ killed' \subseteq Forks /\ bound' \subseteq Forks /\ exitBound' \subseteq Workers
        /\ OneFork' /\ Silenced' /\ Covered'
        /\ \A x \in Forks : life[x] # "free" => life'[x] = life[x]
        /\ fork'[w] # None /\ life'[fork'[w]] = "booting"
        /\ \A v \in Workers \ {w} : fork'[v] = fork[v]
        /\ killed \subseteq killed'
    <3> HIDE DEF w, Inv
    <3>1. {w} \in SUBSET Workers /\ f \in Forks \cup {None} /\ (f # None => ~Alive(f)) /\ Start({w}, f)
      BY <1>1, <2>1
    <3>2. /\ fork' \in [Workers -> Forks \cup {None}]
          /\ \A v \in Workers : fork'[v] # None => Owner(fork'[v]) = v
          /\ life' \in [Forks -> {"free", "booting", "up", "gone"}]
          /\ killed' \subseteq Forks /\ bound' \subseteq Forks /\ exitBound' \subseteq Workers
          /\ OneFork' /\ Silenced' /\ Covered'
          /\ \A x \in Forks : life[x] # "free" => life'[x] = life[x]
          /\ \A v \in Without({w}, f) : fork'[v] # None /\ life'[fork'[v]] = "booting"
          /\ \A v \in Workers \ Without({w}, f) : fork'[v] = fork[v]
          /\ killed \subseteq killed'
      BY <3>1, StartKeeps
    <3> QED
      BY <2>2, <3>2
  <2>4. TypeOK'
    BY <1>3, <2>1, <2>3 DEF TypeOK
  <2>5. Delivered'
    <3>1. ASSUME NEW v \in Workers, v # w, fork[v] # None
          PROVE  Alive(fork[v])' \/ "exit" \in events'[fork[v]]
      BY <1>2, <1>5, <2>3, <3>1 DEF Delivered, Alive, TypeOK
    <3>2. \A v \in Workers : fork'[v] # None => Alive(fork[v])' \/ "exit" \in events'[fork'[v]]
      <4> SUFFICES ASSUME NEW v \in Workers, fork'[v] # None
                   PROVE  Alive(fork[v])' \/ "exit" \in events'[fork'[v]]
        OBVIOUS
      <4>1. CASE v = w
        BY <2>3, <4>1 DEF Alive
      <4>2. CASE v # w
        BY <2>3, <3>1, <4>2 DEF Alive
      <4> QED
        BY <4>1, <4>2
    <3> QED
      BY <1>4, <2>3, <3>2 DEF Delivered
  <2>6. Waiting'
    <3> SUFFICES ASSUME NEW v \in changes, v # w
                 PROVE  IF fork'[v] = None THEN v \in crashed' ELSE Dead(fork[v])'
      BY <2>1 DEF Waiting
    <3>1. v \in Workers /\ fork'[v] = fork[v]
      BY <2>3, ClusterAssumption DEF TypeOK
    <3>2. CASE fork[v] = None
      BY <1>1, <1>6, <3>1, <3>2 DEF Waiting
    <3>3. CASE fork[v] # None
      <4>1. fork[v] \in Forks /\ Dead(fork[v]) /\ life[fork[v]] # "free"
        BY <3>1, <3>3 DEF TypeOK, Waiting, Delivered, Alive
      <4>2. Dead(fork[v])'
        BY <2>3, <3>1, <4>1 DEF Dead, Alive
      <4> QED
        BY <3>1, <3>3, <4>2
    <3> QED
      BY <3>2, <3>3
  <2>7. OnlineForked'
    BY <1>1, <2>3 DEF OnlineForked, TypeOK
  <2>8. DiesBeforeExit' /\ GracefulEnd'
    BY <2>1 DEF DiesBeforeExit, GracefulEnd
  <2> QED
    BY <2>3, <2>4, <2>5, <2>6, <2>7, <2>8
<1>7. CASE f \in failed
  <2>1. /\ fork' = [fork EXCEPT ![w] = None] /\ crashed' = crashed \cup {w}
        /\ UNCHANGED <<changes, life>>
        /\ \/ w \in Watching /\ UNCHANGED <<exitBound, killed, bound, manager>>
           \/ w \notin Watching /\ manager' = "exited" /\ Killed(exitBound)
    BY <1>1, <1>7 DEF Exit
  <2>2. /\ killed' \subseteq Forks /\ bound' \subseteq Forks /\ exitBound' \subseteq Workers
        /\ killed \subseteq killed' /\ Silenced' /\ Covered'
    <3>1. CASE UNCHANGED <<exitBound, killed, bound, manager>>
      BY <2>1, <3>1 DEF TypeOK, Silenced, Covered, Alive
    <3>2. CASE Killed(exitBound)
      <4>1. exitBound \in SUBSET Workers
        BY DEF TypeOK
      <4> QED
        BY <2>1, <3>2, <4>1, KillKeeps
    <3> QED
      BY <2>1, <3>1, <3>2
  <2>3. TypeOK'
    BY <1>1, <1>3, <2>1, <2>2 DEF TypeOK
  <2>4. OneFork' /\ OnlineForked'
    BY <1>1, <2>1 DEF OneFork, OnlineForked, TypeOK, Alive
  <2>5. Delivered'
    BY <1>1, <1>2, <1>4, <1>5, <2>1 DEF Delivered, Alive, TypeOK
  <2>6. Waiting'
    <3> SUFFICES ASSUME NEW v \in changes
                 PROVE  IF fork'[v] = None THEN v \in crashed' ELSE Dead(fork[v])'
      BY <2>1 DEF Waiting
    <3>1. v \in Workers
      BY ClusterAssumption DEF TypeOK
    <3>2. CASE v = w \/ fork[v] = None
      BY <1>1, <2>1, <3>1, <3>2 DEF Waiting, TypeOK
    <3>3. CASE v # w /\ fork[v] # None
      <4>1. fork'[v] = fork[v] /\ Dead(fork[v])'
        BY <2>1, <2>2, <3>1, <3>3 DEF Waiting, TypeOK, Dead, Alive
      <4> QED
        BY <3>3, <4>1
    <3> QED
      BY <3>2, <3>3
  <2>7. DiesBeforeExit'
    BY <1>1 DEF DiesBeforeExit
  <2>8. GracefulEnd'
    <3>1. CASE manager' = "running"
      BY <3>1 DEF GracefulEnd
    <3>2. CASE Killed(exitBound)
      <4>1. \A x \in Forks : (Alive(x) /\ Owner(x) \in exitBound) => x \in killed'
        <5>1. exitBound \in SUBSET Workers
          BY DEF TypeOK
        <5> QED
          BY <2>1, <3>2, <5>1, KillKeeps
      <4>2. \A x \in Forks : Alive(x) => x \in killed'
        BY <2>2, <4>1 DEF Covered
      <4> QED
        BY <2>1, <4>2 DEF GracefulEnd, Alive
    <3> QED
      BY <1>1, <2>1, <3>1, <3>2
  <2> QED
    BY <2>2, <2>3, <2>4, <2>5, <2>6, <2>7, <2>8
<1> QED
  BY <1>6, <1>7

\* The end of a fork leaves its exit to be delivered.
LEMMA EndsInv == ASSUME Inv, NEW f \in Forks, Ends(f) PROVE Inv'
<1> USE DEF Inv, flags, binders
<1>1. /\ Alive(f) /\ life' = [life EXCEPT ![f] = "gone"] /\ failed' \subseteq Forks
      /\ events' = [events EXCEPT ![f] = {"disconnect", "exit"}]
      /\ UNCHANGED <<fork, online, listening, crashed, changes, exitBound, killed, bound, manager>>
  BY DEF Ends, TypeOK
<1>2. TypeOK'
  BY <1>1 DEF TypeOK
<1>3. \A x \in Forks : (Alive(x)' => Alive(x)) /\ (life'[x] = "free" => life[x] = "free")
  BY <1>1 DEF Alive, TypeOK
<1>4. OneFork' /\ Silenced' /\ Covered' /\ OnlineForked' /\ DiesBeforeExit' /\ GracefulEnd'
  BY <1>1, <1>3 DEF OneFork, Silenced, Covered, OnlineForked, DiesBeforeExit, GracefulEnd, TypeOK
<1>5. Delivered'
  BY <1>1 DEF Delivered, Alive, TypeOK
<1>6. Waiting'
  <2> SUFFICES ASSUME NEW v \in changes, fork[v] # None PROVE Dead(fork[v])'
    BY <1>1 DEF Waiting
  <2>1. fork[v] \in Forks /\ Dead(fork[v])
    BY ClusterAssumption DEF Waiting, TypeOK
  <2> QED
    BY <1>1, <1>3, <2>1 DEF Dead
<1> QED
  BY <1>2, <1>4, <1>5, <1>6

\* A fork that is forgotten is the fork of no worker.
LEMMA ForgottenInv == ASSUME Inv, NEW f \in Forks, Forgotten(f) PROVE Inv'
<1> USE DEF Inv, flags, binders
<1>1. /\ life[f] = "gone" /\ events[f] = {} /\ life' = [life EXCEPT ![f] = "free"]
      /\ failed' = failed \ {f} /\ killed' = killed \ {f} /\ bound' = bound \ {f}
      /\ UNCHANGED <<fork, online, listening, crashed, changes, exitBound, events, manager>>
  BY DEF Forgotten
<1>2. \A w \in Workers : fork[w] # f
  BY <1>1, NoneIsNoFork DEF Delivered, Alive
<1>3. TypeOK'
  BY <1>1 DEF TypeOK
<1>4. \A x \in Forks : (Alive(x)' <=> Alive(x)) /\ (x # f => life'[x] = life[x])
  BY <1>1 DEF Alive, TypeOK
<1>5. OneFork' /\ Delivered' /\ Covered' /\ OnlineForked' /\ DiesBeforeExit'
  BY <1>1, <1>4 DEF OneFork, Delivered, Covered, OnlineForked, DiesBeforeExit, TypeOK, Alive
<1>6. Silenced'
  BY <1>1, <1>4 DEF Silenced, TypeOK
<1>7. GracefulEnd'
  BY <1>1, <1>4 DEF GracefulEnd, Alive
<1>8. Waiting'
  <2> SUFFICES ASSUME NEW v \in changes, fork[v] # None PROVE Dead(fork[v])'
    BY <1>1 DEF Waiting
  <2>1. v \in Workers /\ fork[v] \in Forks /\ Dead(fork[v])
    BY ClusterAssumption DEF Waiting, TypeOK
  <2> QED
    BY <1>1, <1>2, <1>4, <2>1 DEF Dead
<1> QED
  BY <1>3, <1>5, <1>6, <1>7, <1>8
-----------------------------------------------------------------------------
\* Every step of the manager, of the user and of the forks keeps it.
LEMMA NextInv == Inv /\ [Next]_vars => Inv'
<1> SUFFICES ASSUME Inv, [Next]_vars PROVE Inv'
  OBVIOUS
<1>1. CASE StartCluster
  BY <1>1, StartInv DEF StartCluster, Inv, TypeOK
<1>2. CASE FileChange
  BY <1>2, StartInv, ClusterAssumption DEF FileChange, Changed, Inv, TypeOK
<1>3. CASE ManualRestart
  BY <1>3, StartInv, ClusterAssumption DEF ManualRestart, Inv, TypeOK
<1>4. CASE Interrupt
  BY <1>4, InterruptInv
<1>5. ASSUME NEW f \in Forks,
             Online(f) \/ Listening(f) \/ Broadcast(f) \/ Disconnect(f) \/ Exit(f)
               \/ Ends(f) \/ Forgotten(f)
      PROVE  Inv'
  BY <1>5, OnlineInv, MessageInv, BroadcastInv, ExitInv, EndsInv, ForgottenInv
<1>6. CASE UNCHANGED vars
  BY <1>6 DEF vars, flags, binders, Inv, TypeOK, OneFork, Delivered, Silenced, Covered, Waiting,
     OnlineForked, DiesBeforeExit, GracefulEnd, Alive, Dead
<1> QED
  BY <1>1, <1>2, <1>3, <1>4, <1>5, <1>6 DEF Next

\* What is known of the forks and their workers holds in every state.
THEOREM Invariance == Spec => []Inv
BY InitInv, NextInv, PTL DEF Spec

\* However changes, manual restarts and exits fall, a worker never has two forks that run.
THEOREM OneForkHolds == Spec => []OneFork
BY Invariance, PTL DEF Inv

\* A change in the buffer of a worker is never forgotten.
THEOREM ChangePendingHolds == Spec => []ChangePending
<1>1. Inv => ChangePending
  BY DEF Inv, Waiting, ChangePending
<1> QED
  BY <1>1, Invariance, PTL

\* The manager dies of a broadcast only between the end of a fork and its exit event.
THEOREM DiesBeforeExitHolds == Spec => []DiesBeforeExit
BY Invariance, PTL DEF Inv

\* At the exit of the manager, or when it throws, every fork that runs has been sent SIGTERM;
\* after Ctrl-C, that of the server has.
THEOREM GracefulEndHolds == Spec => []GracefulEnd
BY Invariance, PTL DEF Inv

\* Every variable keeps its type.
THEOREM TypeCorrect == Spec => []TypeOK
BY Invariance, PTL DEF Inv
=============================================================================
