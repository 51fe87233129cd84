---------------------------- MODULE GremlinServerProofs ----------------------------
(* Proofs about the Gremlin server, for any number of starts, pings, changes and       *)
(* lives. Starts that overlap break everything but the types, so the invariant is      *)
(* about lives in which no start met another one.                                       *)
EXTENDS GremlinServer, TLAPS

\* A start waits for an answer to a ping only while it has pings left.
Counting == \A s \in Starts :
  start[s].at \in {"timer", "asked"} => start[s].counter > 0

Typed == TypeOK /\ Counting

LEMMA Bounds == MaxStarts \in Nat /\ MaxPings \in Nat \ {0} /\ MaxChanges \in Nat /\ MaxLives \in Nat
  BY GremlinAssumption DEF GremlinAssumption

\* What Settle does to the calls of start: no more than one promise changes.
LEMMA SettleCalls ==
  ASSUME NEW calls \in [Starts -> Call], NEW s \in 0..MaxStarts,
         NEW outcome \in {"fulfilled", "rejected"}, Settle(calls, s, outcome)
  PROVE  /\ start' \in [Starts -> Call]
         /\ \A x \in Starts : /\ start'[x].at = calls[x].at
                              /\ start'[x].counter = calls[x].counter
                              /\ start'[x].via = calls[x].via
                              /\ x # s => start'[x] = calls[x]
<1>1. CASE calls[s].promise # "pending"
  BY <1>1 DEF Settle
<1>2. CASE calls[s].promise = "pending"
  BY <1>2 DEF Settle, Call
<1> QED
  BY <1>1, <1>2

\* What it does to the status and the tasks.
LEMMA SettleRest ==
  ASSUME NEW calls, NEW s, NEW outcome \in {"fulfilled", "rejected"},
         Settle(calls, s, outcome), TypeOK
  PROVE  /\ status' \in {"yellow", "red", "green"}
         /\ cleaningArray' \subseteq {"pid", "gremlin"} /\ cleaningArray \subseteq cleaningArray'
         /\ outcome = "fulfilled" /\ calls[s].promise = "pending" => "gremlin" \in cleaningArray'
  BY DEF Settle, TypeOK

\* A signal changes the state of one process at most.
LEMMA KillType ==
  ASSUME TypeOK, NEW p
  PROVE  Kill(p) \in [Starts -> {"none", "starting", "serving", "closing", "dead"}]
  BY DEF Kill, TypeOK

LEMMA InitTyped == Init => Typed
<1> SUFFICES ASSUME Init PROVE Typed
  OBVIOUS
<1>1. NoCall \in Call
  BY Bounds DEF NoCall, Call, Places
<1>2. TypeOK
  <2>1. start \in [Starts -> Call]
    BY <1>1 DEF Init
  <2>2. proc \in [Starts -> {"none", "starting", "serving", "closing", "dead"}]
    BY DEF Init
  <2>3. gremlinServer \in 0..MaxStarts /\ ping \in 0..MaxStarts
    BY Bounds DEF Init
  <2>4. lives \in 0..MaxLives /\ changes \in 0..MaxChanges
    BY Bounds DEF Init
  <2> QED
    BY <2>1, <2>2, <2>3, <2>4 DEF Init, TypeOK
<1>3. Counting
  BY DEF Init, Counting, NoCall
<1> QED
  BY <1>2, <1>3 DEF Typed

\* The next start is asked for.
LEMMA LoadTyped ==
  ASSUME Typed, Load
  PROVE  /\ start' \in [Starts -> Call] /\ Counting'
         /\ exempt' \subseteq {"overlap", "complaint", "pending", "early", "crash"}
<1>1. PICK s \in Starts :
        /\ start' = [start EXCEPT ![s].at = "asking"]
        /\ exempt' = IF Active = {} THEN exempt ELSE exempt \cup {"overlap"}
  BY DEF Load
<1>2. start' \in [Starts -> Call]
  BY <1>1 DEF Typed, TypeOK, Call, Places
<1>3. Counting'
  BY <1>1, <1>2 DEF Typed, TypeOK, Counting, Call
<1>4. exempt' \subseteq {"overlap", "complaint", "pending", "early", "crash"}
  BY <1>1 DEF Typed, TypeOK
<1> QED
  BY <1>2, <1>3, <1>4

\* The steps of a start keep the types.
LEMMA StartTyped ==
  ASSUME Typed, NEW s \in Starts,
         \/ Asked(s) \/ Refused(s) \/ JavaUnread(s) \/ SendPing(s) \/ PingAnswered(s)
         \/ PingAgain(s) \/ GiveUp(s)
         \/ \E outcome \in {"spawn", "complaint"} : Spawn(s, outcome)
  PROVE  Typed'
<1> USE DEF Typed
<1> DEFINE Over == [start EXCEPT ![s].at = "over"]
<1>0. /\ Over \in [Starts -> Call]
      /\ \A x \in Starts : Over[x].at \in {"timer", "asked"} => Over[x].counter > 0
  BY DEF TypeOK, Call, Places, Counting
<1>s. s \in 0..MaxStarts /\ ping \in 0..MaxStarts
  BY Bounds DEF Starts, TypeOK
<1> HIDE DEF Over
<1>1. CASE Asked(s)
  <2>1. CASE Settle(Over, s, "fulfilled")
    <3>1. start' \in [Starts -> Call] /\ Counting'
      BY <2>1, <1>0, <1>s, SettleCalls DEF Counting
    <3> QED
      BY <1>1, <2>1, <3>1, SettleRest DEF Asked, TypeOK
  <2>2. CASE /\ start' = [start EXCEPT ![s].at = "java"]
             /\ UNCHANGED <<status, cleaningArray>>
    <3>1. start' \in [Starts -> Call] /\ Counting'
      BY <2>2 DEF TypeOK, Call, Places, Counting
    <3> QED
      BY <1>1, <2>2, <3>1 DEF Asked, TypeOK
  <2> QED
    BY <1>1, <2>1, <2>2 DEF Asked, Over
<1>2. CASE Refused(s)
  <2>1. Settle(Over, s, "rejected")
    BY <1>2 DEF Refused, Over
  <2>2. start' \in [Starts -> Call] /\ Counting'
    BY <2>1, <1>0, <1>s, SettleCalls DEF Counting
  <2> QED
    BY <1>2, <2>1, <2>2, SettleRest DEF Refused, TypeOK
<1>u. CASE JavaUnread(s)
  <2>1. start' \in [Starts -> Call] /\ Counting'
    BY <1>u DEF JavaUnread, TypeOK, Call, Places, Counting
  <2> QED
    BY <1>u, <2>1 DEF JavaUnread, TypeOK
<1>3. CASE SendPing(s)
  <2>1. start' \in [Starts -> Call] /\ Counting'
    BY <1>3 DEF SendPing, TypeOK, Call, Places, Counting
  <2> QED
    BY <1>3, <2>1 DEF SendPing, TypeOK
<1>4. CASE PingAnswered(s)
  <2>1. CASE initialized' = TRUE /\ Settle(Over, start[s].via, "fulfilled")
    <3>1. start[s].via \in 0..MaxStarts
      BY DEF TypeOK, Call
    <3>2. start' \in [Starts -> Call] /\ Counting'
      BY <2>1, <3>1, <1>0, SettleCalls DEF Counting
    <3> QED
      BY <1>4, <2>1, <3>2, SettleRest DEF PingAnswered, TypeOK
  <2>2. CASE /\ start' = [start EXCEPT ![s].at = "scheduled", ![s].counter = @ - 1]
             /\ UNCHANGED <<status, cleaningArray, initialized>>
    <3>1. start[s].counter \in 1..MaxPings
      BY <1>4, Bounds DEF PingAnswered, TypeOK, Call, Counting
    <3>2. start[s].counter - 1 \in 0..MaxPings
      BY <3>1, Bounds
    <3>3. start' \in [Starts -> Call] /\ Counting'
      BY <2>2, <3>2 DEF TypeOK, Call, Places, Counting
    <3> QED
      BY <1>4, <2>2, <3>3 DEF PingAnswered, TypeOK
  <2> QED
    BY <1>4, <2>1, <2>2 DEF PingAnswered, Over
<1>5. CASE PingAgain(s)
  <2>1. start' \in [Starts -> Call] /\ Counting'
    <3> DEFINE again == [start[s] EXCEPT !.at = "timer", !.via = ping]
    <3>1. start \in [Starts -> Call] /\ start[s].counter > 0
      BY <1>5 DEF PingAgain, TypeOK
    <3>2. again \in Call /\ again.counter = start[s].counter
      BY <3>1, <1>s DEF Call, Places
    <3>3. start' = [start EXCEPT ![s] = again]
      BY <1>5, <3>1 DEF PingAgain
    <3> QED
      BY <3>1, <3>2, <3>3 DEF Counting
  <2> QED
    BY <1>5, <2>1 DEF PingAgain, TypeOK
<1>6. CASE GiveUp(s)
  <2>1. Settle(Over, ping, "rejected")
    BY <1>6 DEF GiveUp, Over
  <2>2. start' \in [Starts -> Call] /\ Counting'
    BY <2>1, <1>0, <1>s, SettleCalls DEF Counting
  <2> QED
    BY <1>6, <2>1, <2>2, SettleRest, KillType DEF GiveUp, TypeOK
<1>7. ASSUME NEW outcome \in {"spawn", "complaint"}, Spawn(s, outcome) PROVE Typed'
  <2> DEFINE looping == [start EXCEPT ![s].at = "timer", ![s].counter = MaxPings, ![s].via = s]
  <2>0. MaxPings \in 0..MaxPings /\ MaxPings > 0
    BY Bounds
  <2>1. /\ looping \in [Starts -> Call]
        /\ \A x \in Starts : looping[x].at \in {"timer", "asked"} => looping[x].counter > 0
    <3>1. looping \in [Starts -> Call]
      <4>1. start \in [Starts -> Call]
        BY DEF TypeOK
      <4>2. [start[s] EXCEPT !.at = "timer", !.counter = MaxPings, !.via = s] \in Call
        BY <4>1, <2>0, <1>s DEF Call, Places
      <4>3. looping = [start EXCEPT ![s] = [start[s] EXCEPT !.at = "timer", !.counter = MaxPings, !.via = s]]
        BY <4>1
      <4> QED
        BY <4>1, <4>2, <4>3
    <3>2. ASSUME NEW x \in Starts, looping[x].at \in {"timer", "asked"}
          PROVE  looping[x].counter > 0
      <4>1. CASE x = s
        BY <4>1, <2>0 DEF TypeOK, Call
      <4>2. CASE x # s
        BY <4>2, <3>2 DEF TypeOK, Counting
      <4> QED
        BY <4>1, <4>2
    <3> QED
      BY <3>1, <3>2
  <2>2. proc' \in [Starts -> {"none", "starting", "serving", "closing", "dead"}]
    BY <1>7 DEF Spawn, TypeOK
  <2>3. gremlinServer' \in 0..MaxStarts /\ ping' \in 0..MaxStarts /\ mine' \subseteq Starts
    BY <1>7, Bounds DEF Spawn, TypeOK, Starts
  <2>4. CASE outcome = "complaint"
    <3>1. Settle(looping, s, "rejected") /\ exempt' = exempt \cup {"complaint"}
      BY <1>7, <2>4 DEF Spawn
    <3>2. start' \in [Starts -> Call] /\ Counting'
      BY <3>1, <2>1, <1>s, SettleCalls DEF Counting
    <3>3. status' \in {"yellow", "red", "green"} /\ cleaningArray' \subseteq {"pid", "gremlin"}
      BY <3>1, SettleRest
    <3> QED
      BY <1>7, <2>2, <2>3, <3>1, <3>2, <3>3 DEF Spawn, TypeOK
  <2>5. CASE outcome # "complaint"
    <3>1. start' = looping /\ UNCHANGED <<status, cleaningArray, exempt>>
      BY <1>7, <2>5 DEF Spawn
    <3>2. start' \in [Starts -> Call] /\ Counting'
      BY <3>1, <2>1 DEF Counting
    <3> QED
      BY <1>7, <2>2, <2>3, <3>1, <3>2 DEF Spawn, TypeOK
  <2> QED
    BY <2>4, <2>5
<1> QED
  BY <1>1, <1>2, <1>u, <1>3, <1>4, <1>5, <1>6, <1>7

\* Every step keeps the types.
LEMMA StepTyped == Typed /\ [Next]_vars => Typed'
<1> SUFFICES ASSUME Typed, [Next]_vars PROVE Typed'
  OBVIOUS
<1> USE DEF Typed
<1>1. CASE Boot
  <2>1. /\ lives \in Nat /\ lives + 1 \in 0..MaxLives
    BY <1>1, Bounds DEF Boot, TypeOK
  <2>2. NoCall \in Call /\ [NoCall EXCEPT !.at = "over"] \in Call
    BY Bounds DEF NoCall, Call, Places
  <2>3. start' \in [Starts -> Call]
    BY <1>1, <2>2 DEF Boot
  <2>4. Counting'
    BY <1>1 DEF Boot, NoCall, Counting
  <2>5. 0 \in 0..MaxStarts
    BY Bounds
  <2> QED
    BY <1>1, <2>1, <2>3, <2>4, <2>5 DEF Boot, TypeOK
<1>2. CASE InitPlugin
  <2>1. start' \in [Starts -> Call] /\ Counting'
        /\ exempt' \subseteq {"overlap", "complaint", "pending", "early", "crash"}
    BY <1>2, LoadTyped DEF InitPlugin, TypeOK, Counting
  <2>2. watching' \in BOOLEAN
    BY <1>2 DEF InitPlugin, TypeOK
  <2> QED
    BY <1>2, <2>1, <2>2 DEF InitPlugin, TypeOK
<1>3. ASSUME NEW new \in {"yellow", "red", "green"}, StatusChange(new) PROVE Typed'
  <2>1. start' \in [Starts -> Call] /\ Counting'
        /\ exempt' \subseteq {"overlap", "complaint", "pending", "early", "crash"}
    BY <1>3, LoadTyped DEF StatusChange, TypeOK, Counting
  <2>2. proc' \in [Starts -> {"none", "starting", "serving", "closing", "dead"}]
    BY <1>3, KillType DEF StatusChange, Stop, TypeOK
  <2>3. status' \in {"yellow", "red", "green"} /\ initialized' \in BOOLEAN
    BY <1>3 DEF StatusChange, Stop, TypeOK
  <2>4. changes \in Nat /\ changes + 1 \in 0..MaxChanges
    BY <1>3, Bounds DEF StatusChange, TypeOK
  <2> QED
    BY <1>3, <2>1, <2>2, <2>3, <2>4 DEF StatusChange, TypeOK
<1>4. CASE Signal
  <2>1. proc' \in [Starts -> {"none", "starting", "serving", "closing", "dead"}]
        /\ initialized' \in BOOLEAN /\ pidFile' \in BOOLEAN
    BY <1>4, KillType DEF Signal, Clean, Stop, TypeOK
  <2>2. exempt' \subseteq {"overlap", "complaint", "pending", "early", "crash"}
    BY <1>4 DEF Signal, Noted, TypeOK
  <2> QED
    BY <1>4, <2>1, <2>2 DEF Signal, TypeOK, Counting
<1>5. CASE Listen \/ Resend
  BY <1>5 DEF Listen, Resend, handler, TypeOK, Counting
<1>6. CASE SignalEarly \/ Crash
  <2>1. exempt' \subseteq {"overlap", "complaint", "pending", "early", "crash"}
    BY <1>6 DEF SignalEarly, Crash, Noted, TypeOK
  <2>2. pidFile' \in BOOLEAN
    BY <1>6 DEF SignalEarly, Crash, TypeOK
  <2> QED
    BY <1>6, <2>1, <2>2 DEF SignalEarly, Crash, handler, TypeOK, Counting
<1>7. ASSUME NEW s \in Starts, Serves(s) \/ Dies(s) PROVE Typed'
  <2>1. proc' \in [Starts -> {"none", "starting", "serving", "closing", "dead"}]
    BY <1>7 DEF Serves, Dies, TypeOK
  <2> QED
    BY <1>7, <2>1 DEF Serves, Dies, handler, TypeOK, Counting
<1>8. CASE UNCHANGED vars
  BY <1>8 DEF vars, TypeOK, Counting
<1> QED
  BY <1>1, <1>2, <1>3, <1>4, <1>5, <1>6, <1>7, <1>8, StartTyped DEF Next

\* Every variable keeps its type: no ping loop counts below zero.
THEOREM TypeCorrect == Spec => []TypeOK
<1>1. Typed => TypeOK
  BY DEF Typed
<1> QED
  BY <1>1, InitTyped, StepTyped, PTL DEF Spec

------------------------------------------------------------------------------------
\* In a life in which no start met another, at most one start is active, and none once the
\* handler is initialized; the ping loop of a start settles its own promise; and what is
\* initialized has its cleaning task, but for a start that was rejected and went on.
Single == \A s, t \in Active : s = t
Quiet == initialized => Active = {}
Held == \A p \in mine \cap Live : p = gremlinServer /\ (initialized \/ p \in Active)
Unspawned == \A s \in Starts : start[s].at \in {"idle", "asking", "java"} => s \notin mine
Own == \A s \in Starts :
  start[s].at \in {"timer", "asked", "scheduled"} => start[s].via = s /\ ping = s
Open == "complaint" \notin exempt =>
  \A s \in Starts : start[s].at # "over" => start[s].promise = "pending"
Registered == initialized /\ "complaint" \notin exempt => "gremlin" \in cleaningArray
Alone == "overlap" \notin exempt =>
  Single /\ Quiet /\ Held /\ Own /\ Open /\ Registered

\* What the places of the server mean.
Housed ==
  /\ Running => "pid" \in cleaningArray
  /\ server = "boot" => Active = {} /\ ~initialized /\ ~watching

\* CleanEnd, from the signal on.
Cleaned ==
  server \in {"closing", "down"} /\ exempt = {} =>
    mine \cap Live = {} /\ (lives > 0 => ~pidFile)

IInv == Typed /\ Unspawned /\ Alone /\ Housed /\ Cleaned

LEMMA InitIInv == Init => IInv
<1> SUFFICES ASSUME Init PROVE IInv
  OBVIOUS
<1>1. \A s \in Starts : start[s] = NoCall
  BY DEF Init
<1>2. Active = {}
  BY <1>1 DEF Active, NoCall
<1>3. Unspawned /\ Cleaned
  BY DEF Init, Unspawned, Cleaned
<1>4. Single /\ Quiet /\ Held /\ Own /\ Open /\ Registered
  BY <1>1, <1>2 DEF Init, Single, Quiet, Held, Own, Open, Registered, NoCall
<1>5. Housed
  BY <1>2 DEF Init, Housed, Running
<1> QED
  BY <1>3, <1>4, <1>5, InitTyped DEF IInv, Alone

\* A start ends: its own place changes, and a promise.
LEMMA Ending ==
  ASSUME Typed, NEW s \in Starts, NEW v \in 0..MaxStarts,
         NEW outcome \in {"fulfilled", "rejected"},
         Settle([start EXCEPT ![s].at = "over"], v, outcome)
  PROVE  /\ Active' = Active \ {s}
         /\ start'[s].at = "over"
         /\ \A x \in Starts \ {s} : start'[x].at = start[x].at /\ start'[x].via = start[x].via
         /\ v = s => \A x \in Starts \ {s} : start'[x] = start[x]
<1> DEFINE Over == [start EXCEPT ![s].at = "over"]
<1>1. /\ Over \in [Starts -> Call]
      /\ Over[s].at = "over"
      /\ \A x \in Starts \ {s} : Over[x] = start[x]
  BY DEF Typed, TypeOK, Call, Places
<1> HIDE DEF Over
<1>2. Settle(Over, v, outcome)
  BY DEF Over
<1>3. \A x \in Starts : /\ start'[x].at = Over[x].at
                        /\ start'[x].via = Over[x].via
                        /\ x # v => start'[x] = Over[x]
  BY <1>1, <1>2, SettleCalls
<1> QED
  BY <1>1, <1>3 DEF Active

\* The parts of the invariant that a step of a start leaves alone, when the life of the
\* server, the tasks it had and what it cleaned stay.
LEMMA StartHoused ==
  ASSUME Housed, Cleaned, Running, UNCHANGED <<server, watching>>,
         cleaningArray \subseteq cleaningArray', server # "boot"
  PROVE  Housed' /\ Cleaned'
  BY DEF Housed, Cleaned, Running

\* A start is asked for only when no start is active and the handler is not initialized, or
\* it overlaps.
LEMMA LoadAlone ==
  ASSUME IInv, Load, ~initialized,
         UNCHANGED <<initialized, gremlinServer, ping, cleaningArray, proc, mine>>
  PROVE  Unspawned' /\ Alone'
<1>1. PICK s \in Starts :
        /\ start[s].at = "idle"
        /\ start' = [start EXCEPT ![s].at = "asking"]
        /\ exempt' = IF Active = {} THEN exempt ELSE exempt \cup {"overlap"}
  BY DEF Load
<1>2. /\ start'[s].at = "asking" /\ start'[s].promise = start[s].promise
      /\ \A x \in Starts \ {s} : start'[x] = start[x]
  BY <1>1 DEF IInv, Typed, TypeOK, Call
<1>3. Unspawned'
  BY <1>1, <1>2 DEF IInv, Unspawned
<1>4. Live' = Live
  BY DEF Live
<1>5. ASSUME "overlap" \notin exempt'
      PROVE  (Single /\ Quiet /\ Held /\ Own /\ Open /\ Registered)'
  <2>1. Active = {} /\ exempt' = exempt
    BY <1>1, <1>5
  <2>2. Active' = {s}
    BY <1>2, <2>1 DEF Active
  <2>3. Single /\ Quiet /\ Held /\ Own /\ Open /\ Registered
    BY <1>5, <2>1 DEF IInv, Alone
  <2>4. Single' /\ Quiet' /\ Held'
    BY <1>4, <2>1, <2>2, <2>3 DEF Single, Quiet, Held
  <2>5. Own'
    BY <1>2, <2>3 DEF Own
  <2>6. Open' /\ Registered'
    BY <1>1, <1>2, <2>1, <2>3 DEF Open, Registered
  <2> QED
    BY <2>4, <2>5, <2>6
<1> QED
  BY <1>3, <1>5 DEF Alone

\* A start that asks or looks for Java ends, or goes on to look for Java.
LEMMA AskedAlone ==
  ASSUME IInv, NEW s \in Starts, Asked(s) \/ Refused(s) \/ JavaUnread(s)
  PROVE  Unspawned' /\ Alone'
<1>1. s \in Active /\ s \notin mine /\ s \in 0..MaxStarts
  BY Bounds DEF Asked, Refused, JavaUnread, Active, IInv, Unspawned, Starts
<1>2. UNCHANGED <<initialized, gremlinServer, ping, proc, mine, exempt>> /\ Live' = Live
  BY DEF Asked, Refused, JavaUnread, Live
<1>3. /\ cleaningArray \subseteq cleaningArray'
      /\ \A x \in Starts \ {s} : start'[x] = start[x]
      /\ \/ Active' = Active \ {s} /\ start'[s].at = "over"
         \/ /\ Active' = Active /\ start'[s].at = "java"
            /\ start'[s].promise = start[s].promise
         \/ /\ Active' = Active \ {s} /\ start'[s].at = "unread"
            /\ start'[s].promise = start[s].promise
  <2> DEFINE Over == [start EXCEPT ![s].at = "over"]
  <2>1. CASE \E outcome \in {"fulfilled", "rejected"} : Settle(Over, s, outcome)
    BY <2>1, <1>1, Ending, SettleRest DEF IInv, Typed
  <2>2. CASE /\ start[s].at = "asking" /\ start' = [start EXCEPT ![s].at = "java"]
             /\ UNCHANGED cleaningArray
    <3>1. /\ start'[s].at = "java" /\ start'[s].promise = start[s].promise
          /\ \A x \in Starts \ {s} : start'[x] = start[x]
      BY <2>2 DEF IInv, Typed, TypeOK, Call
    <3> QED
      BY <2>2, <3>1 DEF Active
  <2>3. CASE start' = [start EXCEPT ![s].at = "unread"] /\ UNCHANGED cleaningArray
    <3>1. /\ start'[s].at = "unread" /\ start'[s].promise = start[s].promise
          /\ \A x \in Starts \ {s} : start'[x] = start[x]
      BY <2>3 DEF IInv, Typed, TypeOK, Call
    <3> QED
      BY <2>3, <3>1 DEF Active
  <2> QED
    BY <2>1, <2>2, <2>3 DEF Asked, Refused, JavaUnread
<1>4. Unspawned'
  BY <1>1, <1>2, <1>3 DEF IInv, Unspawned
<1>5. ASSUME "overlap" \notin exempt'
      PROVE  (Single /\ Quiet /\ Held /\ Own /\ Open /\ Registered)'
  <2>1. Single /\ Quiet /\ Held /\ Own /\ Open /\ Registered
    BY <1>2, <1>5 DEF IInv, Alone
  <2>2. Single' /\ Quiet'
    BY <1>2, <1>3, <2>1 DEF Single, Quiet
  <2>3. Held'
    BY <1>1, <1>2, <1>3, <2>1 DEF Held, Single
  <2>4. Own'
    BY <1>2, <1>3, <2>1 DEF Own
  <2>5. Open' /\ Registered'
    BY <1>1, <1>2, <1>3, <2>1 DEF Open, Registered, Active
  <2> QED
    BY <2>2, <2>3, <2>4, <2>5
<1> QED
  BY <1>4, <1>5 DEF Alone

\* A start that spawns is the only one, and no process was left: the handler holds the new
\* one, and its ping loop is that of the start.
LEMMA SpawnAlone ==
  ASSUME IInv, NEW s \in Starts, NEW outcome \in {"spawn", "complaint"}, Spawn(s, outcome)
  PROVE  Unspawned' /\ Alone'
<1> DEFINE looping == [start EXCEPT ![s].at = "timer", ![s].counter = MaxPings, ![s].via = s]
<1>1. /\ s \in Active /\ s \notin mine
      /\ mine' = mine \cup {s} /\ gremlinServer' = s /\ ping' = s
      /\ proc' = [proc EXCEPT ![s] = "starting"]
      /\ UNCHANGED initialized
  BY DEF Spawn, Active, IInv, Unspawned
<1>2. /\ looping \in [Starts -> Call]
      /\ looping[s].at = "timer" /\ looping[s].via = s
      /\ looping[s].promise = start[s].promise
      /\ \A x \in Starts \ {s} : looping[x] = start[x]
  <2>1. MaxPings \in 0..MaxPings /\ s \in 0..MaxStarts /\ start \in [Starts -> Call]
    BY Bounds DEF Starts, IInv, Typed, TypeOK
  <2>2. [start[s] EXCEPT !.at = "timer", !.counter = MaxPings, !.via = s] \in Call
    BY <2>1 DEF Call, Places
  <2>3. looping = [start EXCEPT ![s] = [start[s] EXCEPT !.at = "timer", !.counter = MaxPings, !.via = s]]
    BY <2>1
  <2> QED
    BY <2>1, <2>2, <2>3 DEF Call
<1> HIDE DEF looping
<1>3. /\ start'[s].at = "timer" /\ start'[s].via = s
      /\ \A x \in Starts \ {s} : start'[x] = start[x]
      /\ \/ start'[s].promise = start[s].promise /\ exempt' = exempt
         \/ exempt' = exempt \cup {"complaint"}
      /\ cleaningArray \subseteq cleaningArray'
  <2>1. CASE outcome = "complaint"
    <3>1. Settle(looping, s, "rejected") /\ exempt' = exempt \cup {"complaint"}
      BY <2>1 DEF Spawn, looping
    <3>2. s \in 0..MaxStarts
      BY Bounds DEF Starts
    <3> QED
      BY <1>2, <3>1, <3>2, SettleCalls, SettleRest DEF IInv, Typed
  <2>2. CASE outcome # "complaint"
    BY <1>2, <2>2 DEF Spawn, looping
  <2> QED
    BY <2>1, <2>2
<1>4. Active' = Active
  BY <1>1, <1>3 DEF Active
<1>5. Unspawned'
  BY <1>1, <1>3 DEF IInv, Unspawned
<1>6. ASSUME "overlap" \notin exempt'
      PROVE  (Single /\ Quiet /\ Held /\ Own /\ Open /\ Registered)'
  <2>1. Single /\ Quiet /\ Held /\ Own /\ Open /\ Registered
    BY <1>3, <1>6 DEF IInv, Alone
  <2>2. Active = {s} /\ ~initialized
    BY <1>1, <2>1 DEF Single, Quiet
  <2>3. Single' /\ Quiet'
    BY <1>1, <1>4, <2>1 DEF Single, Quiet
  <2>4. mine \cap Live = {}
    BY <1>1, <2>1, <2>2 DEF Held
  <2>5. Held'
    <3>1. Live' \subseteq Live \cup {s}
      BY <1>1 DEF Live, IInv, Typed, TypeOK
    <3> QED
      BY <1>1, <1>4, <2>2, <2>4, <3>1 DEF Held
  <2>6. Own'
    <3>1. \A x \in Starts \ {s} : start'[x].at \in {"idle", "unread", "over"}
      BY <1>3, <2>2 DEF Active
    <3> QED
      BY <1>1, <1>3, <3>1 DEF Own
  <2>7. Open' /\ Registered'
    BY <1>1, <1>3, <2>1, <2>2 DEF Open, Registered, Active
  <2> QED
    BY <2>3, <2>5, <2>6, <2>7
<1> QED
  BY <1>5, <1>6 DEF Alone

\* A step of the ping loop that does not end it.
LEMMA LoopAlone ==
  ASSUME IInv, NEW s \in Starts, start[s].at \in {"timer", "asked", "scheduled"},
         start'[s].at \in {"timer", "asked", "scheduled"},
         start'[s].promise = start[s].promise,
         start'[s].via \in {start[s].via, ping},
         \A x \in Starts \ {s} : start'[x] = start[x],
         UNCHANGED <<initialized, gremlinServer, ping, cleaningArray, proc, mine, exempt>>
  PROVE  Unspawned' /\ Alone'
<1>1. Active' = Active /\ Live' = Live
  BY DEF Active, Live
<1>2. Unspawned'
  BY DEF IInv, Unspawned
<1>3. ASSUME "overlap" \notin exempt'
      PROVE  (Single /\ Quiet /\ Held /\ Own /\ Open /\ Registered)'
  <2>1. Single /\ Quiet /\ Held /\ Own /\ Open /\ Registered
    BY <1>3 DEF IInv, Alone
  <2>2. Single' /\ Quiet' /\ Held'
    BY <1>1, <2>1 DEF Single, Quiet, Held
  <2>3. Own'
    BY <2>1 DEF Own
  <2>4. Open' /\ Registered'
    BY <2>1 DEF Open, Registered
  <2> QED
    BY <2>2, <2>3, <2>4
<1> QED
  BY <1>2, <1>3 DEF Alone

\* The end of a ping loop: the process is up, with its task, or it is told to end.
LEMMA LoopOverAlone ==
  ASSUME IInv, NEW s \in Starts, PingAnswered(s) \/ GiveUp(s), start'[s].at = "over"
  PROVE  Unspawned' /\ Alone'
<1> DEFINE Over == [start EXCEPT ![s].at = "over"]
<1>1. PICK v \in 0..MaxStarts, outcome \in {"fulfilled", "rejected"} :
        /\ Settle(Over, v, outcome)
        /\ \/ v = start[s].via /\ outcome = "fulfilled" /\ initialized' = TRUE /\ UNCHANGED proc
           \/ /\ v = ping /\ UNCHANGED initialized /\ proc' = Kill(gremlinServer)
  <2>1. CASE PingAnswered(s)
    <3>1. start[s].via \in 0..MaxStarts
      BY DEF IInv, Typed, TypeOK, Call
    <3>2. ~(start' = [start EXCEPT ![s].at = "scheduled", ![s].counter = @ - 1])
      BY DEF IInv, Typed, TypeOK, Call
    <3>3. Settle(Over, start[s].via, "fulfilled") /\ initialized' = TRUE /\ UNCHANGED proc
      BY <2>1, <3>2 DEF PingAnswered
    <3> QED
      BY <3>1, <3>3
  <2>2. CASE GiveUp(s)
    BY <2>2 DEF GiveUp, IInv, Typed, TypeOK
  <2> QED
    BY <2>1, <2>2
<1>2. /\ start[s].at \in {"asked", "scheduled"} /\ s \in Active
      /\ UNCHANGED <<gremlinServer, ping, mine, exempt>>
  BY DEF PingAnswered, GiveUp, Active
<1>3. /\ Active' = Active \ {s}
      /\ \A x \in Starts \ {s} : start'[x].at = start[x].at /\ start'[x].via = start[x].via
      /\ v = s => \A x \in Starts \ {s} : start'[x] = start[x]
      /\ cleaningArray \subseteq cleaningArray'
  <2>1. Settle(Over, v, outcome) /\ Typed /\ TypeOK
    BY <1>1 DEF IInv, Typed
  <2>2. cleaningArray \subseteq cleaningArray'
    BY <2>1, SettleRest
  <2> QED
    BY <2>1, <2>2, Ending
<1>4. Live' \subseteq Live /\ (UNCHANGED initialized => Live' \subseteq Live \ {gremlinServer} \/ UNCHANGED proc)
  BY <1>1 DEF Live, Kill, IInv, Typed, TypeOK
<1>5. Unspawned'
  BY <1>2, <1>3 DEF IInv, Unspawned
<1>6. ASSUME "overlap" \notin exempt'
      PROVE  (Single /\ Quiet /\ Held /\ Own /\ Open /\ Registered)'
  <2>1. Single /\ Quiet /\ Held /\ Own /\ Open /\ Registered
    BY <1>2, <1>6 DEF IInv, Alone
  <2>2. v = s /\ Active = {s} /\ Active' = {} /\ ~initialized
    BY <1>1, <1>2, <1>3, <2>1 DEF Own, Single, Quiet
  <2>3. Single' /\ Quiet'
    BY <2>2 DEF Single, Quiet
  <2>4. Held'
    <3>1. CASE initialized' = TRUE
      BY <1>2, <1>4, <2>1, <3>1 DEF Held
    <3>2. CASE proc' = Kill(gremlinServer)
      <4>1. gremlinServer \notin Live'
        BY <3>2 DEF Live, Kill, IInv, Typed, TypeOK
      <4> QED
        BY <1>2, <1>4, <2>1, <4>1 DEF Held
    <3> QED
      BY <1>1, <3>1, <3>2
  <2>5. Own'
    BY <1>2, <1>3, <2>1 DEF Own
  <2>6. Open'
    BY <1>2, <1>3, <2>1, <2>2 DEF Open
  <2>7. Registered'
    <3>1. Over[s].promise = start[s].promise
      BY DEF IInv, Typed, TypeOK, Call
    <3>2. CASE initialized'
      BY <1>1, <1>2, <2>1, <2>2, <3>1, <3>2, SettleRest DEF Open, Registered, IInv, Typed
    <3> QED
      BY <3>2 DEF Registered
  <2> QED
    BY <2>3, <2>4, <2>5, <2>6, <2>7
<1> QED
  BY <1>5, <1>6 DEF Alone

\* The steps of a start keep the invariant.
LEMMA StartIInv ==
  ASSUME IInv, NEW s \in Starts,
         \/ Asked(s) \/ Refused(s) \/ JavaUnread(s) \/ SendPing(s) \/ PingAnswered(s)
         \/ PingAgain(s) \/ GiveUp(s)
         \/ \E outcome \in {"spawn", "complaint"} : Spawn(s, outcome)
  PROVE  IInv'
<1>1. Typed'
  BY StartTyped DEF IInv
<1>2. Unspawned' /\ Alone'
  <2>1. CASE Asked(s) \/ Refused(s) \/ JavaUnread(s)
    BY <2>1, AskedAlone
  <2>2. CASE \E outcome \in {"spawn", "complaint"} : Spawn(s, outcome)
    BY <2>2, SpawnAlone
  <2>3. CASE SendPing(s)
    BY <2>3, LoopAlone DEF SendPing, IInv, Typed, TypeOK, Call
  <2>4. CASE PingAgain(s)
    <3>1. start' = [start EXCEPT ![s] = [start[s] EXCEPT !.at = "timer", !.via = ping]]
      BY <2>4 DEF PingAgain, IInv, Typed, TypeOK
    <3>2. start[s] \in Call
      BY DEF IInv, Typed, TypeOK
    <3>3. /\ start'[s].at = "timer" /\ start'[s].via = ping
          /\ start'[s].promise = start[s].promise
          /\ \A x \in Starts \ {s} : start'[x] = start[x]
      BY <3>1, <3>2 DEF IInv, Typed, TypeOK, Call
    <3> QED
      BY <2>4, <3>3, LoopAlone DEF PingAgain
  <2>5. CASE PingAnswered(s)
    <3>1. CASE start' = [start EXCEPT ![s].at = "scheduled", ![s].counter = @ - 1]
               /\ UNCHANGED <<status, cleaningArray, initialized>>
      <4>1. start' = [start EXCEPT ![s] = [start[s] EXCEPT !.at = "scheduled", !.counter = @ - 1]]
        BY <3>1 DEF IInv, Typed, TypeOK
      <4>2. /\ start'[s].at = "scheduled" /\ start'[s].via = start[s].via
            /\ start'[s].promise = start[s].promise
            /\ \A x \in Starts \ {s} : start'[x] = start[x]
        BY <4>1 DEF IInv, Typed, TypeOK, Call
      <4> QED
        BY <2>5, <3>1, <4>2, LoopAlone DEF PingAnswered
    <3>2. CASE Settle([start EXCEPT ![s].at = "over"], start[s].via, "fulfilled")
      <4>1. start[s].via \in 0..MaxStarts
        BY DEF IInv, Typed, TypeOK, Call
      <4>2. start'[s].at = "over"
        BY <3>2, <4>1, Ending DEF IInv
      <4> QED
        BY <2>5, <4>2, LoopOverAlone
    <3> QED
      BY <2>5, <3>1, <3>2 DEF PingAnswered
  <2>6. CASE GiveUp(s)
    <3>1. ping \in 0..MaxStarts /\ Settle([start EXCEPT ![s].at = "over"], ping, "rejected")
      BY <2>6 DEF GiveUp, IInv, Typed, TypeOK
    <3>2. start'[s].at = "over"
      BY <3>1, Ending DEF IInv
    <3> QED
      BY <2>6, <3>2, LoopOverAlone
  <2> QED
    BY <2>1, <2>2, <2>3, <2>4, <2>5, <2>6
<1>3. /\ Running /\ s \in Active /\ UNCHANGED <<server, watching>>
  BY DEF Asked, Refused, JavaUnread, SendPing, PingAnswered, PingAgain, GiveUp, Spawn, Active
<1>4. server # "boot"
  BY <1>3 DEF IInv, Housed
<1>5. cleaningArray \subseteq cleaningArray'
  <2>1. TypeOK
    BY DEF IInv, Typed
  <2>2. UNCHANGED cleaningArray
        \/ \E calls, v : \E outcome \in {"fulfilled", "rejected"} : Settle(calls, v, outcome)
    BY DEF Asked, Refused, JavaUnread, SendPing, PingAnswered, PingAgain, GiveUp, Spawn
  <2> QED
    BY <2>1, <2>2, SettleRest
<1> QED
  BY <1>1, <1>2, <1>3, <1>4, <1>5, StartHoused DEF IInv

\* Fewer processes run and nothing else of a life changes: the invariant about it stays.
LEMMA FewerAlone ==
  ASSUME IInv, Live' \subseteq Live, exempt \subseteq exempt',
         UNCHANGED <<initialized, gremlinServer, ping, start, cleaningArray, mine>>
  PROVE  Unspawned' /\ Alone'
<1>1. Active' = Active
  BY DEF Active
<1>2. "overlap" \notin exempt' => (Single /\ Quiet /\ Held /\ Own /\ Open /\ Registered)'
  BY <1>1 DEF IInv, Alone, Single, Quiet, Held, Own, Open, Registered
<1> QED
  BY <1>2 DEF IInv, Unspawned, Alone

\* A stop: the process that the handler holds is told to end.
LEMMA StopAlone ==
  ASSUME IInv, Stop, UNCHANGED <<gremlinServer, ping, start, cleaningArray, mine>>,
         exempt \subseteq exempt'
  PROVE  /\ Unspawned' /\ Alone'
         /\ "overlap" \notin exempt /\ initialized => mine' \cap Live' = {}
<1>1. Active' = Active /\ Live' \subseteq Live /\ ~initialized'
  BY DEF Active, Stop, Kill, Live, IInv, Typed, TypeOK
<1>2. initialized => gremlinServer \notin Live'
  BY DEF Stop, Kill, Live, IInv, Typed, TypeOK
<1>3. "overlap" \notin exempt /\ initialized => mine' \cap Live' = {}
  BY <1>1, <1>2 DEF IInv, Alone, Held
<1>4. "overlap" \notin exempt' => (Single /\ Quiet /\ Held /\ Own /\ Open /\ Registered)'
  BY <1>1, <1>3 DEF IInv, Alone, Single, Quiet, Held, Own, Open, Registered
<1> QED
  BY <1>3, <1>4 DEF IInv, Unspawned, Alone

\* Every step keeps the invariant.
LEMMA StepIInv == IInv /\ [Next]_vars => IInv'
<1> SUFFICES ASSUME IInv, [Next]_vars PROVE IInv'
  OBVIOUS
<1>0. Typed'
  BY StepTyped DEF IInv
<1>1. CASE Boot
  <2>1. \A s \in Starts : start'[s].at \in {"idle", "over"}
                          /\ (start'[s].at = "idle" => start'[s] = NoCall)
    BY <1>1 DEF Boot, NoCall
  <2>2. Active' = {}
    BY <2>1 DEF Active
  <2>3. Unspawned' /\ Alone'
    BY <1>1, <2>1, <2>2 DEF Boot, Unspawned, Alone, Single, Quiet, Held, Own, Open, Registered, NoCall
  <2>4. Housed' /\ Cleaned'
    BY <1>1, <2>2 DEF Boot, Housed, Cleaned, Running
  <2> QED
    BY <1>0, <2>3, <2>4 DEF IInv
<1>2. CASE InitPlugin
  <2>1. Unspawned' /\ Alone'
    <3>1. CASE Load
      BY <1>2, <3>1, LoadAlone DEF InitPlugin, IInv, Housed
    <3>2. CASE UNCHANGED <<start, exempt>>
      <4>1. Live' = Live
        BY <1>2 DEF InitPlugin, Live
      <4> QED
        BY <1>2, <3>2, <4>1, FewerAlone DEF InitPlugin
    <3> QED
      BY <1>2, <3>1, <3>2 DEF InitPlugin
  <2>2. Housed' /\ Cleaned'
    BY <1>2 DEF InitPlugin, IInv, Housed, Cleaned, Running
  <2> QED
    BY <1>0, <2>1, <2>2 DEF IInv
<1>3. ASSUME NEW new \in {"yellow", "red", "green"}, StatusChange(new) PROVE IInv'
  <2>1. Unspawned' /\ Alone'
    <3>1. CASE Load /\ ~initialized /\ UNCHANGED <<status, initialized, proc>>
      BY <1>3, <3>1, LoadAlone DEF StatusChange
    <3>2. CASE Stop /\ UNCHANGED <<start, exempt>>
      BY <1>3, <3>2, StopAlone DEF StatusChange
    <3>3. CASE UNCHANGED <<status, initialized, proc, start, exempt>>
      <4>1. Live' = Live
        BY <3>3 DEF Live
      <4> QED
        BY <1>3, <3>3, <4>1, FewerAlone DEF StatusChange
    <3> QED
      BY <1>3, <3>1, <3>2, <3>3 DEF StatusChange
  <2>2. Housed' /\ Cleaned'
    <3>1. /\ Running /\ UNCHANGED <<server, watching, cleaningArray>>
          /\ ~watching => UNCHANGED <<start, initialized>>
      BY <1>3 DEF StatusChange
    <3> QED
      BY <3>1 DEF IInv, Housed, Cleaned, Running, Active
  <2> QED
    BY <1>0, <2>1, <2>2 DEF IInv
<1>4. CASE Signal
  <2>1. exempt \subseteq exempt' /\ (exempt' = {} => exempt = {} /\ Active = {})
    BY <1>4 DEF Signal, Noted
  <2>2. Unspawned' /\ Alone' /\ (exempt' = {} => mine' \cap Live' = {})
    <3>1. CASE "gremlin" \in cleaningArray
      <4>1. Stop
        BY <1>4, <3>1 DEF Signal, Clean
      <4>2. /\ Unspawned' /\ Alone'
            /\ "overlap" \notin exempt /\ initialized => mine' \cap Live' = {}
        BY <1>4, <2>1, <4>1, StopAlone DEF Signal
      <4>3. Live' \subseteq Live
        BY <4>1 DEF Stop, Kill, Live, IInv, Typed, TypeOK
      <4>4. exempt' = {} /\ ~initialized => mine' \cap Live' = {}
        BY <1>4, <2>1, <4>3 DEF Signal, IInv, Alone, Held
      <4> QED
        BY <2>1, <4>2, <4>4
    <3>2. CASE "gremlin" \notin cleaningArray
      <4>1. UNCHANGED <<initialized, proc>> /\ Live' = Live
        BY <1>4, <3>2 DEF Signal, Clean, Live
      <4>2. Unspawned' /\ Alone'
        BY <1>4, <2>1, <4>1, FewerAlone DEF Signal
      <4>3. exempt' = {} => mine' \cap Live' = {}
        BY <1>4, <2>1, <3>2, <4>1 DEF Signal, IInv, Alone, Held, Registered
      <4> QED
        BY <4>2, <4>3
    <3> QED
      BY <3>1, <3>2
  <2>3. Housed' /\ Cleaned'
    BY <1>4, <2>2 DEF Signal, Clean, IInv, Housed, Cleaned, Running
  <2> QED
    BY <1>0, <2>2, <2>3 DEF IInv
<1>5. CASE Listen \/ Resend \/ SignalEarly \/ Crash
  <2>1. exempt \subseteq exempt' /\ Live' = Live
    BY <1>5 DEF Listen, Resend, SignalEarly, Crash, Noted, Live
  <2>2. Unspawned' /\ Alone'
    BY <1>5, <2>1, FewerAlone DEF Listen, Resend, SignalEarly, Crash, handler
  <2>3. Housed' /\ Cleaned'
    <3>1. CASE Listen \/ Resend
      BY <2>1, <3>1 DEF Listen, Resend, handler, IInv, Housed, Cleaned, Running
    <3>2. CASE SignalEarly \/ Crash
      BY <3>2 DEF SignalEarly, Crash, Noted, Housed, Cleaned, Running
    <3> QED
      BY <1>5, <3>1, <3>2
  <2> QED
    BY <1>0, <2>2, <2>3 DEF IInv
<1>6. ASSUME NEW s \in Starts, Serves(s) \/ Dies(s) PROVE IInv'
  <2>1. Live' \subseteq Live
    BY <1>6 DEF Serves, Dies, Live, IInv, Typed, TypeOK
  <2>2. Unspawned' /\ Alone'
    BY <1>6, <2>1, FewerAlone DEF Serves, Dies, handler
  <2>3. Housed' /\ Cleaned'
    BY <1>6, <2>1 DEF Serves, Dies, handler, IInv, Housed, Cleaned, Running, Active
  <2> QED
    BY <1>0, <2>2, <2>3 DEF IInv
<1>7. CASE UNCHANGED vars
  <2>1. Live' = Live /\ Active' = Active
    BY <1>7 DEF vars, Live, Active
  <2>2. Unspawned' /\ Alone'
    BY <1>7, <2>1, FewerAlone DEF vars
  <2>3. Housed' /\ Cleaned'
    BY <1>7, <2>1 DEF vars, IInv, Housed, Cleaned, Running
  <2> QED
    BY <1>0, <2>2, <2>3 DEF IInv
<1> QED
  BY <1>1, <1>2, <1>3, <1>4, <1>5, <1>6, <1>7, StartIInv DEF Next

\* In a life in which no start met another, a Java process that runs and was not told to
\* end is the one that the handler holds, and is known to be up or still waited for.
THEOREM NoStrayHolds == Spec => []NoStray
<1>1. IInv => NoStray
  BY DEF IInv, Alone, Held, NoStray
<1> QED
  BY <1>1, InitIInv, StepIInv, PTL DEF Spec

\* A server that ended after a signal leaves no Java process that was not told to end, and
\* no pid file, but for what CleanEnd exempts.
THEOREM CleanEndHolds == Spec => []CleanEnd
<1>1. IInv => CleanEnd
  BY DEF IInv, Cleaned, CleanEnd
<1> QED
  BY <1>1, InitIInv, StepIInv, PTL DEF Spec

====================================================================================
