----------------------------- MODULE QueryEngineProofs -----------------------------
(* Proofs about the query engine, for any number of requests, changes and edits and    *)
(* whatever the requests ask for.                                                       *)
EXTENDS QueryEngine, TLAPS

\* The stages of a reload are spelt out wherever they occur.
USE DEF Reload, UnderWay

\* The queries in memory, those a request runs with and those a reload found are queries.
Loaded == queries # NoQueries =>
  queries.version \in Versions /\ queries.cache \in Requests /\ queries.cache = cache
Found ==
  /\ \A c \in Chains : chain[c].at \in UnderWay => chain[c].found \in Versions
  /\ \A r \in Requests : req[r].at \in UnderWay => req[r].found \in Versions
Using ==
  \A r \in Requests : req[r].at \in {"relevant", "fetching"} =>
    /\ req[r].query.version \in Versions /\ req[r].query.cache = cache
    /\ req[r].kind = "data"
\* There is a cache once an _init went on.
Known ==
  cache # None \/ (~initialized /\ listening = {} /\ \A c \in Chains : chain[c].at = "none")
\* Before the first _init is over nothing is loaded and no request was served.
Unserved == ~initialized =>
  /\ queries = NoQueries /\ floor = NoPoint
  /\ \A x \in Requests, v \in Versions : entries[x][v] = None
  /\ \A r \in Requests : req[r].at \in {"idle", "init", "failed"}

Typed == TypeOK /\ Loaded /\ Found /\ Using /\ Known /\ Unserved

LEMMA Bounds ==
  /\ MaxRequests \in Nat /\ MaxGreens \in Nat /\ MaxEdits \in Nat /\ MaxData \in Nat
  /\ \A r \in Requests : Kinds[r] \subseteq {"init", "data", "clear"}
  BY EngineAssumption DEF EngineAssumption

\* What is left of a request that is over.
LEMMA Overs ==
  /\ NoQueries \in Memory /\ NoPoint \in Point
  /\ Fresh \in Request /\ Fresh.at = "idle" /\ Fresh.kind = "data" /\ Fresh.due = NoPoint
  /\ Failed \in Request /\ Failed.at = "failed" /\ Failed.kind = "data" /\ Failed.due = NoPoint
  /\ Cleared \in Request /\ Cleared.at = "answered" /\ Cleared.kind = "clear"
<1>1. NoQueries \in Memory /\ NoPoint \in Point
  BY Bounds DEF NoQueries, Memory, NoPoint, Point
<1>2. Fresh \in Request /\ Fresh.at = "idle" /\ Fresh.kind = "data" /\ Fresh.due = NoPoint
  BY <1>1, Bounds DEF Fresh, Request, Places, KindsOf
<1>3. Failed \in Request /\ Failed.at = "failed" /\ Failed.kind = "data" /\ Failed.due = NoPoint
  BY <1>2 DEF Failed, Request, Places
<1>4. Cleared \in Request /\ Cleared.at = "answered" /\ Cleared.kind = "clear"
  BY <1>2 DEF Cleared, Request, Places, KindsOf
<1> QED
  BY <1>1, <1>2, <1>3, <1>4

LEMMA AnsweredFields ==
  ASSUME NEW due \in Point, NEW v \in Versions, NEW d \in 0..MaxData
  PROVE  /\ Answered(due, v, d) \in Request
         /\ Answered(due, v, d).at = "answered" /\ Answered(due, v, d).kind = "data"
         /\ Answered(due, v, d).due = due
         /\ Answered(due, v, d).answer = [version |-> v, data |-> d]
<1>1. [version |-> v, data |-> d] \in Point
  BY DEF Point
<1> QED
  BY <1>1, Overs DEF Answered, Request, Places, KindsOf

LEMMA InitTyped == Init => Typed
<1> SUFFICES ASSUME Init PROVE Typed
  OBVIOUS
<1>1. TypeOK
  <2>1. /\ stored \in Versions /\ data \in 0..MaxData /\ greens \in 0..MaxGreens
    BY Bounds DEF Init, Versions
  <2>2. /\ entries \in [Requests -> [Versions -> (0..MaxData) \cup {None}]]
    BY DEF Init
  <2>3. chain \in [Chains -> Reload]
    BY DEF Init
  <2>4. req \in [Requests -> Request] /\ queries \in Memory /\ floor \in Point
    BY Overs DEF Init
  <2> QED
    BY <2>1, <2>2, <2>3, <2>4 DEF Init, TypeOK
<1>2. \A r \in Requests : req[r].at = "idle"
  BY Overs DEF Init
<1> QED
  BY <1>1, <1>2 DEF Init, Typed, Loaded, Found, Using, Known, Unserved

------------------------------------------------------------------------------------
\* A reload, of a chain or of a clear, sends its search or gets the answer: what it finds is
\* stored now, or was when the search was sent or later.
Finds(before, after) ==
  /\ after.at \in UnderWay
  /\ \/ after.found = stored
     \/ before.at \in UnderWay /\ after.found \in before.found..stored

\* A version between one that was stored and the one that is stored now.
LEMMA Since ==
  ASSUME TypeOK, NEW m \in Versions, NEW v \in m..stored
  PROVE  v \in Versions
  BY Bounds DEF TypeOK, Versions

\* What a step of a reload under _init does: to its chain, and to the request it is for.
LEMMA Reloads ==
  ASSUME TypeOK, Found, NEW c \in Chains, Advance(c)
  PROVE  /\ TypeOK'
         /\ chain[c].at # "none" /\ \A x \in Chains \ {c} : chain'[x] = chain[x]
         /\ chain'[c].at \in {"over", "lost"} \/ Finds(chain[c], chain'[c])
         /\ \A r \in Requests : req'[r] # req[r] =>
              /\ req[r].at = "init"
              /\ \/ req'[r] = Failed
                 \/ /\ req'[r].at \in {"answered", "ready"} /\ initialized'
                    /\ req'[r].kind = req[r].kind /\ req'[r].due = req[r].due
                    /\ req'[r].at = "answered" => req'[r].kind = "init"
         /\ initialized => initialized'
         /\ queries' # queries =>
              /\ chain[c].at = "joining" /\ initialized'
              /\ queries' \in Made(chain[c].found)
         /\ UNCHANGED <<world, cache, entries, listening, floor, disturbed>>
<1>1. c[1] \in Requests /\ chain[c] \in Reload
  BY DEF Chains, TypeOK
<1>2. CASE Load(c)
  <2> DEFINE new == [chain[c] EXCEPT !.at = "searching", !.found = stored]
  <2>1. chain' = [chain EXCEPT ![c] = new]
    BY <1>2 DEF Load, TypeOK
  <2>2. new \in Reload /\ new.at = "searching" /\ new.found = stored
    BY <1>1 DEF TypeOK
  <2> HIDE DEF new
  <2>3. chain' \in [Chains -> Reload] /\ chain'[c] = new
        /\ \A x \in Chains \ {c} : chain'[x] = chain[x]
    BY <2>1, <2>2 DEF TypeOK
  <2> QED
    BY <1>2, <2>2, <2>3 DEF Load, TypeOK, world, engine, Finds
<1>3. CASE LoadRejected(c)
  <2>1. req' \in [Requests -> Request]
        /\ \A r \in Requests : req'[r] # req[r] => req[r].at = "init" /\ req'[r] = Failed
    BY <1>1, <1>3, Overs DEF LoadRejected, Reject, TypeOK
  <2> QED
    BY <1>3, <2>1 DEF LoadRejected, Over, TypeOK, world, engine
<1>4. CASE LoadLost(c)
  BY <1>4 DEF LoadLost, Lost, TypeOK, world, engine
<1>5. ASSUME req' = Fulfil(c), initialized'
      PROVE  /\ req' \in [Requests -> Request]
             /\ \A r \in Requests : req'[r] # req[r] =>
                  /\ req[r].at = "init"
                  /\ req'[r].at \in {"answered", "ready"} /\ initialized'
                  /\ req'[r].kind = req[r].kind /\ req'[r].due = req[r].due
                  /\ req'[r].at = "answered" => req'[r].kind = "init"
  <2>1. CASE req[c[1]].at # "init"
    BY <1>5, <2>1 DEF Fulfil, TypeOK
  <2>2. CASE req[c[1]].at = "init"
    <3>1. PICK place \in {"answered", "ready"} :
            /\ req' = [req EXCEPT ![c[1]] = [req[c[1]] EXCEPT !.at = place]]
            /\ place = "answered" => req[c[1]].kind = "init"
      BY <1>5, <2>2, <1>1 DEF Fulfil, TypeOK
    <3>2. /\ [req[c[1]] EXCEPT !.at = place] \in Request
          /\ [req[c[1]] EXCEPT !.at = place].at = place
          /\ [req[c[1]] EXCEPT !.at = place].kind = req[c[1]].kind
          /\ [req[c[1]] EXCEPT !.at = place].due = req[c[1]].due
      <4>1. req[c[1]] \in Request
        BY <1>1 DEF TypeOK
      <4> QED
        BY <4>1 DEF Request, Places
    <3> QED
      BY <1>5, <2>2, <3>1, <3>2, <1>1 DEF TypeOK
  <2> QED
    BY <2>1, <2>2
<1>6. CASE Searched(c)
  <2>1. ASSUME NEW v \in chain[c].found..stored,
               chain' = [chain EXCEPT ![c].at = "joining", ![c].found = v],
               UNCHANGED <<initialized, req>>
        PROVE  /\ chain' \in [Chains -> Reload] /\ chain[c].at = "searching"
               /\ chain'[c].at = "joining" /\ chain'[c].found = v
               /\ \A x \in Chains \ {c} : chain'[x] = chain[x]
               /\ UNCHANGED <<req, world, engine, listening, floor, disturbed>>
    <3> DEFINE new == [chain[c] EXCEPT !.at = "joining", !.found = v]
    <3>1. chain' = [chain EXCEPT ![c] = new]
      BY <2>1 DEF TypeOK
    <3>2. v \in Versions
      BY <1>6, <2>1, Since DEF Searched, Found
    <3>3. new \in Reload /\ new.at = "joining" /\ new.found = v
      BY <1>1, <3>2
    <3> HIDE DEF new
    <3>4. /\ chain' \in [Chains -> Reload] /\ chain'[c] = new
          /\ \A x \in Chains \ {c} : chain'[x] = chain[x]
      BY <3>1, <3>3 DEF TypeOK
    <3>5. chain[c].at = "searching" /\ UNCHANGED <<req, world, engine, listening, floor, disturbed>>
      BY <1>6, <2>1 DEF Searched, engine
    <3> QED
      BY <3>3, <3>4, <3>5
  <2>2. CASE /\ chain' = [chain EXCEPT ![c] = Over]
             /\ initialized' = TRUE /\ req' = Fulfil(c)
    BY <1>5, <1>6, <2>2 DEF Searched, Over, TypeOK, world
  <2>3. CASE \E v \in chain[c].found..stored :
               /\ chain' = [chain EXCEPT ![c].at = "joining", ![c].found = v]
               /\ UNCHANGED <<initialized, req>>
    <3>1. PICK v \in chain[c].found..stored :
            /\ chain' = [chain EXCEPT ![c].at = "joining", ![c].found = v]
            /\ UNCHANGED <<initialized, req>>
      BY <2>3
    <3> QED
      BY <2>1, <3>1 DEF TypeOK, world, engine, Finds
  <2> QED
    BY <1>6, <2>2, <2>3 DEF Searched
<1>7. CASE Joined(c)
  <2>1. /\ chain' = [chain EXCEPT ![c] = Over] /\ initialized' = TRUE /\ req' = Fulfil(c)
        /\ chain[c].at = "joining"
        /\ queries' # queries => queries' \in Made(chain[c].found)
    BY <1>7 DEF Joined
  <2>2. queries' \in Memory
    BY <1>1, <1>7, Overs DEF Joined, Made, Memory, TypeOK
  <2> QED
    BY <1>5, <1>7, <2>1, <2>2 DEF Joined, Over, TypeOK, world
<1> QED
  BY <1>2, <1>3, <1>4, <1>6, <1>7 DEF Advance

\* A new request: it waits for an _init, or finds the engine initialised.
LEMMA Asks ==
  ASSUME TypeOK, NEW r \in Requests, NEW kind \in Kinds[r], Ask(r, kind)
  PROVE  /\ TypeOK'
         /\ \A s \in Requests \ {r} : req'[s] = req[s]
         /\ req'[r].at \in {"ready", "init"} /\ (req'[r].at = "ready" => initialized)
         /\ req'[r].due = floor
         /\ \/ initialized /\ UNCHANGED <<cache, listening, chain>>
            \/ ~initialized /\ cache' = r
         /\ \A c \in Chains : chain'[c] = chain[c] \/ chain'[c].at = "loading"
         /\ UNCHANGED <<world, initialized, entries, queries, floor, disturbed>>
<1> DEFINE place == IF initialized THEN "ready" ELSE "init"
<1> DEFINE new == [Fresh EXCEPT !.at = place, !.kind = kind, !.due = floor]
<1>1. new \in Request /\ new.at = place /\ new.due = floor
  BY Overs, Bounds DEF Request, Places, KindsOf, TypeOK
<1>2. req' = [req EXCEPT ![r] = new]
  BY DEF Ask
<1> HIDE DEF new
<1>3. /\ req' \in [Requests -> Request] /\ req'[r] = new
      /\ \A s \in Requests \ {r} : req'[s] = req[s]
  BY <1>1, <1>2 DEF TypeOK
<1>4. /\ chain' \in [Chains -> Reload]
      /\ \A c \in Chains : chain'[c] = chain[c] \/ chain'[c].at = "loading"
  <2>1. CASE ~initialized /\ green
    <3>1. <<r, 0>> \in Chains
      BY Bounds DEF Chains
    <3>2. chain' = [chain EXCEPT ![<<r, 0>>] = [chain[<<r, 0>>] EXCEPT !.at = "loading"]]
      BY <2>1, <3>1 DEF Ask, TypeOK
    <3>3. /\ [chain[<<r, 0>>] EXCEPT !.at = "loading"]
               \in Reload
          /\ [chain[<<r, 0>>] EXCEPT !.at = "loading"].at = "loading"
      BY <3>1 DEF TypeOK
    <3> QED
      BY <3>1, <3>2, <3>3 DEF TypeOK
  <2>2. CASE ~(~initialized /\ green)
    BY <2>2 DEF Ask, TypeOK
  <2> QED
    BY <2>1, <2>2
<1>5. /\ \/ initialized /\ UNCHANGED <<cache, listening, chain>>
         \/ ~initialized /\ cache' = r
      /\ cache' \in Requests \cup {None} /\ listening' \subseteq Requests
  BY DEF Ask, TypeOK
<1> QED
  BY <1>1, <1>3, <1>4, <1>5 DEF Ask, TypeOK, world

\* What the steps of a request that was let in do to it. The others stay as they are.
Others(r) == req' \in [Requests -> Request] /\ \A s \in Requests \ {r} : req'[s] = req[s]

LEMMA Gets ==
  ASSUME Typed, NEW r \in Requests, GetQueries(r)
  PROVE  /\ Others(r) /\ req[r].at = "ready"
         /\ \/ req'[r] = Failed
            \/ /\ req'[r].at = "relevant" /\ req'[r].query = queries /\ queries # NoQueries
               /\ req'[r].kind = "data" /\ req[r].kind = "data" /\ req'[r].due = req[r].due
<1>1. CASE req' = [req EXCEPT ![r] = Failed]
  BY <1>1, Overs DEF GetQueries, Others, Typed, TypeOK
<1>2. CASE queries # NoQueries
           /\ req' = [req EXCEPT ![r].at = "relevant", ![r].query = queries]
  <2> DEFINE new == [req[r] EXCEPT !.at = "relevant", !.query = queries]
  <2>1. /\ new \in Request /\ new.at = "relevant" /\ new.query = queries
        /\ new.kind = req[r].kind /\ new.due = req[r].due
    BY DEF Typed, TypeOK, Request, Places
  <2>2. req' = [req EXCEPT ![r] = new]
    BY <1>2 DEF GetQueries, Typed, TypeOK
  <2> HIDE DEF new
  <2> QED
    BY <1>2, <2>1, <2>2 DEF GetQueries, Others, Typed, TypeOK
<1> QED
  BY <1>1, <1>2 DEF GetQueries

\* A request that is refused, or hangs: what is left of it says nothing to the properties.
Hung == [Fresh EXCEPT !.at = "hung"]

LEMMA Losses ==
  ASSUME Typed, NEW r \in Requests, Refused(r) \/ ReplacementLost(r)
  PROVE  /\ Others(r) /\ req[r].at = "relevant"
         /\ req'[r] \in {Failed, Hung} /\ req'[r].at \in {"failed", "hung"}
         /\ req'[r].due = NoPoint
         /\ UNCHANGED <<world, engine, chain, listening, floor, disturbed>>
<1>1. Hung \in Request /\ Hung.at = "hung" /\ Hung.due = NoPoint
  BY Overs DEF Hung, Request, Places
<1>2. CASE Refused(r)
  BY <1>2, Overs DEF Refused, Others, Typed, TypeOK
<1>3. CASE ReplacementLost(r)
  BY <1>1, <1>3 DEF ReplacementLost, Hung, Others, Typed, TypeOK
<1> QED
  BY <1>2, <1>3

LEMMA Hits ==
  ASSUME Typed, NEW r \in Requests, FetchResults(r)
  PROVE  /\ Others(r) /\ req[r].at = "relevant" /\ req'[r].due = req[r].due
         /\ req'[r].kind = "data"
         /\ \/ /\ entries[cache][req[r].query.version] # None
               /\ req'[r].at = "answered"
               /\ req'[r].answer = [version |-> req[r].query.version,
                                    data |-> entries[cache][req[r].query.version]]
            \/ /\ req'[r].at = "fetching" /\ req'[r].query = req[r].query
               /\ req'[r].sent = data
<1>1. /\ req[r].at = "relevant" /\ req[r] \in Request /\ req[r].due \in Point
      /\ req[r].query.version \in Versions /\ req[r].query.cache = cache
      /\ req[r].kind = "data" /\ initialized
  BY DEF FetchResults, Typed, TypeOK, Using, Unserved, Request
<1>2. cache \in Requests
  BY <1>1 DEF Typed, TypeOK, Known
<1> DEFINE hit == entries[cache][req[r].query.version]
<1>3. CASE hit # None /\ req' = [req EXCEPT ![r] = Answered(@.due, req[r].query.version, hit)]
  <2>1. hit \in 0..MaxData
    BY <1>1, <1>2, <1>3 DEF Typed, TypeOK
  <2> QED
    BY <1>1, <1>3, <2>1, AnsweredFields DEF Others, Typed, TypeOK
<1>4. CASE req' = [req EXCEPT ![r].at = "fetching", ![r].sent = data]
  <2> DEFINE new == [req[r] EXCEPT !.at = "fetching", !.sent = data]
  <2>1. /\ new \in Request /\ new.at = "fetching" /\ new.sent = data
        /\ new.query = req[r].query /\ new.kind = req[r].kind /\ new.due = req[r].due
    BY <1>1 DEF Typed, TypeOK, Request, Places
  <2>2. req' = [req EXCEPT ![r] = new]
    BY <1>4 DEF Typed, TypeOK
  <2> HIDE DEF new
  <2> QED
    BY <1>1, <2>1, <2>2 DEF Others, Typed, TypeOK
<1> QED
  BY <1>1, <1>3, <1>4 DEF FetchResults

LEMMA Fetches ==
  ASSUME Typed, NEW r \in Requests, Fetched(r)
  PROVE  /\ Others(r) /\ req[r].at = "fetching"
         /\ \/ req'[r] = Failed /\ UNCHANGED entries
            \/ \E d \in req[r].sent..data :
                 /\ entries' = [entries EXCEPT ![cache][req[r].query.version] = d]
                 /\ req'[r].at = "answered" /\ req'[r].kind = "data"
                 /\ req'[r].due = req[r].due
                 /\ req'[r].answer = [version |-> req[r].query.version, data |-> d]
         /\ entries' \in [Requests -> [Versions -> (0..MaxData) \cup {None}]]
<1>1. /\ req[r].at = "fetching" /\ req[r] \in Request /\ req[r].due \in Point
      /\ req[r].query.version \in Versions /\ req[r].query.cache = cache
      /\ req[r].kind = "data" /\ req[r].sent \in 0..MaxData
  BY DEF Fetched, Typed, TypeOK, Using, Request
<1>2. cache \in Requests
  BY <1>1 DEF Typed, TypeOK, Known, Unserved
<1>3. ASSUME NEW d \in req[r].sent..data,
             entries' = [entries EXCEPT ![cache][req[r].query.version] = d],
             req' = [req EXCEPT ![r] = Answered(@.due, req[r].query.version, d)]
      PROVE  /\ Others(r) /\ req'[r].at = "answered" /\ req'[r].kind = "data"
             /\ req'[r].due = req[r].due
             /\ req'[r].answer = [version |-> req[r].query.version, data |-> d]
             /\ entries' \in [Requests -> [Versions -> (0..MaxData) \cup {None}]]
  <2>1. d \in 0..MaxData
    BY <1>1, <1>3, Bounds DEF Typed, TypeOK
  <2> QED
    BY <1>1, <1>2, <1>3, <2>1, AnsweredFields DEF Others, Typed, TypeOK
<1>4. CASE req' = [req EXCEPT ![r] = Failed] /\ UNCHANGED entries
  BY <1>1, <1>4, Overs DEF Others, Typed, TypeOK
<1> QED
  BY <1>1, <1>3, <1>4 DEF Fetched

LEMMA Clearing ==
  ASSUME Typed, NEW r \in Requests, ClearCache(r)
  PROVE  /\ Others(r) /\ req[r].at = "ready" /\ req'[r].at = "searching"
         /\ req'[r].kind = "clear" /\ req'[r].found = stored
         /\ req'[r].due = [version |-> stored, data |-> data]
         /\ cache \in Requests
         /\ entries' \in [Requests -> [Versions -> (0..MaxData) \cup {None}]]
         /\ \A v \in Versions : entries'[cache][v] = None
<1>1. initialized /\ cache \in Requests
  BY DEF ClearCache, Typed, TypeOK, Unserved, Known
<1> DEFINE now == [version |-> stored, data |-> data]
<1> DEFINE new == [req[r] EXCEPT !.at = "searching", !.found = stored, !.due = now]
<1>2. /\ new \in Request /\ new.at = "searching" /\ new.due = now
      /\ new.kind = "clear" /\ new.found = stored
  BY DEF ClearCache, Typed, TypeOK, Request, Places, Point
<1>3. req' = [req EXCEPT ![r] = new]
  BY DEF ClearCache, Typed, TypeOK
<1> HIDE DEF new
<1>4. Others(r) /\ req'[r] = new
  BY <1>2, <1>3 DEF Others, Typed, TypeOK
<1> QED
  BY <1>1, <1>2, <1>4 DEF ClearCache, Typed, TypeOK

LEMMA ClearSearches ==
  ASSUME Typed, NEW r \in Requests, ClearSearched(r)
  PROVE  /\ Others(r) /\ req[r].at = "searching"
         /\ \/ req'[r] = Cleared
            \/ /\ Finds(req[r], req'[r]) /\ req'[r].at = "joining" /\ req'[r].found \in Versions
               /\ req'[r].kind = req[r].kind /\ req'[r].due = req[r].due
<1>1. CASE req' = [req EXCEPT ![r] = Cleared]
  BY <1>1, Overs DEF ClearSearched, Others, Typed, TypeOK
<1>2. ASSUME NEW v \in req[r].found..stored,
             req' = [req EXCEPT ![r].at = "joining", ![r].found = v]
      PROVE  /\ Others(r) /\ req[r].at = "searching"
             /\ Finds(req[r], req'[r]) /\ req'[r].at = "joining" /\ req'[r].found \in Versions
             /\ req'[r].kind = req[r].kind /\ req'[r].due = req[r].due
  <2> DEFINE new == [req[r] EXCEPT !.at = "joining", !.found = v]
  <2>0. v \in Versions
    BY <1>2, Since DEF ClearSearched, Typed, Found
  <2>1. /\ new \in Request /\ new.at = "joining" /\ new.found = v
        /\ new.kind = req[r].kind /\ new.due = req[r].due
    BY <2>0 DEF Typed, TypeOK, Request, Places
  <2>2. req' = [req EXCEPT ![r] = new]
    BY <1>2 DEF Typed, TypeOK
  <2> HIDE DEF new
  <2>3. Others(r) /\ req'[r] = new
    BY <2>1, <2>2 DEF Others, Typed, TypeOK
  <2> QED
    BY <1>2, <2>0, <2>1, <2>3 DEF ClearSearched, Finds
<1> QED
  BY <1>1, <1>2 DEF ClearSearched

\* The greater of two points.
LEMMA BothIs ==
  ASSUME NEW p \in Point, NEW q \in Point
  PROVE  /\ Both(p, q) \in Point
         /\ Both(p, q).version \in {p.version, q.version}
         /\ Both(p, q).version >= p.version /\ Both(p, q).version >= q.version
         /\ Both(p, q).data \in {p.data, q.data}
         /\ Both(p, q).data >= p.data /\ Both(p, q).data >= q.data
  BY Bounds DEF Both, Larger, Point, Versions, None

LEMMA ClearJoins ==
  ASSUME Typed, NEW r \in Requests, ClearJoined(r)
  PROVE  /\ Others(r) /\ req[r].at = "joining" /\ req'[r] = Cleared
         /\ req[r].due \in Point /\ floor \in Point
         /\ \/ UNCHANGED <<queries, floor>>
            \/ /\ queries' \in Made(req[r].found) /\ floor' = Both(req[r].due, floor)
         /\ floor' \in Point
<1>1. req[r] \in Request /\ req[r].due \in Point /\ floor \in Point
  BY DEF Typed, TypeOK, Request
<1>2. floor' \in Point
  BY <1>1, BothIs DEF ClearJoined
<1> QED
  BY <1>1, <1>2, Overs DEF ClearJoined, Others, Typed, TypeOK

------------------------------------------------------------------------------------
\* Every step keeps the types.
LEMMA StepTyped == Typed /\ [Next]_vars => Typed'
<1> SUFFICES ASSUME Typed, [Next]_vars PROVE Typed'
  OBVIOUS
<1>t. TypeOK /\ Loaded /\ Found /\ Using /\ Known /\ Unserved
  BY DEF Typed
<1>1. CASE TurnsGreen
  <2>1. /\ chain' \in [Chains -> Reload]
        /\ \A c \in Chains : chain'[c] = chain[c] \/ (chain'[c].at = "loading" /\ c[1] \in listening)
    BY <1>1, <1>t DEF TurnsGreen, TypeOK
  <2>2. greens' \in 0..MaxGreens
    BY <1>1, <1>t, Bounds DEF TurnsGreen, TypeOK
  <2> QED
    BY <1>1, <1>t, <2>1, <2>2 DEF TurnsGreen, engine, Typed, TypeOK, Loaded, Found, Using, Known, Unserved
<1>2. CASE Degrades \/ EditQueries \/ DataChanges
  <2>1. stored' \in Versions /\ data' \in 0..MaxData /\ green' \in BOOLEAN
        /\ UNCHANGED <<greens, engine, chain, listening, req, floor, disturbed>>
    <3>1. CASE Degrades
      BY <3>1, <1>t DEF Degrades, TypeOK
    <3>2. CASE EditQueries
      <4>1. stored + 1 \in Versions
        BY <3>2, <1>t, Bounds DEF EditQueries, TypeOK, Versions
      <4> QED
        BY <3>2, <4>1, <1>t DEF EditQueries, TypeOK
    <3>3. CASE DataChanges
      <4>1. data + 1 \in 0..MaxData
        BY <3>3, <1>t, Bounds DEF DataChanges, TypeOK
      <4> QED
        BY <3>3, <4>1, <1>t DEF DataChanges, TypeOK
    <3> QED
      BY <1>2, <3>1, <3>2, <3>3
  <2> QED
    BY <1>t, <2>1 DEF engine, Typed, TypeOK, Loaded, Found, Using, Known, Unserved
<1>3. ASSUME NEW r \in Requests, NEW kind \in Kinds[r], Ask(r, kind) PROVE Typed'
  <2>1. TypeOK'
    BY <1>3, <1>t, Asks
  <2>2. Loaded' /\ Found'
    BY <1>3, <1>t, Asks DEF Loaded, Found, Unserved
  <2>3. Using'
    BY <1>3, <1>t, Asks DEF Using, Unserved
  <2>4. Known' /\ Unserved'
    <3>1. r # None
      BY Bounds DEF Requests, None
    <3> QED
      BY <1>3, <1>t, <3>1, Asks DEF Known, Unserved
  <2> QED
    BY <2>1, <2>2, <2>3, <2>4 DEF Typed
<1>4. ASSUME NEW c \in Chains, Advance(c) PROVE Typed'
  <2>1. TypeOK'
    BY <1>4, <1>t, Reloads
  <2>2. cache \in Requests
    BY <1>4, <1>t, Reloads DEF Known, TypeOK
  <2>3. Loaded'
    BY <1>4, <1>t, <2>2, Reloads DEF Loaded, Found, Made
  <2>4. stored \in Versions
    BY <1>t DEF TypeOK
  <2>5. Found'
    <3>1. \A x \in Chains \ {c} : chain'[x] = chain[x]
      BY <1>4, <1>t, Reloads
    <3>2. chain'[c].at \in UnderWay => chain'[c].found \in Versions
      BY <1>4, <1>t, <2>4, Reloads, Since DEF Found, Finds
    <3>3. \A r \in Requests : req'[r].at \in UnderWay => req'[r] = req[r]
      BY <1>4, <1>t, Reloads, Overs
    <3> QED
      BY <1>t, <3>1, <3>2, <3>3 DEF Found
  <2>6. Using'
    BY <1>4, <1>t, Reloads, Overs DEF Using
  <2>7. Known' /\ Unserved'
    BY <1>4, <1>t, <2>2, Reloads, Overs DEF Known, Unserved, None, Requests
  <2> QED
    BY <2>1, <2>3, <2>5, <2>6, <2>7 DEF Typed
<1>5. ASSUME NEW r \in Requests, Serve(r) PROVE Typed'
  <2>0. initialized
    BY <1>5, <1>t DEF Serve, GetQueries, Refused, ReplacementLost, FetchResults, Fetched, ClearCache, ClearSearched, ClearJoined, Unserved
  <2>1. CASE GetQueries(r)
    <3>0. UNCHANGED <<cache, queries, chain>> /\ stored \in Versions
      BY <2>1, <1>t DEF GetQueries, world, engine, TypeOK
    <3>1. Found' /\ Using'
      BY <2>1, <3>0, <1>t, Gets, Overs DEF Typed, Others, Found, Using, Loaded
    <3>2. TypeOK'
      BY <2>1, <1>t, Gets DEF Typed, GetQueries, Others, world, engine, TypeOK
    <3> QED
      BY <2>0, <2>1, <3>1, <3>2, <1>t DEF GetQueries, engine, world, Typed, Loaded, Known, Unserved
  <2>7. CASE Refused(r) \/ ReplacementLost(r)
    <3>1. Others(r) /\ req'[r].at \in {"failed", "hung"}
          /\ UNCHANGED <<world, engine, chain, listening, floor, disturbed>>
      BY <2>7, <1>t, Losses DEF Typed
    <3>2. Found' /\ Using' /\ TypeOK'
      BY <3>1, <1>t DEF Others, Found, Using, UnderWay, TypeOK, world, engine
    <3> QED
      BY <2>0, <3>1, <3>2, <1>t DEF world, engine, Typed, Loaded, Known, Unserved
  <2>2. CASE FetchResults(r)
    <3>0. UNCHANGED <<cache, queries, chain>> /\ stored \in Versions
      BY <2>2, <1>t DEF FetchResults, world, engine, TypeOK
    <3>1. Found' /\ Using'
      BY <2>2, <3>0, <1>t, Hits DEF Typed, Others, Found, Using
    <3>2. TypeOK'
      BY <2>2, <1>t, Hits DEF Typed, FetchResults, Others, world, engine, TypeOK
    <3> QED
      BY <2>0, <2>2, <3>1, <3>2, <1>t DEF FetchResults, engine, world, Typed, Loaded, Known, Unserved
  <2>3. CASE Fetched(r)
    <3>0. UNCHANGED <<cache, queries, chain>> /\ stored \in Versions
      BY <2>3, <1>t DEF Fetched, world, TypeOK
    <3>1. Found' /\ Using'
      <4>1. Others(r) /\ req'[r].at \in {"failed", "answered"}
        BY <2>3, Fetches, Overs
      <4> QED
        BY <3>0, <4>1, <1>t DEF Others, Found, Using
    <3>2. TypeOK'
      BY <2>3, <1>t, Fetches DEF Typed, Fetched, Others, world, TypeOK
    <3> QED
      BY <2>0, <2>3, <3>1, <3>2, <1>t DEF Fetched, world, Typed, Loaded, Known, Unserved
  <2>4. CASE ClearCache(r)
    <3>1. Found' /\ Using'
      <4>1. stored \in Versions
        BY <1>t DEF TypeOK
      <4> QED
        BY <2>4, <4>1, <1>t, Clearing DEF Typed, ClearCache, Others, Found, Using
    <3>2. TypeOK'
      BY <2>4, <1>t, Clearing DEF Typed, ClearCache, Others, world, TypeOK, ReloadUnderWay
    <3> QED
      BY <2>0, <2>4, <3>1, <3>2, <1>t DEF ClearCache, world, Typed, Loaded, Known, Unserved
  <2>5. CASE ClearSearched(r)
    <3>0. UNCHANGED <<cache, queries, chain>> /\ stored \in Versions
      BY <2>5, <1>t DEF ClearSearched, world, engine, TypeOK
    <3>1. Found' /\ Using'
      BY <2>5, <3>0, <1>t, ClearSearches, Overs DEF Typed, Others, Found, Using
    <3>2. TypeOK'
      BY <2>5, <1>t, ClearSearches DEF Typed, ClearSearched, Others, world, engine, TypeOK
    <3> QED
      BY <2>0, <2>5, <3>1, <3>2, <1>t DEF ClearSearched, engine, world, Typed, Loaded, Known, Unserved
  <2>6. CASE ClearJoined(r)
    <3>1. cache \in Requests
      BY <2>0, <1>t DEF Known, TypeOK
    <3>2. queries' \in Memory /\ Loaded'
      BY <2>6, <3>1, <1>t, ClearJoins, Overs DEF Typed, ClearJoined, Made, Memory, Loaded, Found, TypeOK
    <3>3. Found' /\ Using' /\ TypeOK'
      BY <2>6, <1>t, <3>2, ClearJoins, Overs DEF Typed, ClearJoined, Others, world, Found, Using, TypeOK
    <3> QED
      BY <2>0, <2>6, <3>2, <3>3, <1>t DEF ClearJoined, world, Typed, Known, Unserved
  <2> QED
    BY <1>5, <2>1, <2>2, <2>3, <2>4, <2>5, <2>6, <2>7 DEF Serve
<1>6. CASE UNCHANGED vars
  BY <1>6, <1>t DEF vars, world, engine, Typed, TypeOK, Loaded, Found, Using, Known, Unserved
<1> QED
  BY <1>1, <1>2, <1>3, <1>4, <1>5, <1>6 DEF Next

\* Every variable keeps its type: what a request reads from the cache is there.
THEOREM TypeCorrect == Spec => []TypeOK
<1>1. Typed => TypeOK
  BY DEF Typed
<1> QED
  BY <1>1, InitTyped, StepTyped, PTL DEF Spec

\* The queries in memory use the cache that clearCache resets.
THEOREM OneCacheHolds == Spec => []OneCache
<1>1. Typed => OneCache
  BY DEF Typed, Loaded, OneCache
<1> QED
  BY <1>1, InitTyped, StepTyped, PTL DEF Spec

------------------------------------------------------------------------------------
\* What clears promise: the floor and what is due of those under way.
Clears == {r \in Requests : req[r].at \in {"searching", "joining"}}
Promised == {floor} \cup {req[r].due : r \in Clears}
Now == [version |-> stored, data |-> data]
AtMost(p, q) == p.version <= q.version /\ p.data <= q.data

\* No promise is ahead of what is stored, and no request expects more than the floor.
Past ==
  /\ \A p \in Promised : AtMost(p, Now)
  /\ \A r \in Requests : req[r].kind = "data" => AtMost(req[r].due, floor)

\* While no clear met a fetch or a reload: what a reload found, the cache holds and a fetch
\* asks for is as recent as every promise; the queries as the floor.
Reloading(p) ==
  /\ \A c \in Chains : chain[c].at \in UnderWay => chain[c].found >= p.version
  /\ \A r \in Requests : req[r].at \in UnderWay => req[r].found >= p.version
Cached(p) == \A v \in Versions :
  cache # None /\ entries[cache][v] # None => entries[cache][v] >= p.data
Sent(p) == \A r \in Requests : req[r].at = "fetching" => req[r].sent >= p.data
Ahead == queries # NoQueries => queries.version >= floor.version
Own == \A r \in Requests :
  req[r].at \in {"relevant", "fetching"} => req[r].query.version >= req[r].due.version
Current == ~disturbed =>
  Ahead /\ Own /\ FreshAfterClear /\ \A p \in Promised : Reloading(p) /\ Cached(p) /\ Sent(p)

IInv == Typed /\ Past /\ Current

\* A step that makes no promise: what it finds, fetches, caches or uses comes from what is
\* stored now or from what was found, fetched, cached or used before.
Routine ==
  /\ floor' = floor /\ Promised' \subseteq Promised
  /\ stored' >= stored /\ data' >= data /\ (~disturbed' => ~disturbed)
  /\ \A c \in Chains : chain'[c].at \in UnderWay =>
       Finds(chain[c], chain'[c]) \/ chain'[c] = chain[c]
  /\ \A r \in Requests : req'[r].at \in UnderWay =>
       Finds(req[r], req'[r]) \/ req'[r] = req[r]
  /\ \A r \in Requests : req'[r].at = "fetching" =>
       req'[r].sent = data \/ req'[r] = req[r]
  /\ \A r \in Requests : req'[r].at \in {"relevant", "fetching"} =>
       /\ req'[r].due = req[r].due
       /\ \/ req[r].at = "ready" /\ req[r].kind = "data" /\ req'[r].query = queries
             /\ queries # NoQueries
          \/ req[r].at \in {"relevant", "fetching"} /\ req'[r].query = req[r].query
  /\ \A r \in Requests : req'[r].kind = "data" =>
       req'[r].due \in {NoPoint, floor} \/ (req[r].kind = "data" /\ req'[r].due = req[r].due)
  /\ \A r \in Requests : req'[r].kind = "data" /\ req'[r].at = "answered" =>
       \/ req'[r] = req[r]
       \/ /\ req[r].at \in {"relevant", "fetching"} /\ req'[r].due = req[r].due
          /\ req'[r].answer.version = req[r].query.version
          /\ \/ /\ entries[cache][req[r].query.version] # None
                /\ req'[r].answer.data = entries[cache][req[r].query.version]
             \/ req[r].at = "fetching" /\ req'[r].answer.data >= req[r].sent
  /\ \A v \in Versions : cache' # None /\ entries'[cache'][v] # None =>
       \/ cache # None /\ entries[cache][v] # None
          /\ entries'[cache'][v] = entries[cache][v]
       \/ \E r \in Requests : req[r].at = "fetching" /\ entries'[cache'][v] >= req[r].sent
  /\ queries' # NoQueries =>
       queries' = queries \/ \E c \in Chains : chain[c].at = "joining" /\ queries'.version = chain[c].found

\* The promises and their bounds are numbers.
LEMMA Numbers ==
  ASSUME TypeOK
  PROVE  /\ stored \in Int /\ data \in Int /\ floor.version \in Int /\ floor.data \in Int
         /\ queries.version \in Int
         /\ \A p \in Promised : p \in Point /\ p.version \in Int /\ p.data \in Int
         /\ \A c \in Chains : chain[c].found \in Int
         /\ \A r \in Requests :
              /\ req[r].found \in Int /\ req[r].sent \in Int /\ req[r].query.version \in Int
              /\ req[r].due \in Point
              /\ req[r].due.version \in Int /\ req[r].due.data \in Int
              /\ req[r].answer.version \in Int /\ req[r].answer.data \in Int
         /\ \A x \in Requests, v \in Versions : entries[x][v] \in Int
<1>1. Versions \cup {None} \subseteq Int /\ 0..MaxData \subseteq Int
  BY Bounds DEF Versions, None
<1>2. \A p \in Point : p.version \in Int /\ p.data \in Int
  BY <1>1 DEF Point
<1>3. \A m \in Memory : m.version \in Int
  BY <1>1 DEF Memory
<1>4. \A r \in Requests : /\ req[r].due \in Point /\ req[r].answer \in Point
                          /\ req[r].query \in Memory /\ req[r].found \in Versions \cup {None}
                          /\ req[r].sent \in 0..MaxData
  BY DEF TypeOK, Request
<1>5. \A p \in Promised : p \in Point
  BY <1>4 DEF Promised, Clears, TypeOK
<1>6. \A x \in Requests, v \in Versions : entries[x][v] \in Int
  BY <1>1, Bounds DEF TypeOK, None
<1> QED
  BY <1>1, <1>2, <1>3, <1>4, <1>5, <1>6 DEF TypeOK

LEMMA RoutineKeeps ==
  ASSUME IInv, Typed', Routine
  PROVE  Past' /\ Current'
<1>t. TypeOK /\ TypeOK' /\ floor \in Promised /\ floor' = floor /\ Promised' \subseteq Promised
  BY DEF IInv, Typed, Promised, Routine
<1>n. AtMost(NoPoint, floor)
  BY <1>t, Bounds DEF AtMost, NoPoint, TypeOK, Point, Versions, None
<1>1. Past'
  <2>1. \A p \in Promised' : AtMost(p, Now)'
    <3>1. TAKE p \in Promised'
    <3>2. AtMost(p, Now) /\ p.version \in Int /\ p.data \in Int
      BY <1>t, Numbers DEF IInv, Past
    <3>3. stored' >= stored /\ data' >= data /\ stored' \in Int /\ data' \in Int /\ stored \in Int /\ data \in Int
      BY <1>t, Numbers DEF Routine, TypeOK, Versions
    <3> QED
      BY <3>2, <3>3 DEF AtMost, Now
  <2>2. \A r \in Requests : req'[r].kind = "data" => AtMost(req'[r].due, floor')
    <3>1. AtMost(floor, floor)
      BY <1>t, Numbers DEF AtMost
    <3> QED
      BY <1>t, <1>n, <3>1 DEF Routine, IInv, Past
  <2> QED
    BY <2>1, <2>2 DEF Past, AtMost, Now
<1>2. SUFFICES ASSUME ~disturbed' PROVE Current'
  BY <1>1 DEF Current
<1>3. ~disturbed
  BY <1>2 DEF Routine
<1>4. /\ Ahead /\ Own /\ FreshAfterClear
      /\ \A p \in Promised : Reloading(p) /\ Cached(p) /\ Sent(p)
  BY <1>3 DEF IInv, Current
<1>5. Ahead'
  BY <1>t, <1>4 DEF Ahead, Routine, Reloading
<1>6. Own'
  <2>1. SUFFICES ASSUME NEW r \in Requests, req'[r].at \in {"relevant", "fetching"}
                 PROVE  req'[r].query.version >= req'[r].due.version
    BY DEF Own
  <2>2. CASE req[r].at = "ready" /\ req[r].kind = "data" /\ req'[r].query = queries
             /\ queries # NoQueries /\ req'[r].due = req[r].due
    <3>1. queries.version >= floor.version /\ floor.version >= req[r].due.version
      BY <2>2, <1>4 DEF Ahead, IInv, Past, AtMost
    <3> QED
      BY <2>2, <3>1, <1>t, Numbers
  <2>3. CASE /\ req[r].at \in {"relevant", "fetching"} /\ req'[r].query = req[r].query
             /\ req'[r].due = req[r].due
    BY <2>3, <1>4 DEF Own
  <2> QED
    BY <2>1, <2>2, <2>3 DEF Routine
<1>7. ASSUME NEW p \in Promised' PROVE (Reloading(p) /\ Cached(p) /\ Sent(p))'
  <2>1. /\ p \in Promised /\ p.version <= stored /\ p.data <= data
        /\ Reloading(p) /\ Cached(p) /\ Sent(p)
    BY <1>t, <1>4, <1>7 DEF IInv, Past, AtMost, Now
  <2>2. /\ p.version \in Int /\ p.data \in Int /\ stored \in Int /\ data \in Int
        /\ \A r \in Requests : req[r].sent \in Int
        /\ \A x \in Requests, v \in Versions : entries'[x][v] \in Int
    <3>1. \A x \in Requests, v \in Versions : entries'[x][v] \in (0..MaxData) \cup {None}
      BY <1>t DEF TypeOK
    <3>2. (0..MaxData) \cup {None} \subseteq Int
      BY Bounds DEF None
    <3> QED
      BY <1>t, <2>1, <3>1, <3>2, Numbers
  <2>3. Reloading(p)'
    <3>1. ASSUME NEW before, NEW after, before.found \in Int,
                 Finds(before, after) \/ after = before, after.at \in UnderWay,
                 before.at \in UnderWay => before.found >= p.version
          PROVE  after.found >= p.version
      BY <2>1, <2>2, <3>1 DEF Finds
    <3>2. \A c \in Chains : chain'[c].at \in UnderWay => chain'[c].found >= p.version
      BY <2>1, <3>1, <1>t, Numbers DEF Reloading, Routine
    <3>3. \A r \in Requests : req'[r].at \in UnderWay => req'[r].found >= p.version
      BY <2>1, <3>1, <1>t, Numbers DEF Reloading, Routine
    <3> QED
      BY <3>2, <3>3 DEF Reloading
  <2>4. Sent(p)'
    BY <2>1, <2>2 DEF Sent, Routine
  <2>5. Cached(p)'
    <3>1. SUFFICES ASSUME NEW v \in Versions, cache' # None, entries'[cache'][v] # None
                   PROVE  entries'[cache'][v] >= p.data
      BY DEF Cached
    <3>2. entries'[cache'][v] \in Int
      BY <2>2, <3>1, <1>t DEF TypeOK
    <3>3. CASE cache # None /\ entries[cache][v] # None /\ entries'[cache'][v] = entries[cache][v]
      BY <2>1, <3>3 DEF Cached
    <3>4. CASE \E r \in Requests : req[r].at = "fetching" /\ entries'[cache'][v] >= req[r].sent
      BY <2>1, <2>2, <3>2, <3>4 DEF Sent
    <3> QED
      BY <3>1, <3>3, <3>4 DEF Routine
  <2> QED
    BY <2>3, <2>4, <2>5
<1>8. FreshAfterClear'
  <2>1. SUFFICES ASSUME NEW r \in Requests, req'[r].kind = "data", req'[r].at = "answered"
                 PROVE  /\ req'[r].answer.version >= req'[r].due.version
                        /\ req'[r].answer.data >= req'[r].due.data
    BY DEF FreshAfterClear
  <2>2. CASE req'[r] = req[r]
    BY <2>1, <2>2, <1>3, <1>4 DEF FreshAfterClear
  <2>3. CASE /\ req[r].at \in {"relevant", "fetching"} /\ req'[r].due = req[r].due
             /\ req'[r].answer.version = req[r].query.version
             /\ \/ /\ entries[cache][req[r].query.version] # None
                   /\ req'[r].answer.data = entries[cache][req[r].query.version]
                \/ req[r].at = "fetching" /\ req'[r].answer.data >= req[r].sent
    <3>1. /\ req[r].query.version \in Versions /\ req[r].kind = "data" /\ cache # None
      BY <2>3 DEF IInv, Typed, Using, Unserved, Known
    <3>2. req'[r].answer.version >= req'[r].due.version
      BY <2>3, <1>4 DEF Own
    <3>3. floor.data >= req[r].due.data
      BY <3>1 DEF IInv, Past, AtMost
    <3>4. Cached(floor) /\ Sent(floor)
      BY <1>t, <1>4
    <3>5. req'[r].answer.data \in Int /\ req[r].sent \in Int /\ floor.data \in Int /\ req[r].due.data \in Int
      BY <1>t, Numbers, Bounds DEF TypeOK, Request, Point
    <3>6. req'[r].answer.data >= floor.data
      BY <2>3, <3>1, <3>4, <3>5 DEF Cached, Sent
    <3> QED
      BY <2>3, <3>2, <3>3, <3>5, <3>6
  <2> QED
    BY <2>1, <2>2, <2>3 DEF Routine
<1> QED
  BY <1>5, <1>6, <1>7, <1>8 DEF Current

\* The promises of a step that adds no clear and leaves the dues of the others.
LEMMA PromisedFewer ==
  ASSUME floor' = floor,
         \A r \in Requests : req'[r].at \in {"searching", "joining"} =>
           req[r].at \in {"searching", "joining"} /\ req'[r].due = req[r].due
  PROVE  Promised' \subseteq Promised
  BY DEF Promised, Clears

\* Reads that leave a request as it is are routine.
LEMMA WorldRoutine ==
  ASSUME IInv, Typed', TurnsGreen \/ Degrades \/ EditQueries \/ DataChanges \/ UNCHANGED vars
  PROVE  Routine
<1>t. TypeOK /\ TypeOK' /\ \A r \in Requests : req[r].at \in {"relevant", "fetching"} => req[r].kind = "data"
  BY DEF IInv, Typed, Using
<1>1. /\ UNCHANGED <<engine, req, floor, disturbed>> /\ stored' >= stored /\ data' >= data
      /\ \A c \in Chains : chain'[c] = chain[c] \/ chain'[c].at = "loading"
  <2>1. CASE TurnsGreen
    BY <2>1, <1>t, Numbers DEF TurnsGreen, TypeOK
  <2>2. CASE Degrades \/ UNCHANGED vars
    BY <2>2, <1>t, Numbers DEF Degrades, vars, world
  <2>3. CASE EditQueries
    BY <2>3, <1>t, Numbers DEF EditQueries
  <2>4. CASE DataChanges
    BY <2>4, <1>t, Numbers DEF DataChanges
  <2> QED
    BY <2>1, <2>2, <2>3, <2>4
<1>2. Promised' \subseteq Promised
  BY <1>1, PromisedFewer
<1> QED
  BY <1>1, <1>2 DEF Routine, engine

LEMMA AskRoutine ==
  ASSUME IInv, Typed', NEW r \in Requests, NEW kind \in Kinds[r], Ask(r, kind)
  PROVE  Routine
<1>t. TypeOK /\ Unserved
  BY DEF IInv, Typed
<1>1. /\ \A s \in Requests \ {r} : req'[s] = req[s]
      /\ req'[r].at \in {"ready", "init"} /\ req'[r].due = floor
      /\ (initialized /\ UNCHANGED cache) \/ ~initialized
      /\ \A c \in Chains : chain'[c] = chain[c] \/ chain'[c].at = "loading"
      /\ UNCHANGED <<stored, data, entries, queries, floor, disturbed>>
  BY <1>t, Asks DEF world
<1>2. Promised' \subseteq Promised
  BY <1>1, PromisedFewer
<1>3. stored' >= stored /\ data' >= data
  BY <1>1, <1>t, Numbers
<1>4. \A v \in Versions : cache' # None /\ entries'[cache'][v] # None =>
        cache # None /\ entries[cache][v] # None /\ entries'[cache'][v] = entries[cache][v]
  <2>1. CASE initialized
    BY <1>1, <2>1
  <2>2. CASE ~initialized
    BY <1>1, <1>t, <2>2 DEF Unserved, IInv, Typed, TypeOK
  <2> QED
    BY <2>1, <2>2
<1> QED
  BY <1>1, <1>2, <1>3, <1>4 DEF Routine

LEMMA AdvanceRoutine ==
  ASSUME IInv, Typed', NEW c \in Chains, Advance(c)
  PROVE  Routine
<1>t. TypeOK /\ Found
  BY DEF IInv, Typed
<1>1. /\ \A x \in Chains \ {c} : chain'[x] = chain[x]
      /\ chain'[c].at \in {"over", "lost"} \/ Finds(chain[c], chain'[c])
      /\ \A r \in Requests : req'[r] # req[r] =>
           \/ req'[r] = Failed
           \/ /\ req'[r].at \in {"answered", "ready"}
              /\ req'[r].kind = req[r].kind /\ req'[r].due = req[r].due
              /\ req'[r].at = "answered" => req'[r].kind = "init"
      /\ queries' # queries => chain[c].at = "joining" /\ queries' \in Made(chain[c].found)
      /\ UNCHANGED <<stored, data, cache, entries, floor, disturbed>>
  BY <1>t, Reloads DEF world
<1>2. Promised' \subseteq Promised
  BY <1>1, PromisedFewer, Overs
<1>3. stored' >= stored /\ data' >= data
  BY <1>1, <1>t, Numbers
<1>4. queries' # NoQueries => queries' = queries \/
        \E x \in Chains : chain[x].at = "joining" /\ queries'.version = chain[x].found
  BY <1>1 DEF Made
<1> QED
  BY <1>1, <1>2, <1>3, <1>4, Overs DEF Routine

\* So are the steps of a request for data, and the search of a clear.
LEMMA ServeRoutine ==
  ASSUME IInv, Typed', NEW r \in Requests,
         \/ GetQueries(r) \/ Refused(r) \/ ReplacementLost(r) \/ FetchResults(r)
         \/ Fetched(r) \/ ClearSearched(r)
  PROVE  Routine
<1>t. Typed /\ TypeOK
  BY DEF IInv, Typed
<1>0. stored >= stored /\ data >= data
  BY <1>t, Numbers
<1>1. CASE GetQueries(r)
  <2>1. /\ Others(r) /\ req[r].at = "ready"
        /\ \/ req'[r] = Failed
           \/ /\ req'[r].at = "relevant" /\ req'[r].query = queries /\ queries # NoQueries
              /\ req'[r].kind = "data" /\ req[r].kind = "data" /\ req'[r].due = req[r].due
        /\ UNCHANGED <<stored, data, engine, chain, floor, disturbed>>
    BY <1>t, <1>1, Gets DEF GetQueries, world
  <2>2. Promised' \subseteq Promised
    BY <2>1, PromisedFewer, Overs DEF Others, engine
  <2> QED
    BY <1>0, <2>1, <2>2, Overs DEF Others, Routine, engine
<1>2. CASE FetchResults(r)
  <2>1. /\ Others(r) /\ req[r].at = "relevant" /\ req'[r].due = req[r].due
        /\ req[r].kind = "data"
        /\ \/ /\ entries[cache][req[r].query.version] # None
              /\ req'[r].at = "answered"
              /\ req'[r].answer.version = req[r].query.version
              /\ req'[r].answer.data = entries[cache][req[r].query.version]
           \/ /\ req'[r].at = "fetching" /\ req'[r].query = req[r].query
              /\ req'[r].sent = data
        /\ UNCHANGED <<stored, data, engine, chain, floor, disturbed>>
    <3>1. UNCHANGED <<stored, data, engine, chain, floor, disturbed>> /\ req[r].kind = "data"
      BY <1>t, <1>2 DEF FetchResults, world, Typed, Using
    <3>2. /\ [version |-> req[r].query.version,
              data |-> entries[cache][req[r].query.version]].version = req[r].query.version
          /\ [version |-> req[r].query.version,
              data |-> entries[cache][req[r].query.version]].data
                = entries[cache][req[r].query.version]
      OBVIOUS
    <3> QED
      BY <1>t, <1>2, <3>1, <3>2, Hits
  <2>2. Promised' \subseteq Promised
    BY <2>1, PromisedFewer DEF Others
  <2> QED
    BY <1>0, <2>1, <2>2 DEF Others, Routine, engine
<1>3. CASE Fetched(r)
  <2>1. Others(r) /\ req[r].at = "fetching" /\ UNCHANGED <<stored, data, cache, queries, chain, floor, disturbed>>
    BY <1>t, <1>3, Fetches DEF Fetched, world
  <2>2. CASE req'[r] = Failed /\ UNCHANGED entries
    <3>1. Promised' \subseteq Promised
      BY <2>1, <2>2, PromisedFewer, Overs DEF Others
    <3> QED
      BY <1>0, <2>1, <2>2, <3>1, Overs DEF Others, Routine
  <2>3. ASSUME NEW d \in req[r].sent..data,
               entries' = [entries EXCEPT ![cache][req[r].query.version] = d],
               req'[r].at = "answered", req'[r].kind = "data", req'[r].due = req[r].due,
               req'[r].answer = [version |-> req[r].query.version, data |-> d]
        PROVE  Routine
    <3>1. Promised' \subseteq Promised
      BY <2>1, <2>3, PromisedFewer DEF Others
    <3>2. d >= req[r].sent /\ req[r].kind = "data" /\ cache \in Requests
          /\ req[r].query.version \in Versions
      <4>1. d >= req[r].sent
        BY <1>t, <2>3, Numbers
      <4>2. req[r].kind = "data" /\ req[r].query.version \in Versions
        BY <1>t, <2>1 DEF Typed, Using
      <4>3. cache \in Requests
        BY <1>t, <2>1 DEF Typed, TypeOK, Unserved, Known
      <4> QED
        BY <4>1, <4>2, <4>3
    <3>3. /\ entries'[cache][req[r].query.version] = d
          /\ \A v \in Versions \ {req[r].query.version} : entries'[cache][v] = entries[cache][v]
      BY <1>t, <2>3, <3>2 DEF TypeOK
    <3>4. \A v \in Versions : entries'[cache][v] # None =>
            \/ entries[cache][v] # None /\ entries'[cache][v] = entries[cache][v]
            \/ \E x \in Requests : req[x].at = "fetching" /\ entries'[cache][v] >= req[x].sent
      BY <2>1, <3>2, <3>3
    <3>5. cache # None
      BY <3>2 DEF Requests, None
    <3>6. req'[r].answer.version = req[r].query.version /\ req'[r].answer.data = d
      BY <2>3
    <3> QED
      BY <1>0, <2>1, <2>3, <3>1, <3>2, <3>4, <3>5, <3>6 DEF Others, Routine
  <2> QED
    BY <1>t, <1>3, <2>2, <2>3, Fetches
<1>4. CASE ClearSearched(r)
  <2>1. /\ Others(r) /\ req[r].at = "searching"
        /\ \/ req'[r] = Cleared
           \/ /\ Finds(req[r], req'[r]) /\ req'[r].at = "joining"
              /\ req'[r].kind = req[r].kind /\ req'[r].due = req[r].due
        /\ UNCHANGED <<stored, data, engine, chain, floor, disturbed>>
    BY <1>t, <1>4, ClearSearches DEF ClearSearched, world
  <2>2. Promised' \subseteq Promised
    BY <2>1, PromisedFewer, Overs DEF Others
  <2> QED
    BY <1>0, <2>1, <2>2, Overs DEF Others, Routine, engine
<1>5. CASE Refused(r) \/ ReplacementLost(r)
  <2>1. /\ Others(r) /\ req[r].at = "relevant" /\ req'[r].at \in {"failed", "hung"}
        /\ req'[r].due = NoPoint
        /\ UNCHANGED <<stored, data, engine, chain, floor, disturbed>>
    BY <1>t, <1>5, Losses DEF world
  <2>2. Promised' \subseteq Promised
    BY <2>1, PromisedFewer DEF Others
  <2> QED
    BY <1>0, <2>1, <2>2 DEF Others, Routine, engine
<1> QED
  BY <1>1, <1>2, <1>3, <1>4, <1>5

\* A clear promises what is stored now. That holds when no fetch and no reload is under way,
\* because the cache is empty; if one is, disturbed says so.
LEMMA ClearKeeps ==
  ASSUME IInv, Typed', NEW r \in Requests, ClearCache(r)
  PROVE  Past' /\ Current'
<1>t. Typed /\ TypeOK /\ TypeOK'
  BY DEF IInv, Typed
<1>1. /\ Others(r) /\ req[r].at = "ready" /\ req'[r].at = "searching"
      /\ req'[r].kind = "clear" /\ req'[r].due = Now /\ req'[r].found = Now.version
      /\ \A v \in Versions : entries'[cache][v] = None
  BY <1>t, Clearing DEF Now
<1>2. /\ UNCHANGED <<stored, data, cache, queries, chain, floor>> /\ Now' = Now
      /\ ~disturbed' => ~disturbed /\ ~ReloadUnderWay /\ \A s \in Requests : req[s].at # "fetching"
  BY DEF ClearCache, world, Now
<1>3. Promised' \subseteq Promised \cup {Now} /\ floor \in Promised
  BY <1>1, <1>2 DEF Promised, Clears, Others
<1>4. Past'
  <2>1. AtMost(Now, Now)
    BY <1>t, Numbers DEF AtMost, Now
  <2>2. \A p \in Promised' : AtMost(p, Now')
    BY <1>2, <1>3, <2>1 DEF IInv, Past
  <2>3. \A s \in Requests : req'[s].kind = "data" => AtMost(req'[s].due, floor')
    BY <1>1, <1>2 DEF Others, IInv, Past
  <2> QED
    BY <2>2, <2>3 DEF Past
<1>5. ASSUME ~disturbed' PROVE Current'
  <2>1. /\ Ahead /\ Own /\ FreshAfterClear /\ ~ReloadUnderWay
        /\ \A s \in Requests : req[s].at # "fetching"
    BY <1>2, <1>5 DEF IInv, Current
  <2>2. Ahead' /\ Own' /\ FreshAfterClear'
    BY <1>1, <1>2, <1>5, <2>1 DEF Ahead, Own, FreshAfterClear, Others
  <2>3. \A p \in Promised' : (Reloading(p) /\ Cached(p) /\ Sent(p))'
    <3>1. \A p \in Promised' : p.version <= Now.version
      BY <1>2, <1>4 DEF Past, AtMost
    <3>2. \A p \in Promised' : p.version \in Int
      BY <1>t, <1>1, <1>2, <1>3, Numbers DEF Now
    <3>3. Now.version \in Int
      BY <1>t, Numbers DEF Now
    <3>4. \A p \in Promised' : Reloading(p)'
      BY <1>1, <1>2, <2>1, <3>1, <3>2, <3>3 DEF Reloading, ReloadUnderWay, Others
    <3> QED
      BY <1>1, <1>2, <2>1, <3>4 DEF Cached, Sent, Others
  <2> QED
    BY <2>2, <2>3 DEF Current
<1> QED
  BY <1>4, <1>5 DEF Current

\* The clear is answered: its promise becomes part of the floor, and the queries it found
\* are as recent.
LEMMA ClearedKeeps ==
  ASSUME IInv, Typed', NEW r \in Requests, ClearJoined(r)
  PROVE  Past' /\ Current'
<1>t. Typed /\ TypeOK /\ TypeOK'
  BY DEF IInv, Typed
<1>1. /\ Others(r) /\ req[r].at = "joining" /\ req'[r] = Cleared
      /\ UNCHANGED <<stored, data, cache, entries, chain, disturbed>> /\ Now' = Now
  BY <1>t, ClearJoins DEF ClearJoined, world, Now
<1>2. /\ req[r].due \in Promised /\ floor \in Promised
      /\ Promised' \subseteq Promised \cup {floor'}
  BY <1>1, Overs DEF Promised, Clears, Others
<1>3. \/ queries' = queries /\ floor' = floor
      \/ queries' \in Made(req[r].found) /\ floor' = Both(req[r].due, floor)
  BY <1>t, ClearJoins
<1>4. /\ floor'.version >= floor.version /\ floor'.data >= floor.data
      /\ floor'.version \in {req[r].due.version, floor.version}
      /\ floor'.data \in {req[r].due.data, floor.data}
      /\ floor'.version \in Int /\ floor'.data \in Int
  <2>1. req[r].due \in Point /\ floor \in Point
    BY <1>t, Numbers DEF TypeOK
  <2> QED
    BY <1>t, <1>3, <2>1, BothIs, Numbers
<1>5. \A s \in Requests : req'[s].at \in UnderWay \cup {"fetching", "relevant"} => req'[s] = req[s]
  BY <1>1, Overs DEF Others
<1>6. Past'
  <2>1. AtMost(floor', Now)
    BY <1>2, <1>4 DEF IInv, Past, AtMost
  <2>2. \A p \in Promised' : AtMost(p, Now')
    BY <1>1, <1>2, <2>1 DEF IInv, Past
  <2>3. ASSUME NEW s \in Requests, req'[s].kind = "data" PROVE AtMost(req'[s].due, floor')
    <3>1. req'[s] = req[s] /\ AtMost(req[s].due, floor)
      BY <1>1, <2>3, Overs DEF Others, IInv, Past
    <3> QED
      BY <1>t, <1>4, <3>1, Numbers DEF AtMost
  <2> QED
    BY <2>2, <2>3 DEF Past
<1>7. ASSUME ~disturbed' PROVE Current'
  <2>1. /\ Ahead /\ Own /\ FreshAfterClear
        /\ \A p \in Promised : Reloading(p) /\ Cached(p) /\ Sent(p)
    BY <1>1, <1>7 DEF IInv, Current
  <2>2. Reloading(floor') /\ Cached(floor') /\ Sent(floor')
    BY <1>2, <1>4, <2>1 DEF Reloading, Cached, Sent
  <2>3. Ahead'
    <3>1. CASE queries' = queries /\ floor' = floor
      BY <2>1, <3>1 DEF Ahead
    <3>2. CASE queries' \in Made(req[r].found)
      BY <1>1, <2>2, <3>2 DEF Ahead, Made, Reloading
    <3> QED
      BY <1>3, <3>1, <3>2
  <2>4. Own' /\ FreshAfterClear'
    BY <1>1, <1>5, <1>7, <2>1, Overs DEF Own, FreshAfterClear, Others
  <2>5. \A p \in Promised' : (Reloading(p) /\ Cached(p) /\ Sent(p))'
    BY <1>1, <1>2, <1>5, <2>1, <2>2 DEF Reloading, Cached, Sent
  <2> QED
    BY <2>3, <2>4, <2>5 DEF Current
<1> QED
  BY <1>6, <1>7 DEF Current

LEMMA InitIInv == Init => IInv
<1> SUFFICES ASSUME Init PROVE IInv
  OBVIOUS
<1>1. Typed /\ TypeOK
  BY InitTyped DEF Typed
<1>2. \A r \in Requests : req[r] = Fresh
  BY DEF Init
<1>3. Clears = {} /\ Promised = {NoPoint}
  BY <1>2, Overs DEF Init, Promised, Clears
<1>4. AtMost(NoPoint, Now) /\ AtMost(NoPoint, NoPoint)
  BY DEF Init, AtMost, NoPoint, Now, None
<1>5. Past
  BY <1>2, <1>3, <1>4, Overs DEF Init, Past
<1>6. Ahead /\ Own /\ FreshAfterClear
  BY <1>2, Overs DEF Init, Ahead, Own, FreshAfterClear
<1>7. Reloading(NoPoint) /\ Cached(NoPoint) /\ Sent(NoPoint)
  BY <1>2, Overs DEF Init, Reloading, Cached, Sent
<1> QED
  BY <1>1, <1>3, <1>5, <1>6, <1>7 DEF IInv, Current

\* Every step keeps the invariant.
LEMMA StepIInv == IInv /\ [Next]_vars => IInv'
<1> SUFFICES ASSUME IInv, [Next]_vars PROVE IInv'
  OBVIOUS
<1>0. Typed'
  BY StepTyped DEF IInv
<1>1. CASE TurnsGreen \/ Degrades \/ EditQueries \/ DataChanges \/ UNCHANGED vars
  BY <1>0, <1>1, WorldRoutine, RoutineKeeps DEF IInv
<1>2. ASSUME NEW r \in Requests, NEW kind \in Kinds[r], Ask(r, kind) PROVE IInv'
  BY <1>0, <1>2, AskRoutine, RoutineKeeps DEF IInv
<1>3. ASSUME NEW c \in Chains, Advance(c) PROVE IInv'
  BY <1>0, <1>3, AdvanceRoutine, RoutineKeeps DEF IInv
<1>4. ASSUME NEW r \in Requests, Serve(r) PROVE IInv'
  <2>1. CASE \/ GetQueries(r) \/ Refused(r) \/ ReplacementLost(r) \/ FetchResults(r)
             \/ Fetched(r) \/ ClearSearched(r)
    BY <1>0, <2>1, ServeRoutine, RoutineKeeps DEF IInv
  <2>2. CASE ClearCache(r)
    BY <1>0, <2>2, ClearKeeps DEF IInv
  <2>3. CASE ClearJoined(r)
    BY <1>0, <2>3, ClearedKeeps DEF IInv
  <2> QED
    BY <1>4, <2>1, <2>2, <2>3 DEF Serve
<1> QED
  BY <1>1, <1>2, <1>3, <1>4 DEF Next

\* While no clear met a fetch or a reload under way, a request asked after a clearCache was
\* answered sees queries and data that are not older.
THEOREM FreshHolds == Spec => []FreshAfterClear
<1>1. IInv => FreshAfterClear
  BY DEF IInv, Current, FreshAfterClear
<1> QED
  BY <1>1, InitIInv, StepIInv, PTL DEF Spec

====================================================================================
