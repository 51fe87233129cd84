-------------------------------- MODULE QueryEngine --------------------------------
(* The query engine of the backend (src/kibi_plugins/query_engine): the queries that   *)
(* are stored in the index and kept in memory, the cache of their results, and the     *)
(* requests of browsers, each of which initialises the engine while it is not.          *)
EXTENDS Integers, FiniteSets

CONSTANTS
  MaxRequests,   \* bound: requests; number 0 is the init of the plugin
  Kinds,         \* by request, what it may ask for
  MaxInits,      \* bound: requests that find the engine not initialised
  MaxPending,    \* bound: requests under way at a time
  MaxGreens,     \* bound: times the status of Elasticsearch turns green
  MaxEdits,      \* bound: edits of the stored queries
  MaxData        \* bound: changes of the data behind the datasource

Requests == 0..MaxRequests
Versions == 0..MaxEdits
None == -1

ASSUME EngineAssumption ==
  /\ {MaxRequests, MaxInits, MaxPending, MaxGreens, MaxEdits, MaxData} \subseteq Nat
  /\ Kinds \in [Requests -> SUBSET {"init", "data", "clear"}] /\ Kinds[0] = {"init"}
  /\ \A r \in Requests : r # 0 => "init" \notin Kinds[r]

Chains == Requests \X (0..MaxGreens)

VARIABLES
  green,        \* the state of the status of Elasticsearch is green
  stored,       \* version of the queries in the index, as searches see it
  data,         \* version of the data behind the datasource
  initialized,  \* of the engine
  cache,        \* of the engine: the request whose _init made this.cache, None at first
  entries,      \* by cache and version of the query: the data that it holds or None
  queries,      \* of the engine: version and cache of the queries in memory
  chain,        \* calls of _onStatusGreen, by request and by the green that fired it
  listening,    \* requests whose _init listens to the status, for ever
  req,          \* the requests
  greens,       \* not in the code: how often the status turned green
  floor,        \* not in the code: what the last clearCache that was answered promises
  disturbed     \* not in the code: a clear met a fetch or another reload under way

(* Of a reload under way, in a chain or in a clear, found is the version its first search *)
(* returned, and until that has returned the version that was stored when it was sent.    *)

world == <<green, stored, data, greens>>
engine == <<initialized, cache, entries, queries>>
vars == <<world, engine, chain, listening, req, floor, disturbed>>

Memory == [version : Versions \cup {None}, cache : Requests \cup {None}]
NoQueries == [version |-> None, cache |-> None]
Point == [version : Versions \cup {None}, data : 0..MaxData]
Places == {"idle", "init", "ready", "relevant", "fetching", "searching", "joining",
           "answered", "failed", "hung"}
KindsOf == {"init", "data", "clear"}
Request == [at : Places, kind : KindsOf, query : Memory,
            sent : 0..MaxData, found : Versions \cup {None}, due : Point, answer : Point]
Pending == {"init", "ready", "relevant", "fetching", "searching", "joining"}
NoPoint == [version |-> None, data |-> 0]
Fresh == [at |-> "idle", kind |-> "data", query |-> NoQueries, sent |-> 0,
          found |-> None, due |-> NoPoint, answer |-> NoPoint]
Reload == [at : {"none", "loading", "searching", "joining", "over", "lost"},
           found : Versions \cup {None}]
Over == [at |-> "over", found |-> None]
Lost == [at |-> "lost", found |-> None]

\* A request that is over: what is left of it for the properties.
Failed == [Fresh EXCEPT !.at = "failed"]
Cleared == [Fresh EXCEPT !.at = "answered", !.kind = "clear"]
Answered(due, version, d) ==
  [Fresh EXCEPT !.at = "answered", !.due = due, !.answer = [version |-> version, data |-> d]]

TypeOK ==
  /\ green \in BOOLEAN /\ initialized \in BOOLEAN
  /\ stored \in Versions /\ data \in 0..MaxData /\ greens \in 0..MaxGreens
  /\ cache \in Requests \cup {None}
  /\ entries \in [Requests -> [Versions -> (0..MaxData) \cup {None}]]
  /\ queries \in Memory
  /\ chain \in [Chains -> Reload]
  /\ listening \subseteq Requests
  /\ req \in [Requests -> Request]
  /\ floor \in Point
  /\ disturbed \in BOOLEAN

Init ==
  /\ green = FALSE
  /\ stored = 0 /\ data = 0 /\ greens = 0
  /\ initialized = FALSE /\ cache = None /\ queries = NoQueries
  /\ entries = [r \in Requests |-> [v \in Versions |-> None]]
  /\ chain = [c \in Chains |-> [at |-> "none", found |-> None]]
  /\ listening = {}
  /\ req = [r \in Requests |-> Fresh]
  /\ floor = NoPoint
  /\ disturbed = FALSE

-------------------------------------------------------------------------------------
\* The world around the engine.

\* Fault: the listeners are not told.
TurnsGreenUnheard ==
  /\ ~green /\ greens < MaxGreens /\ green' = TRUE /\ greens' = greens + 1
  /\ UNCHANGED <<stored, data, engine, chain, listening, req, floor, disturbed>>

\* A change of the status of Elasticsearch. On green each listener calls _onStatusGreen,
\* those of requests that were answered long ago as well.
TurnsGreen ==
  /\ ~green /\ greens < MaxGreens /\ green' = TRUE /\ greens' = greens + 1
  /\ chain' = [c \in Chains |->
                 IF c[1] \in listening /\ c[2] = greens'
                 THEN [at |-> "loading", found |-> None] ELSE chain[c]]
  /\ UNCHANGED <<stored, data, engine, listening, req, floor, disturbed>>

Degrades ==
  /\ green /\ green' = FALSE
  /\ UNCHANGED <<stored, data, greens, engine, chain, listening, req, floor, disturbed>>

EditQueries ==
  /\ stored < MaxEdits /\ stored' = stored + 1
  /\ UNCHANGED <<green, data, greens, engine, chain, listening, req, floor, disturbed>>

DataChanges ==
  /\ data < MaxData /\ data' = data + 1
  /\ UNCHANGED <<green, stored, greens, engine, chain, listening, req, floor, disturbed>>

-------------------------------------------------------------------------------------
\* Fault: _init makes a new cache although the engine is initialised.
AskAnew(r, kind) ==
  /\ req[r].at = "idle" /\ \A s \in 0..(r - 1) : req[s].at # "idle"
  /\ initialized \/ r < MaxInits
  /\ Cardinality({s \in Requests : req[s].at \in Pending}) < MaxPending
  /\ req' = [req EXCEPT ![r] = [Fresh EXCEPT !.at = IF initialized THEN "ready" ELSE "init",
                                             !.kind = kind, !.due = floor]]
  /\ cache' = r
  /\ chain' = IF ~initialized /\ green
              THEN [chain EXCEPT ![<<r, 0>>].at = "loading"] ELSE chain
  /\ listening' = IF ~initialized /\ ~green THEN listening \cup {r} ELSE listening
  /\ UNCHANGED <<world, initialized, entries, queries, floor, disturbed>>

\* A request calls _init: nothing to do when the engine is initialised; else this.cache is
\* replaced and _onStatusGreen is called, now or at the changes of the status.
Ask(r, kind) ==
  /\ req[r].at = "idle" /\ \A s \in 0..(r - 1) : req[s].at # "idle"
  /\ initialized \/ r < MaxInits
  /\ Cardinality({s \in Requests : req[s].at \in Pending}) < MaxPending
  /\ req' = [req EXCEPT ![r] = [Fresh EXCEPT !.at = IF initialized THEN "ready" ELSE "init",
                                             !.kind = kind, !.due = floor]]
  /\ cache' = IF initialized THEN cache ELSE r
  /\ chain' = IF ~initialized /\ green
              THEN [chain EXCEPT ![<<r, 0>>].at = "loading"] ELSE chain
  /\ listening' = IF ~initialized /\ ~green THEN listening \cup {r} ELSE listening
  /\ UNCHANGED <<world, initialized, entries, queries, floor, disturbed>>

\* loadPredefinedData, which retries until it finds the index, and setupJDBC; then the
\* search of reloadQueries is sent.
Load(c) ==
  /\ chain[c].at = "loading"
  /\ chain' = [chain EXCEPT ![c].at = "searching", ![c].found = stored]
  /\ UNCHANGED <<world, engine, listening, req, floor, disturbed>>

\* The promise of the _init that chain c belongs to, settled once.
Fulfil(c) ==
  IF req[c[1]].at # "init" THEN req
  ELSE [req EXCEPT ![c[1]].at = IF req[c[1]].kind = "init" THEN "answered" ELSE "ready"]
Reject(c) == IF req[c[1]].at = "init" THEN [req EXCEPT ![c[1]] = Failed] ELSE req

\* The mapping of the templates is refused: the promise of _init is rejected.
LoadRejected(c) ==
  /\ chain[c].at = "loading"
  /\ chain' = [chain EXCEPT ![c] = Over]
  /\ req' = Reject(c)
  /\ UNCHANGED <<world, engine, listening, floor, disturbed>>

\* A later call is refused: the promises in between are not returned, and that of _init
\* is never settled.
LoadLost(c) ==
  /\ chain[c].at = "loading"
  /\ chain' = [chain EXCEPT ![c] = Lost]
  /\ UNCHANGED <<world, engine, listening, req, floor, disturbed>>

\* The search of reloadQueries finds the queries of some time since it was sent, however
\* old when the answer arrives; or it finds none or fails, which is only logged. Afterwards
\* the datasources are searched.
Searched(c) ==
  /\ chain[c].at = "searching"
  /\ \/ /\ \E v \in chain[c].found..stored :
             chain' = [chain EXCEPT ![c].at = "joining", ![c].found = v]
        /\ UNCHANGED <<initialized, req>>
     \/ /\ chain' = [chain EXCEPT ![c] = Over]
        /\ initialized' = TRUE /\ req' = Fulfil(c)
  /\ UNCHANGED <<world, cache, entries, queries, listening, floor, disturbed>>

\* The datasources are found: the queries that have one are made with this.cache. Or the
\* search fails.
Made(found) == {NoQueries, [version |-> found, cache |-> cache]}

Joined(c) ==
  /\ chain[c].at = "joining"
  /\ queries' \in {queries} \cup Made(chain[c].found)
  /\ chain' = [chain EXCEPT ![c] = Over]
  /\ initialized' = TRUE /\ req' = Fulfil(c)
  /\ UNCHANGED <<world, cache, entries, listening, floor, disturbed>>

-------------------------------------------------------------------------------------
\* Requests for data, ids or HTML. _getQueries takes the queries in memory, unless there
\* are none or the one that is asked for is not among them.
GetQueries(r) ==
  /\ req[r].at = "ready" /\ req[r].kind = "data"
  /\ \/ req' = [req EXCEPT ![r] = Failed]
     \/ /\ queries # NoQueries
        /\ req' = [req EXCEPT ![r].at = "relevant", ![r].query = queries]
  /\ UNCHANGED <<world, engine, chain, listening, floor, disturbed>>

\* The query is refused, by the check of its relevance or of its definition.
Refused(r) ==
  /\ req[r].at = "relevant"
  /\ req' = [req EXCEPT ![r] = Failed]
  /\ UNCHANGED <<world, engine, chain, listening, floor, disturbed>>

\* The document that the variables of a query name is not there or cannot be fetched, or
\* the handler of the replacement throws: nobody catches it, and the promise of
\* fetchResults is never settled.
ReplacementLost(r) ==
  /\ req[r].at = "relevant"
  /\ req' = [req EXCEPT ![r] = [Fresh EXCEPT !.at = "hung"]]
  /\ UNCHANGED <<world, engine, chain, listening, floor, disturbed>>

\* Fault: what the cache returns is not looked at.
FetchResultsBlindly(r) ==
  LET q == req[r].query
      hit == entries[q.cache][q.version]
  IN  /\ req[r].at = "relevant"
      /\ \/ req' = [req EXCEPT ![r] = Answered(@.due, q.version, hit)]
         \/ req' = [req EXCEPT ![r].at = "fetching", ![r].sent = data]
      /\ UNCHANGED <<world, engine, chain, listening, floor, disturbed>>

\* fetchResults, its variables replaced: a hit in the cache, or, when there is none or it is
\* gone by its age or by the size of the cache, a call to the datasource.
FetchResults(r) ==
  LET q == req[r].query
      hit == entries[q.cache][q.version]
  IN  /\ req[r].at = "relevant"
      /\ \/ /\ hit # None
            /\ req' = [req EXCEPT ![r] = Answered(@.due, q.version, hit)]
         \/ req' = [req EXCEPT ![r].at = "fetching", ![r].sent = data]
      /\ UNCHANGED <<world, engine, chain, listening, floor, disturbed>>

\* The datasource answers with what it held at some time since; the cache is written now.
Fetched(r) ==
  LET q == req[r].query
  IN  /\ req[r].at = "fetching"
      /\ \/ \E d \in req[r].sent..data :
              /\ entries' = [entries EXCEPT ![q.cache][q.version] = d]
              /\ req' = [req EXCEPT ![r] = Answered(@.due, q.version, d)]
         \/ /\ req' = [req EXCEPT ![r] = Failed]
            /\ UNCHANGED entries
      /\ UNCHANGED <<world, initialized, cache, queries, chain, listening, floor, disturbed>>

-------------------------------------------------------------------------------------
\* clearCache: resets this.cache, then reloads the queries.
UnderWay == {"searching", "joining"}
ReloadUnderWay == \/ \E c \in Chains : chain[c].at \in UnderWay
                  \/ \E r \in Requests : req[r].at \in UnderWay

\* Fault: the cache is not reset.
ClearCacheReloads(r) ==
  /\ req[r].at = "ready" /\ req[r].kind = "clear"
  /\ req' = [req EXCEPT ![r].at = "searching", ![r].found = stored,
                        ![r].due = [version |-> stored, data |-> data]]
  /\ disturbed' = (disturbed \/ ReloadUnderWay \/ \E s \in Requests : req[s].at = "fetching")
  /\ UNCHANGED <<world, engine, chain, listening, floor>>

ClearCache(r) ==
  /\ req[r].at = "ready" /\ req[r].kind = "clear"
  /\ entries' = [entries EXCEPT ![cache] = [v \in Versions |-> None]]
  /\ req' = [req EXCEPT ![r].at = "searching", ![r].found = stored,
                        ![r].due = [version |-> stored, data |-> data]]
  /\ disturbed' = (disturbed \/ ReloadUnderWay \/ \E s \in Requests : req[s].at = "fetching")
  /\ UNCHANGED <<world, initialized, cache, queries, chain, listening, floor>>

\* As Searched. When it finds nothing or fails the answer says "Queries reloaded" all the
\* same.
ClearSearched(r) ==
  /\ req[r].at = "searching"
  /\ \/ \E v \in req[r].found..stored :
          req' = [req EXCEPT ![r].at = "joining", ![r].found = v]
     \/ req' = [req EXCEPT ![r] = Cleared]
  /\ UNCHANGED <<world, engine, chain, listening, floor, disturbed>>

Larger(m, n) == IF m >= n THEN m ELSE n
Both(p, q) == [version |-> Larger(p.version, q.version), data |-> Larger(p.data, q.data)]

ClearJoined(r) ==
  /\ req[r].at = "joining"
  /\ req' = [req EXCEPT ![r] = Cleared]
  /\ \/ /\ queries' \in Made(req[r].found)
        /\ floor' = Both(req[r].due, floor)
     \/ UNCHANGED <<queries, floor>>
  /\ UNCHANGED <<world, initialized, cache, entries, chain, listening, disturbed>>

-------------------------------------------------------------------------------------
Advance(c) == Load(c) \/ LoadRejected(c) \/ LoadLost(c) \/ Searched(c) \/ Joined(c)
Serve(r) ==
  \/ GetQueries(r) \/ Refused(r) \/ ReplacementLost(r) \/ FetchResults(r) \/ Fetched(r)
  \/ ClearCache(r) \/ ClearSearched(r) \/ ClearJoined(r)

Next ==
  \/ TurnsGreen \/ Degrades \/ EditQueries \/ DataChanges
  \/ \E r \in Requests : \E kind \in Kinds[r] : Ask(r, kind)
  \/ \E c \in Chains : Advance(c)
  \/ \E r \in Requests : Serve(r)

Spec == Init /\ [][Next]_vars

\* Elasticsearch and the datasource answer, or their clients time out.
\* The steps are finitely many, so it is enough that one of those that are due is taken.
FairSpec == Spec /\ WF_vars((\E c \in Chains : Advance(c)) \/ (\E r \in Requests : Serve(r)))

-------------------------------------------------------------------------------------
\* The queries in memory write to the cache that clearCache resets, although every _init
\* before the first one is over replaces it (query_engine.js:57).
OneCache == initialized /\ queries # NoQueries => queries.cache = cache

\* A request asked after a clearCache that reloaded the queries was answered is answered
\* with queries and data not older than those of that clear, unless a clear met a fetch or
\* a reload under way, whose results may come after its own (query_engine.js:533, 579).
FreshAfterClear == ~disturbed =>
  \A r \in Requests :
    req[r].kind = "data" /\ req[r].at = "answered" =>
      /\ req[r].answer.version >= req[r].due.version
      /\ req[r].answer.data >= req[r].due.data

\* A request is answered or rejected in the end once Elasticsearch is green or its _init
\* went on, unless its initialisation lost the promise (query_engine.js:107) or the
\* replacement of its variables did (rest_query.js:112).
Due(r) == req[r].at \in Pending /\ (green \/ req[r].at # "init")
Settled(r) == req[r].at \in {"answered", "failed"}
Hangs(r) == \/ req[r].at = "hung"
            \/ req[r].at = "init" /\ \E c \in Chains : c[1] = r /\ chain[c].at = "lost"
RequestSettled == \A r \in Requests : Due(r) ~> (Settled(r) \/ Hangs(r))
====================================================================================
