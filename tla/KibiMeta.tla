------------------------------ MODULE KibiMeta ------------------------------
(***************************************************************************)
(* The count service of the browser (src/ui/public/kibi/meta/kibi_meta.js).*)
(* Dashboards and relational buttons ask for the number of hits of a       *)
(* query.  A request waits in the queue of its strategy, is sent to        *)
(* Elasticsearch in a batch (one msearch), and its callback is executed    *)
(* with the hit, with an error, or not at all when the answer is judged to *)
(* be outdated.                                                            *)
(*                                                                         *)
(* A request is the number of the call that asked for it, so that a        *)
(* greater number is a later request.  The array this.queues[s] is a set   *)
(* of requests: every use of it begins with a stable sort by index, so the *)
(* only order that matters is (index, time of the push).                   *)
(***************************************************************************)
EXTENDS Integers, FiniteSets

CONSTANTS
    Ids,                \* ids of dashboards and buttons
    Queries,            \* generated queries
    Index,              \* Index[q]: rank of the index names of q in the sort
    DashboardStrategy,  \* this.dashboardStrategyName
    RelFilterStrategy,  \* this.relFilterStrategyName; the default is the same
    BatchSize,          \* strategy.batchSize, by strategy
    ParallelRequests,   \* strategy.parallelRequests, by strategy
    RetryOnError,       \* strategy.retryOnError, by strategy
    EnableCache,        \* enableCache of the constructor
    EsMayFail,          \* whether an msearch may be rejected
    MaxAsked,           \* bound: requests asked in a behaviour
    MaxCall,            \* bound: requests of one call
    MaxFlushes,         \* bound: calls of flushQueues
    MaxThrown           \* bound: calls refused by _checkDefinition

Strategies == {DashboardStrategy, RelFilterStrategy}

\* what strategy_validator.js asks of a strategy
ASSUME StrategyAssumption ==
    /\ BatchSize \in [Strategies -> Nat \ {0}]
    /\ ParallelRequests \in [Strategies -> Nat \ {0}]
    /\ RetryOnError \in [Strategies -> Nat]

ASSUME WorkloadAssumption ==
    /\ Ids # {} /\ Queries # {}
    /\ Index \in [Queries -> Nat]
    /\ EnableCache \in BOOLEAN /\ EsMayFail \in BOOLEAN
    /\ MaxAsked \in Nat /\ MaxCall \in Nat /\ MaxFlushes \in Nat /\ MaxThrown \in Nat

Requests == 1 .. MaxAsked
Definitions == [id : Ids, query : Queries, kind : {"dashboard", "button"}]

\* The strategy an object is queued under.
StrategyOf(def) ==
    IF def.kind = "dashboard" THEN DashboardStrategy ELSE RelFilterStrategy

VARIABLES
    asked,              \* number of requests asked so far
    item,               \* item[r]: the definition of request r
    place,              \* place[r]: where r is, with the array and the time of its last push
    pushes,             \* pushes done so far, on all queues
    generation,         \* number of times flushQueues has replaced the arrays
    retried,            \* o.retried
    sentCounter,        \* o._sentCounter
    sent,               \* counters[id].sent
    called,             \* counters[id].callback
    cache,              \* queries with a hit in the cache
    requestInProgress,  \* strategy._requestInProgress
    batches,            \* msearch requests without an answer yet
    thrown              \* calls that _checkDefinition refused

vars == <<asked, item, place, pushes, generation, retried, sentCounter, sent,
          called, cache, requestInProgress, batches, thrown>>

At == {"unasked", "queued", "sent", "answered", "failed", "outdated", "flushed"}
Executed == {"answered", "failed"}   \* the callback was executed
Settled == Executed \cup {"outdated"}

\* An msearch in flight: its strategy, the array its closure calls queue, its objects.
Batches == [strategy : Strategies, array : 0 .. MaxFlushes, items : SUBSET Requests]

TypeOK ==
    /\ asked \in 0 .. MaxAsked
    /\ item \in [Requests -> Definitions]
    /\ place \in [Requests -> [at : At, array : 0 .. MaxFlushes, stamp : Nat]]
    /\ pushes \in Nat
    /\ generation \in 0 .. MaxFlushes
    /\ retried \in [Requests -> Nat]
    /\ sentCounter \in [Requests -> Nat]
    /\ sent \in [Ids -> Nat]
    /\ called \in [Ids -> Nat]
    /\ cache \in SUBSET Queries
    /\ requestInProgress \in [Strategies -> Nat]
    /\ batches \in SUBSET Batches
    /\ thrown \in 0 .. MaxThrown

Init ==
    /\ asked = 0
    /\ item = [r \in Requests |-> CHOOSE d \in Definitions : TRUE]
    /\ place = [r \in Requests |-> [at |-> "unasked", array |-> 0, stamp |-> 0]]
    /\ pushes = 0
    /\ generation = 0
    /\ retried = [r \in Requests |-> 0]
    /\ sentCounter = [r \in Requests |-> 0]
    /\ sent = [i \in Ids |-> 0]
    /\ called = [i \in Ids |-> 0]
    /\ cache = {}
    /\ requestInProgress = [s \in Strategies |-> 0]
    /\ batches = {}
    /\ thrown = 0

-----------------------------------------------------------------------------
\* The content of an array of strategy s, under definitions it and places p.
Queue(it, p, s, array) ==
    {r \in Requests : p[r].at = "queued" /\ p[r].array = array /\ StrategyOf(it[r]) = s}

\* The order of a queue once it is sorted by index.
Before(it, p, a, b) ==
    \/ Index[it[a].query] < Index[it[b].query]
    \/ /\ Index[it[a].query] = Index[it[b].query]
       /\ p[a].stamp < p[b].stamp

Rank(it, p, q, r) == Cardinality({a \in q : Before(it, p, a, r)})

\* The batch of q that r belongs to when q is cut every BatchSize objects.
Chunk(it, p, s, q, r) == Rank(it, p, q, r) \div BatchSize[s]

\* What _processSingleQueue shifts from the queue: batches of cached objects up
\* to, and including, the first batch with an object that is not in the cache.
Taken(it, p, s, q, hits) ==
    {r \in q : \A u \in q : it[u].query \notin hits
                               => Chunk(it, p, s, q, r) <= Chunk(it, p, s, q, u)}

\* Another msearch may start.  The mutant is off by one.
MayStartOffByOne(s, progress) == progress <= ParallelRequests[s]
MayStart(s, progress) == progress < ParallelRequests[s]

\* _processSingleQueue(s), called if "call", after the caller has moved objects to
\* p, settled batches down to inFlight and the counter down to progress.  It reads
\* the array that this.queues holds now, and the cache and definitions of the
\* caller's step.
ProcessSingleQueue(call, s, p, progress, inFlight) ==
    LET q         == Queue(item', p, s, generation)
        ready     == IF call /\ MayStart(s, progress)
                     THEN Taken(item', p, s, q, cache') ELSE {}
        toProcess == {r \in ready : item'[r].query \notin cache'}
        sameId(r) == {a \in toProcess : item'[a].id = item'[r].id /\ ~Before(item', p, r, a)}
    IN /\ place' = [r \in Requests |->
              IF r \in toProcess THEN [p[r] EXCEPT !.at = "sent"]
              ELSE IF r \in ready THEN [p[r] EXCEPT !.at = "answered"]
              ELSE p[r]]
       /\ sentCounter' = [r \in Requests |->
              IF r \in toProcess THEN sent[item'[r].id] + Cardinality(sameId(r))
              ELSE sentCounter[r]]
       /\ sent' = [i \in Ids |-> sent[i] + Cardinality({r \in toProcess : item'[r].id = i})]
       /\ requestInProgress' = [requestInProgress EXCEPT
              ![s] = IF toProcess = {} THEN progress ELSE progress + 1]
       /\ batches' = IF toProcess = {} THEN inFlight
                     ELSE inFlight \cup {[strategy |-> s, array |-> generation,
                                          items |-> toProcess]}

-----------------------------------------------------------------------------
Calls(n) == [1 .. n -> [id : Ids, query : Queries]]

\* _addToQueue for each of defs, under the strategy of kind.
AddToQueue(kind, n, defs) ==
    /\ asked + n <= MaxAsked
    /\ asked' = asked + n
    /\ pushes' = pushes + n
    /\ item' = [r \in Requests |->
          IF r \in asked + 1 .. asked + n
          THEN [id |-> defs[r - asked].id, query |-> defs[r - asked].query, kind |-> kind]
          ELSE item[r]]

Pushed(n) == [r \in Requests |->
    IF r \in asked + 1 .. asked + n
    THEN [at |-> "queued", array |-> generation, stamp |-> pushes + r - asked]
    ELSE place[r]]

GetMeta(kind, s) ==
    \E n \in 0 .. MaxCall : \E defs \in Calls(n) :
        /\ AddToQueue(kind, n, defs)
        /\ UNCHANGED <<generation, retried, called, cache, thrown>>
        /\ ProcessSingleQueue(TRUE, s, Pushed(n), requestInProgress[s], batches)

GetMetaForDashboards == GetMeta("dashboard", DashboardStrategy)
GetMetaForRelationalButtons == GetMeta("button", RelFilterStrategy)

\* A call whose definition n + 1 has no id or no query: _checkDefinition throws, the
\* n definitions before it stay in the queue and nobody looks at the queue.
GetMetaThrows(kind) ==
    /\ thrown < MaxThrown
    /\ thrown' = thrown + 1
    /\ \E n \in 0 .. MaxCall : \E defs \in Calls(n) :
          /\ AddToQueue(kind, n, defs)
          /\ place' = Pushed(n)
    /\ UNCHANGED <<generation, retried, sentCounter, sent, called, cache,
                   requestInProgress, batches>>

\* The place among the answers of b's id at which the answer to r is counted.
CallbackCounter(b, r) ==
    called[item[r].id]
      + Cardinality({a \in b.items : item[a].id = item[r].id /\ sentCounter[a] <= sentCounter[r]})

\* The stale check of an answer to r.  The mutants drop it and are off by one.
OutdatedOffByOne(b, r) == sentCounter[r] <= CallbackCounter(b, r)
Outdated(b, r) == sentCounter[r] < CallbackCounter(b, r)

\* requestInProgress once b is settled.  The mutant runs the rejection handler, and its
\* decrement, after the success handler.
DecrementTwice(b) == requestInProgress[b.strategy] - 2
Decrement(b) == requestInProgress[b.strategy] - 1

\* Whether the array of b's closure, after its objects moved to p, holds something to
\* process.  The mutant forgets to look.
WokenNever(b, p) == FALSE
Woken(b, p) == Queue(item, p, b.strategy, b.array) # {}

\* msearch answers b: some of the responses are errors, the others go to the cache.
\* An answer older than the number of callbacks of its id is not delivered.
Responded(b, errors) ==
    LET p == [r \in Requests |->
                 IF r \notin b.items THEN place[r]
                 ELSE IF Outdated(b, r) THEN [place[r] EXCEPT !.at = "outdated"]
                 ELSE [place[r] EXCEPT !.at = "answered"]]
    IN /\ cache' = IF EnableCache THEN cache \cup {item[r].query : r \in b.items \ errors} ELSE {}
       /\ called' = [i \in Ids |-> called[i] + Cardinality({r \in b.items : item[r].id = i})]
       /\ UNCHANGED <<asked, item, pushes, generation, retried, thrown>>
       /\ ProcessSingleQueue(Woken(b, p), b.strategy, p, Decrement(b), batches \ {b})

Respond(b) == \E errors \in SUBSET b.items : Responded(b, errors)

\* The objects of a rejected b that have a retry left.  The mutant is off by one.
AgainOffByOne(b) == {r \in b.items : retried[r] + 1 < RetryOnError[b.strategy]}
Again(b) == {r \in b.items : retried[r] + 1 <= RetryOnError[b.strategy]}

\* msearch is rejected: an object goes back to the array of the closure, which is no
\* longer this.queues[s] after a flush, or reports the error when it has no retry left.
Fail(b) ==
    LET again  == Again(b)
        nth(r) == Rank(item, place, again, r) + 1
        p == [r \in Requests |->
                 IF r \in again
                 THEN [at |-> "queued", array |-> b.array, stamp |-> pushes + nth(r)]
                 ELSE IF r \in b.items THEN [place[r] EXCEPT !.at = "failed"]
                 ELSE place[r]]
    IN /\ EsMayFail
       /\ retried' = [r \in Requests |-> IF r \in b.items THEN retried[r] + 1 ELSE retried[r]]
       /\ pushes' = pushes + Cardinality(again)
       /\ UNCHANGED <<asked, item, generation, called, cache, thrown>>
       /\ ProcessSingleQueue(Woken(b, p), b.strategy, p, Decrement(b), batches \ {b})

\* Leaving the dashboard application: every array is replaced by a new one.
FlushQueues ==
    /\ generation < MaxFlushes
    /\ generation' = generation + 1
    /\ UNCHANGED <<asked, item, place, pushes, retried, sentCounter, sent, called, cache,
                   requestInProgress, batches, thrown>>

\* The buttons in the arrays of this.queues.  The mutant takes every button that was
\* asked for, wherever it is.
ButtonsAnywhere == {r \in 1 .. asked : item[r].kind = "button"}
ButtonsInQueue ==
    {r \in Requests : /\ place[r].at = "queued" /\ place[r].array = generation
                      /\ item[r].kind = "button"}

\* Destroying a visualisation of buttons: its objects leave the arrays in place.
FlushRelationalButtonsFromQueue ==
    LET gone == ButtonsInQueue
    IN /\ gone # {}
       /\ place' = [r \in Requests |->
             IF r \in gone THEN [place[r] EXCEPT !.at = "flushed"] ELSE place[r]]
       /\ UNCHANGED <<asked, item, pushes, generation, retried, sentCounter, sent, called,
                      cache, requestInProgress, batches, thrown>>

\* A hit leaves the cache by age (maxAge), by size (max) or by flushCache.
Expire ==
    /\ \E gone \in SUBSET cache \ {{}} : cache' = cache \ gone
    /\ UNCHANGED <<asked, item, place, pushes, generation, retried, sentCounter, sent, called,
                   requestInProgress, batches, thrown>>

Settle == \E b \in batches : Respond(b) \/ Fail(b)

Next ==
    \/ GetMetaForDashboards
    \/ GetMetaForRelationalButtons
    \/ \E kind \in {"dashboard", "button"} : GetMetaThrows(kind)
    \/ \E b \in batches : Respond(b)
    \/ \E b \in batches : Fail(b)
    \/ FlushQueues
    \/ FlushRelationalButtonsFromQueue
    \/ Expire

Spec == Init /\ [][Next]_vars

\* Elasticsearch, or the timeout of the client, settles every msearch in the end.
\* Nothing obliges a caller to ask or to flush, or the cache to expire.
FairSpec == Spec /\ WF_vars(Settle)

-----------------------------------------------------------------------------
(***************************************************************************)
(* Properties.                                                             *)
(***************************************************************************)

\* The counter that _processSingleQueue trusts is the number of msearch requests in
\* flight, whatever was flushed, retried or answered from the cache meanwhile, and it
\* stays within the parallelRequests of the strategy.
InProgressCounted == \A s \in Strategies :
    /\ requestInProgress[s] = Cardinality({b \in batches : b.strategy = s})
    /\ requestInProgress[s] <= ParallelRequests[s]

\* No lost wake-up: an object waits in a queue only while an msearch of its strategy is
\* in flight, whose answer will look at the queue.  This is what the comment in
\* _processSingleQueue relies on; it needs that no flushQueues has replaced the arrays
\* under the closures and that no call was refused half-way.
QueueAwake == generation = 0 /\ thrown = 0 =>
    \A s \in Strategies : Queue(item, place, s, generation) # {} => requestInProgress[s] > 0

\* An answer is discarded as outdated only if an answer of an object of the same id that
\* was sent later has been delivered: the counters never discard the last one sent.
OutdatedOnlyForLaterSent == \A r \in Requests : place[r].at = "outdated" =>
    \E a \in Requests : /\ item[a].id = item[r].id
                        /\ place[a].at = "answered"
                        /\ sentCounter[a] > sentCounter[r]

\* An error of msearch reaches the caller only when the retries are used up, and an
\* object that is waiting or in flight has a retry left.
FailedAfterRetries == \A r \in Requests :
    LET max == RetryOnError[StrategyOf(item[r])]
    IN /\ place[r].at = "failed" => retried[r] = max + 1
       /\ place[r].at \in {"queued", "sent"} => retried[r] <= max

\* A callback of an object is not executed while the callback of an object asked later
\* for the same id was already executed: the comment on the counters (lines 44-47).
NoStaleCallback ==
    [][\A r, later \in Requests :
          (/\ r < later
           /\ item[r].id = item[later].id
           /\ place[later].at \in Executed
           /\ place[r].at \notin Executed) => place'[r].at \notin Executed]_vars

\* A waiting object is answered, refused or discarded in the end, unless somebody flushed.
EventuallySettled == \A r \in Requests :
    place[r].at \in {"queued", "sent"} ~>
        place[r].at \in Settled \cup {"flushed"} \/ generation > 0 \/ thrown > 0

\* What the service promises its callers, and that it keeps the promise: an object that
\* is queued or in flight is waiting, a flush of buttons abandons it.
Promise == INSTANCE MetaPromise WITH
    waiting   <- {r \in Requests : place[r].at \in {"queued", "sent"}},
    settled   <- {r \in Requests : place[r].at \in Settled},
    abandoned <- {r \in Requests : place[r].at = "flushed"}
PromiseKept == Promise!Spec
=============================================================================
