------------------------------ MODULE Courier ------------------------------
(***************************************************************************)
(* The search requests of the courier (src/ui/public/courier).  A source   *)
(* puts requests in the request queue; each holds the promise of a         *)
(* consumer.  A fetch marks requests, a debounced timer starts the marked  *)
(* ones as a batch, the batch collects the parameters of its requests,     *)
(* sends one msearch, and hands the responses out.  A failed request is    *)
(* aborted and replaced by a clone that holds the same promise.            *)
(*                                                                         *)
(* A request is its number: the queue lists the requests that have not     *)
(* stopped, and request.js pushes and pulls them so that they are in the   *)
(* order of their numbers.  A promise is named by the request it was made  *)
(* for.                                                                    *)
(***************************************************************************)
EXTENDS Integers, Sequences, FiniteSets

CONSTANTS
    Sources,      \* search sources
    Destroyed,    \* sources whose owner may cancel or destroy them
    Multichart,   \* sources with source.vis.$$sirenMultichart
    Rejecting,    \* sources that are fetched with fetchAsRejectablePromise
    Faults,       \* what may go wrong: a subset of AllFaults
    NaN,          \* activeFetchCount when it is not a number: undefined or NaN
    Consumers,    \* bound: live requests of a source when a consumer asks for one
    MaxRequests   \* bound: requests made in a behaviour

\* A request's parameters, one response of an msearch, the whole msearch, an error
\* elsewhere in the application.
AllFaults == {"params", "response", "msearch", "elsewhere"}

ASSUME CourierAssumption ==
    /\ Sources # {} /\ IsFiniteSet(Sources)
    /\ Destroyed \subseteq Sources /\ Multichart \subseteq Sources /\ Rejecting \subseteq Sources
    /\ Faults \subseteq AllFaults
    /\ NaN \notin Int
    /\ Consumers \in Nat /\ MaxRequests \in Nat

VARIABLES
    req,               \* every request made, by number
    promise,           \* promise[d]: state of the promise made with request d
    activeFetchCount,  \* source.activeFetchCount
    debounced,         \* the timer of debouncedFetchThese is set
    batches,           \* fetches under way
    singleCall,        \* sources with source.vis.$$sirenSingleCall
    fatal,             \* notify.fatal was called
    closed             \* courier.close has run

vars == <<req, promise, activeFetchCount, debounced, batches, singleCall, fatal, closed>>

Requests == 1 .. MaxRequests

Request == [source : Sources,
            defer : Requests,      \* the promise it holds, until it is aborted
            requested : BOOLEAN,   \* _fetchRequested
            started : BOOLEAN, stopped : BOOLEAN, aborted : BOOLEAN]

\* "dropped": every request that held the promise was aborted, so nothing will settle
\* it.  "bogus": resolved with the ABORTED marker in the place of a response.
Promised == {"pending", "resolved", "bogus", "rejected", "dropped"}

\* fetchWithStrategy: requests started, parameters asked for, msearch sent.
Batches == [reqs : SUBSET Requests, phase : {"started", "params", "msearch"}]

TypeOK ==
    /\ req \in Seq(Request) /\ Len(req) <= MaxRequests
    /\ DOMAIN promise = {r \in DOMAIN req : req[r].defer = r}
    /\ \A d \in DOMAIN promise : promise[d] \in Promised
    /\ activeFetchCount \in [Sources -> Int \cup {NaN}]
    /\ batches \in SUBSET Batches
    /\ singleCall \subseteq Sources
    /\ debounced \in BOOLEAN /\ fatal \in BOOLEAN /\ closed \in BOOLEAN

Init ==
    /\ req = <<>>
    /\ promise = <<>>
    /\ activeFetchCount = [s \in Sources |-> NaN]
    /\ debounced = FALSE
    /\ batches = {}
    /\ singleCall = {}
    /\ fatal = FALSE
    /\ closed = FALSE

-----------------------------------------------------------------------------
First(R) == CHOOSE r \in R : \A q \in R : r <= q
Last(R) == CHOOSE r \in R : \A q \in R : q <= r

Stopped == {r \in DOMAIN req : req[r].stopped}
Aborted == {r \in DOMAIN req : req[r].aborted}
Queue == DOMAIN req \ Stopped
Of(s) == {r \in DOMAIN req : req[r].source = s}

\* queue.getStartable, of requests R of the queue; canStart also looks at
\* source._fetchDisabled, which is left out.
Startable(R) == {r \in R : ~req[r].requested /\ ~req[r].stopped}

\* The constructor.  The mutant does not make the promise that it was not given.
NewRequestBare(s, d) ==
    [source |-> s, defer |-> IF d = Len(req) + 1 THEN 0 ELSE d, requested |-> FALSE,
     started |-> FALSE, stopped |-> FALSE, aborted |-> FALSE]
NewRequest(s, d) ==
    [source |-> s, defer |-> d, requested |-> FALSE,
     started |-> FALSE, stopped |-> FALSE, aborted |-> FALSE]

\* The requests of R in the order of the queue.
InOrder(R) == [i \in 1 .. Cardinality(R) |->
                 CHOOSE r \in R : Cardinality({q \in R : q < r}) = i - 1]

\* The clones that retry() makes of R, numbered from n + 1, when A is aborted.  The
\* defer of an aborted request is null: its clone makes one.  The mutant does not pass
\* the defer on.
ClonesAlone(R, A, n) ==
    [i \in 1 .. Cardinality(R) |-> NewRequest(req[InOrder(R)[i]].source, n + i)]
Clones(R, A, n) ==
    [i \in 1 .. Cardinality(R) |->
       LET r == InOrder(R)[i]
       IN  NewRequest(req[r].source, IF r \in A THEN n + i ELSE req[r].defer)]

\* _markStopped decrements the count of the source, started or not.
CountWithout(R) ==
    [s \in Sources |-> IF activeFetchCount[s] = NaN THEN NaN
                       ELSE activeFetchCount[s] - Cardinality(Of(s) \cap (R \ Stopped))]

\* mergeDuplicateRequests, for requests without a response: the first request of a
\* source is fetched, any later one leaves a hole in the list of statuses.
Fetched(b) == {r \in b.reqs : \A q \in b.reqs : req[q].source = req[r].source => r <= q}
Holes(b) == b.reqs \ Fetched(b)

\* Without R, the batch has no live request left: it responds.
Given(b, R) == b.phase # "started" /\ Fetched(b) \subseteq Aborted \cup R

\* The holes of a batch have the ABORTED marker as their response, and complete with
\* it when the batch responds.
Orphans(B, R) == UNION {Holes(b) \ (Stopped \cup R) : b \in {c \in B : Given(c, R)}}

\* Requests R are aborted, for good if "dropped", or because they failed; requests Done
\* complete with a response; Marked are sent to the fetch module; of the batches, those
\* of B stay under way until they respond; the requests of New are made.
Step(R, dropped, Done, Marked, B, New) ==
    LET bogus == Orphans(B, R \cup Done)
        stop  == R \cup Done \cup bogus
        Holder(Q, d) == \E r \in Q : req[r].defer = d
        State(d) ==
            IF Holder(Done, d) THEN "resolved"
            ELSE IF Holder(bogus, d) THEN "bogus"
            ELSE IF dropped /\ Holder(R, d) THEN "dropped"
            ELSE IF Holder({r \in R : req[r].source \in Rejecting}, d) THEN "rejected"
            ELSE promise[d]
    IN  /\ Len(req) + Len(New) <= MaxRequests
        /\ req' = [r \in DOMAIN req |->
                     [req[r] EXCEPT !.stopped = @ \/ r \in stop, !.aborted = @ \/ r \in R,
                                    !.requested = @ \/ r \in Marked]]
                  \o New
        /\ promise' = [d \in {r \in DOMAIN req' : req'[r].defer = r} |->
                         IF d \in DOMAIN promise THEN State(d) ELSE "pending"]
        /\ activeFetchCount' = CountWithout(stop)
        /\ batches' = {b \in B : ~(b.phase = "msearch" /\ Given(b, R \cup Done))}

-----------------------------------------------------------------------------
\* The consumers.

MayAsk(s) == ~fatal /\ Cardinality(Of(s) \cap Queue) < Consumers

\* onResults: a consumer waits for the next response of s.
OnResults(s) ==
    /\ MayAsk(s) /\ s \notin Rejecting
    /\ Step({}, FALSE, {}, {}, batches, <<NewRequest(s, Len(req) + 1)>>)
    /\ UNCHANGED <<debounced, singleCall, fatal, closed>>

\* fetch, and fetchAsRejectablePromise of a source that has no other consumer: the
\* first startable request of s, or a new one.
Fetch(s) ==
    LET own == Startable(Of(s)) IN
    /\ ~fatal /\ (s \in Rejecting => Of(s) \cap Queue = {})
    /\ IF own # {}
       THEN Step({}, FALSE, {}, {First(own)}, batches, <<>>)
       ELSE MayAsk(s) /\ Step({}, FALSE, {}, {}, batches,
                              <<[NewRequest(s, Len(req) + 1) EXCEPT !.requested = TRUE]>>)
    /\ debounced' = TRUE
    /\ UNCHANGED <<singleCall, fatal, closed>>

\* fetchQueued of a source, and the function of the search looper.  The looper takes
\* the inactive requests, marked ones too: marking them again changes nothing.
FetchThese(R) ==
    /\ ~fatal
    /\ Step({}, FALSE, {}, R, batches, <<>>)
    /\ debounced' = TRUE
    /\ UNCHANGED <<singleCall, fatal, closed>>
FetchQueuedOf(s) == FetchThese(Startable(Of(s)))
SearchLoop == FetchThese({r \in Queue : ~req[r].started})

\* cancelQueued, destroy.
CancelQueued(s) ==
    /\ ~fatal /\ s \in Destroyed
    /\ Step(Of(s) \cap Queue, TRUE, {}, {}, batches, <<>>)
    /\ UNCHANGED <<debounced, singleCall, fatal, closed>>

\* The multichart plugin asks for the next fetch to fetch the visualization of s alone.
SetSingleCall(s) ==
    /\ ~fatal /\ s \in Multichart
    /\ singleCall' = singleCall \cup {s}
    /\ UNCHANGED <<req, promise, activeFetchCount, debounced, batches, fatal, closed>>

\* The requests of a multichart beyond the first of its source, and those of them
\* before the one that makes fetchQueued abort a request for the second time: there
\* it throws.
Duplicated == {r \in Queue : req[r].source \in Multichart
                               /\ \E q \in Of(req[r].source) \cap Queue : q < r}
Thrown == {r \in Duplicated : \E q \in Duplicated \cap Of(req[r].source) : q < r}
Filtered ==
    {First(Of(req[r].source) \cap Queue) :
       r \in {d \in Duplicated : \A t \in Thrown : d < t}}

\* courier.fetch: fetchQueued of the search strategy.
FetchQueued ==
    /\ ~fatal
    /\ IF Thrown # {}
       THEN /\ Step(Filtered, TRUE, {}, {}, batches, <<>>)
            /\ UNCHANGED <<debounced, singleCall>>
       ELSE LET requests == Startable(Queue \ Filtered)
                flagged  == {r \in requests : req[r].source \in singleCall}
            IN  /\ IF flagged = {}
                   THEN Step(Filtered, TRUE, {}, requests, batches, <<>>)
                   ELSE Step(Filtered \cup (flagged \ {Last(flagged)}), TRUE, {},
                             {Last(flagged)}, batches, <<>>)
                /\ singleCall' = singleCall \ {req[r].source : r \in flagged}
                /\ debounced' = TRUE
    /\ UNCHANGED <<fatal, closed>>

-----------------------------------------------------------------------------
\* The fetch.

\* isFetchRequestedAndPending.  The mutant is canStart.
PendingStartable == Startable(Queue)
Pending == {r \in Queue : req[r].requested /\ ~req[r].started}

\* start(): a falsy activeFetchCount is set to 1.  The mutant increments it as well.
CountWithTwice(R) ==
    [s \in Sources |->
       LET n == Cardinality(Of(s) \cap R)
           c == activeFetchCount[s]
       IN  IF c # NaN THEN c + n ELSE IF n = 0 THEN NaN ELSE n + 1]
CountWith(R) ==
    [s \in Sources |->
       LET n == Cardinality(Of(s) \cap R)
           c == activeFetchCount[s]
       IN  IF c # NaN THEN c + n ELSE IF n = 0 THEN NaN ELSE n]

\* debouncedFetchThese: fetchWithStrategy starts the pending requests as a batch.
DebouncedFetchThese ==
    /\ ~fatal /\ debounced
    /\ debounced' = FALSE
    /\ req' = [r \in DOMAIN req |-> [req[r] EXCEPT !.started = @ \/ r \in Pending]]
    /\ activeFetchCount' = CountWith(Pending)
    /\ batches' = batches \cup (IF Pending = {} THEN {}
                                ELSE {[reqs |-> Pending, phase |-> "started"]})
    /\ UNCHANGED <<promise, singleCall, fatal, closed>>

\* callClient: requests aborted since the start are left out, the parameters of the
\* others are asked for.
CallClient(b) ==
    LET live == b.reqs \ Aborted IN
    /\ ~fatal /\ b.phase = "started"
    /\ batches' = (batches \ {b}) \cup (IF live = {} THEN {}
                                        ELSE {[reqs |-> live, phase |-> "params"]})
    /\ UNCHANGED <<req, promise, activeFetchCount, debounced, singleCall, fatal, closed>>

\* handleFailure is called on each request of L when A is aborted, until it throws on
\* an aborted one; the retry clones that one too before its second abort throws.
Failed(L, A) == {r \in L : \A q \in L \cap A : r < q}
Retried(L, A) == {r \in L : req[r].source \notin Rejecting /\ \A q \in L \cap A : r <= q}

\* The parameters of a batch are ready but for those of bad, and the msearch is sent
\* unless the batch has responded.
ParamsReady(b, bad) ==
    /\ ~fatal /\ b.phase = "params" /\ bad \subseteq Fetched(b)
    /\ bad # {} => "params" \in Faults
    /\ LET first == Clones(Retried(bad, Aborted), Aborted, Len(req))
           others == batches \ {b}
           A == Aborted \cup Failed(bad, Aborted)
       IN  \/ /\ Given(b, {})
              /\ Step({}, FALSE, {}, {}, others, first)
              /\ UNCHANGED fatal
           \/ /\ ~Given(b, {}) /\ bad \cap Aborted = {}
              /\ Step(bad, FALSE, {}, {}, others \cup {[b EXCEPT !.phase = "msearch"]}, first)
              /\ UNCHANGED fatal
           \/ /\ ~Given(b, {}) /\ bad \cap Aborted # {}
              /\ Step(Failed(bad, Aborted) \cup Failed(b.reqs, A), FALSE, {}, {}, others,
                      first \o Clones(Retried(b.reqs, A), A, Len(req) + Len(first)))
              /\ fatal' = TRUE
    /\ UNCHANGED <<debounced, singleCall, closed>>

\* The msearch is rejected: every request of the batch is failed.
MsearchRejected(b) ==
    /\ ~fatal /\ b.phase = "msearch" /\ "msearch" \in Faults
    /\ Step(Failed(b.reqs, Aborted), FALSE, {}, {}, batches \ {b},
            Clones(Retried(b.reqs, Aborted), Aborted, Len(req)))
    /\ fatal' = (b.reqs \cap Aborted # {})
    /\ UNCHANGED <<debounced, singleCall, closed>>

\* respond and callResponseHandlers: the msearch answered, with an error for errors.
Live(b) == Fetched(b) \ Aborted
Respond(b, errors) ==
    /\ ~fatal /\ b.phase = "msearch" /\ errors \subseteq Live(b)
    /\ errors # {} => "response" \in Faults
    /\ Step(errors, FALSE, Live(b) \ errors, {}, batches,
            Clones(Retried(errors, Aborted), Aborted, Len(req)))
    /\ UNCHANGED <<debounced, singleCall, fatal, closed>>

\* courier.close, which a fatal error calls.  invoke() walks by index an array from
\* which each abort removes an element, so that it skips every second request.
Skipped == {InOrder(Queue)[i] : i \in {n \in 1 .. Cardinality(Queue) : n % 2 = 0}}
Close ==
    /\ ~closed /\ (fatal \/ "elsewhere" \in Faults)
    /\ Step(Queue \ Skipped, TRUE, {}, {}, batches, <<>>)
    /\ fatal' = TRUE /\ closed' = TRUE
    /\ UNCHANGED <<debounced, singleCall>>

-----------------------------------------------------------------------------
Consume == \E s \in Sources :
              OnResults(s) \/ Fetch(s) \/ FetchQueuedOf(s) \/ CancelQueued(s) \/ SetSingleCall(s)

AdvanceBatch(b) ==
    \/ CallClient(b)
    \/ \E R \in SUBSET b.reqs : ParamsReady(b, R) \/ Respond(b, R)
    \/ MsearchRejected(b)
AdvanceFetches == \E b \in batches : AdvanceBatch(b)
Advance == DebouncedFetchThese \/ AdvanceFetches

Next == Consume \/ SearchLoop \/ FetchQueued \/ Advance \/ Close

Spec == Init /\ [][Next]_vars

-----------------------------------------------------------------------------
Active(s) == {r \in Of(s) \cap Queue : req[r].started}

\* visualize.html and doc_table.html show a source as loading while its
\* activeFetchCount is positive: then one of its requests is started and has not
\* stopped, whatever was aborted, retried or started meanwhile.
LoadingMeansFetching ==
    \A s \in Sources : \/ activeFetchCount[s] = NaN
                       \/ activeFetchCount[s] <= Cardinality(Active(s))

\* A consumer that waits is waited for by exactly one request of the queue, and no
\* request of the queue holds a promise that is settled or was dropped: through
\* retries, cancellations and duplicates no consumer is forgotten or answered twice.
OneRequestPerPromise ==
    \A d \in DOMAIN promise :
        Cardinality({r \in Queue : req[r].defer = d}) = IF promise[d] = "pending" THEN 1 ELSE 0

\* A request that was sent to the fetch module and has not stopped is on its way: the
\* timer that will start it is set, or the batch it was started in is under way.
RequestedIsFetched ==
    fatal \/ \A r \in Queue :
        req[r].requested => IF req[r].started THEN \E b \in batches : r \in b.reqs
                                              ELSE debounced

\* "individual errors are routed to their respective requests" (courier.js): no error
\* of a fetch ends up as a fatal error of the application.
ErrorsRouted == fatal => closed

\* A request sent to the fetch module stops in the end.
EveryFetchEnds ==
    \A r \in Requests : (r \in DOMAIN req /\ req[r].requested) ~> (fatal \/ r \in Stopped)

=============================================================================
