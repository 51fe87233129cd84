# Verification of kibi

TLA+ models, TLC configurations and TLAPS proofs for the parts of this repository whose
correctness depends on the order of events. Paths are relative to the root of the
repository.

kibi is a browser application (AngularJS) served by a Node process in front of an
Elasticsearch cluster. JavaScript runs to completion, so an action of a model is what
runs without interruption: a handler with every call it makes, up to the next timer,
answer, promise or child process. The interleavings are those of these callbacks.

## Inventory

| Component | State it keeps | Operations | What is hard | What makes it correct | Model |
| --- | --- | --- | --- | --- | --- |
| Count service, `src/ui/public/kibi/meta/kibi_meta.js` | queues by strategy, msearch in flight, counters by id, LRU cache | ask for dashboards or buttons, answer and rejection of an msearch, flushes | answers out of order, retries, arrays replaced under closures | the limit on parallel requests, no lost wake-up, no stale callback, each request settled once | `KibiMeta`, `MetaPromise` |
| Courier, `src/ui/public/courier/` | queue of requests, life of each, fetches under way | fetch, cancel, retry, merge of duplicates, answers, close | abort racing the answer, duplicates, clones of failed requests | one request per waiting consumer, what is sent ends | `Courier` |
| Loopers, `src/ui/public/courier/looper/` | timer, active run, queued run | start, stop, restart, change of interval | a run that ends after a stop, a restart or a new interval | one run, one timer, the loop goes on | `Looper`, `SearchCourier` |
| Health check, `src/core_plugins/elasticsearch/lib/` | timer, chain of calls, loops in the background | start, stop, check | two checks, retries in the background, a cluster that changes in between | one check goes on, green only over a cluster that passed | `HealthCheck` |
| Status and its listeners, `src/server/status/`, `src/kibi_plugins/migrations/` | status of each plugin, counts under way | change events | answers to counts in any order | a listener ends up with a verdict | `ServerHealth` |
| Development cluster, `src/cli/cluster/` | forks, their flags, change buffers | start, restart on change, broadcast, exit | a change while a fork boots, dies or is killed; late events | one fork per worker, no change lost, forks asked to clean up | `ClusterManager` |
| Backup, restore, upgrade, `src/cli/kibi/` | the index, the folders of dumps | the three commands | failure or kill at any step | no upgrade without a way back, truthful exit codes | `Upgrade` |
| Gremlin server, `src/server/gremlin_server/`, `src/kibi_plugins/gremlin_server/` | child process, `initialized`, ping loop | start, stop, ping | status events while a start is pending, a process that dies | no process out of reach, a verdict | `GremlinServer` |
| Shutdown manager, pid file, `src/server/shutdown_manager/`, `src/server/pid/` | cleaning tasks, the file | SIGINT, SIGTERM, exit | signals before it is installed, crashes, restarts | nothing is left behind | `GremlinServer` |
| Plugin initialisation, `src/server/plugins/` | plugins initialised | preInit, init, walk of the requirements | cycles, errors | requirements first, each once | planned |
| Saved objects, `src/kibi_plugins/saved_objects_api/`, `src/server/saved_objects/` | documents and mappings | create, update, delete | concurrent creation, mapping race | no lost document | planned |
| UI settings, `src/ui/ui_settings/` | one document | get, set, remove | concurrent writes, missing document | no lost setting | planned |
| kibi state, dashboard groups, `src/ui/public/kibi/state_management/` | filters, queries, times of dashboards | get, save | order of digests | state and URL agree | to survey |
| Hashed item store, `src/ui/public/state_management/` | items by age, session storage | set, get, eviction | storage full | the newest items stay | planned |
| Sequential join, `src/core_plugins/elasticsearch/lib/siren_join.js` | none | rewrite of a query | nesting | the rewritten query is equivalent | planned |
| Query engine, `src/kibi_plugins/query_engine/` | cache, queries in memory, chains of initialisation | init, run queries, clear the cache | requests that initialise side by side, results that come after a clear | one cache, no answer older than a clear, each request ends | `QueryEngine` |
| Everything else: visualisations, Timelion, console, HTTP set-up, clients and proxies, configuration, optimizer, plugin command line, test tools | | | | presentation, I/O or tools | no |

How they interact: the browser's visualisations ask the courier for searches and the
dashboard pages ask the count service for counts; both send msearch requests through the
proxy of the elasticsearch plugin. The health check sets the status of that plugin;
migrations, siren_federate and the Gremlin server listen to it. The commands of
`src/cli/kibi` start a server of their own, wait for the same status and then change the
index. The cluster manager runs the server and the optimizer as forks and forwards
messages between them.

## How the modules are used

`X.tla` models a component, `MCX.tla` gives it small constants, `MCX*.cfg` are the runs,
`XProofs.tla` holds the theorems. A definition called after a fault (`MayStartOffByOne`,
`ClonesAlone`) is a variant of the definition below it with a plausible bug; no
specification uses it. It is there to see a property fail when the code is wrong.
Variables that are not in the code (history, budgets) are marked in their declaration.

| Run | Module and bounds | Shows |
| --- | --- | --- |
| `meta` | one strategy, 1 id, batches of 2, 2 msearch in parallel, 3 requests, calls of up to 2, 1 retry, 1 flush, 1 refused call, cache | `InProgressCounted`, `FailedAfterRetries`, `OutdatedOnlyForLaterSent`, `QueueAwake`, `EventuallySettled`, and that `KibiMeta` implements `MetaPromise` (`PromiseKept`) |
| `meta_stale` | one msearch at a time, 2 ids, calls of 1, no flush | `NoStaleCallback` is violated |
| `courier_faults` | 2 sources, 4 requests, 2 consumers of a source, all faults | `LoadingMeansFetching`, `OneRequestPerPromise`, `RequestedIsFetched` |
| `courier_routed` | 2 sources, msearch may be rejected | `ErrorsRouted` is violated |
| `search_fair` | 2 sources with 1 consumer each, 3 requests, looper, one `courier.fetch` | `LooperAwake`, `EveryFetchEnds`, `QueueDrains` |
| `server_health` | 8 conditions of the cluster, 2 starts, 1 change, 1 background loop of each kind, the last count and one begun before it under way | `OneGoesOn`, `BlockedStaysOut`, `StopIsFinal`, `StatusFollows`, `VerdictReached` |
| `health_version` | incompatible or ready nodes, 1 start, no change | `IncompatibleStaysOut` is violated |
| `cluster` | 2 workers, one that watches; 2 forks of each that are not forgotten | `OneFork`, `ChangePending`, `DiesBeforeExit`, `GracefulEnd`, `ChangeTakesEffect` |
| `upgrade` | 2 commands, 2 documents, 2 migrations, 2 folders, 4 parts of a dump, 1 retry, failures and kills | `Recoverable`, `ExitTells`, `CommandEnds` |
| `upgrade_restore` | the same with 2 retries, no failure and no kill | `RestoreUpgrades` is violated |
| `gremlin` | 3 starts in 2 lives of the server, 3 changes of Elasticsearch, 2 pings, `pid.exclusive` | `NoStray`, `CleanEnd`, `VerdictReached` |
| `query_engine` | the init of the plugin and 3 requests, 2 at a time, 1 green, 1 edit, 1 change of the data | `OneCache`, `FreshAfterClear`, `RequestSettled` |

The type invariant of a module is checked in its run, that of `Looper` as part of
`LoopTypeOK` and that of `HealthCheck` as part of `HealthTypeOK`. Deadlock is not
checked: the bounds on requests, changes and commands let every model stop.

## Count service

`KibiMeta` has one action for each entry of `kibi_meta.js`: `GetMetaForDashboards` and
`GetMetaForRelationalButtons` (with `_addToQueue`), `GetMetaThrows` (`_checkDefinition`
refuses a definition after others were queued), `Respond` and `Fail` (the two handlers of
the msearch promise), `FlushQueues`, `FlushRelationalButtonsFromQueue` and `Expire` (the
LRU cache, `flushCache`). Each of the first five ends with `ProcessSingleQueue`, as in
the code: the sort by index, the batch, the cache hits, which are answered at once, the
recursion to the next batch, `_sentCounter` and the msearch.

A request is the number of its call, so a greater number was asked later. `place[r]` says
where the request is: in which array (they are replaced by `flushQueues`, and a closure
keeps the old one, so an array is a generation), in flight, answered, failed, discarded
as outdated or flushed. A queue is the set of requests placed in it, because the code
sorts it, stably, before each use; the order among equal indices is the time of the push.

`MetaPromise` is what the callers rely on: a request that was asked waits until it is
settled or abandoned, once, and does not come back.

Bounds. Three requests are the fewest that fill a batch of two and leave one for the next
msearch, or let two requests of an id overtake each other beside a third; one retry makes
mixed batches of fresh and retried requests; one flush makes an old and a new array. One
id has the calls that compete for a counter; that ids do not disturb each other, and that
strategies do not, is left to `meta_stale` and to the proofs.
Fairness: `WF(Settle)`, each msearch is answered or rejected in the end, by Elasticsearch
or by the timeout of its client. Nothing obliges callers to ask or to flush.

Assumptions: callbacks do not throw (the three callers do not); the strategy passes
`strategy_validator.js`; a queue has at most ten elements or a stable sort.

Proved, for every set of ids and queries, every strategy and all bounds (`KibiMetaProofs`):
`TypeCorrect`, `InProgressExact` (`InProgressCounted`), `NoLostWakeUp` (`QueueAwake`),
`RetriesUsedUp` (`FailedAfterRetries`), `OutdatedHolds` (`OutdatedOnlyForLaterSent`) and
`PromiseRefined` (`PromiseKept`). The inductive invariant `IInv` adds to the types that a
number not asked yet is placed nowhere, and `Flying`: the batches in flight are not empty,
hold only requests that are in flight and share none. Without it a settled batch could
take the requests of another along, and two equal batches would be counted once.
`QueueAwake` needs one more step, `AwakeInv`, and the lemma that `_processSingleQueue`
sends something or empties the array (`TakenSendsOrEmpties`): the least batch that is not
all in the cache is sent.

`RetriesUsedUp` adds the retries left at each place (`Budget`) and that a batch holds
objects of its own strategy (`Kindred`).

`OutdatedHolds` is about the counters of an id, and its invariant is `CountInv`. Objects
that were pushed have different stamps (`Stamped`), so the order of a sorted queue is total
and the counters of an id are given out without a gap or a repetition (`Numbers`); what is
in flight has one (`InFlightNumbered`). The callbacks counted for an id are no more than
its objects that were sent and are answered or outdated (`CallbacksBounded`): an object
that fails and is sent again takes a new counter without being counted, and a hit in the
cache is not counted at all, so the two numbers do differ. An answer is then outdated only
if the objects of its id that are over, with those of the batch up to it, are more than its
counter, and by the pigeonhole one of the first has a greater counter
(`OutdatedHasLater`); when that one was itself outdated, the invariant gives another.

`InOrderNotStale` says when the comment that `meta_stale` refutes is right, `InOrder`: one
strategy, one msearch at a time, no retry (or no rejection), no cache, and queries that
the sort leaves in place. Then stamps are the numbers of the calls (`PushedOnce`), what is
taken from a queue is its head (`TakenFirst`), and a settled batch leaves nothing in flight
(`FirstComeFirstServed`, `OnlyBatch`); flushes and refused calls do no harm. Each of the five
conditions is needed: with 4 requests of one id, TLC finds `NoStaleCallback` violated when
any one of them is given up and the others are kept. The default configuration has one
strategy and one msearch at a time, but one retry.

Model-checked only: `EventuallySettled` (liveness).

## Courier and loopers

`Courier` follows a search request from the consumer that asked for it to its promise.
`req` lists the requests with the flags of `request.js`; the request queue is those that
have not stopped. A request holds a promise, named by the request it was made for, and a
clone takes the promise of the request it replaces (`Clones`). The consumers' actions are
`OnResults`, `Fetch` (`fetch` and `fetchAsRejectablePromise`), `FetchQueuedOf`,
`CancelQueued` (also `destroy`), `SetSingleCall`; the application's are `FetchQueued`
(`courier.fetch`), `SearchLoop` and `Close`. A fetch goes through `DebouncedFetchThese`
(the timer; the requests start), `CallClient`, `ParamsReady` (each source resolved its
state or failed) and `Respond` or `MsearchRejected`. `Step` is what all of them have in
common: requests that are aborted, complete, are marked or made, with the promises, the
counts of the sources and the batches that respond because nothing of them is left.

Only requests of the class SearchReq are modelled, and `source._fetchDisabled`
(`request.js:34`), with which a disabled source keeps its requests from starting, is left
out. A promise that "drops" was held by an
aborted request and is never settled, as in the code. After a fatal error the model
stops, but for `Close`: the page is replaced. Sources fetched with
`fetchAsRejectablePromise` have no other consumer, as in
`src/core_plugins/kibana/public/context/api/`.

`Looper` is `_looper.js`; `QueuesHasty` tells the search looper, which queues a run when
one is active. `SearchCourier` runs it with `Courier`: a run sends every request that has
not started and ends when each is complete or aborted. `Digest` steps come before
everything else, because promises settle in the digest of the event that settled them.

Bounds. Two consumers of a source make duplicates; four requests leave room for the
clones of two. In `search_fair` three requests are two consumers and a clone. Which
source may be destroyed, is a multichart or rejects is fixed by the configuration, so
that each kind meets each fault. Fairness of `FairLoopSpec`: timers fire, the client
settles every msearch, the state of a source resolves or is rejected, digests run.

Proved for any sources, consumers, faults and bounds (`CourierProofs`): `TypeCorrect`,
`LoadingHolds` (`LoadingMeansFetching`), `OnePromiseHolds` (`OneRequestPerPromise`) and
`FetchedHolds` (`RequestedIsFetched`). `LoadingMeansFetching` and `RequestedIsFetched` are
parts of the inductive invariant `IInv`. The others are `Sent` (a request is
started only after it was sent to the fetch), `Flying` (a batch is not empty and shares
no request with another; its requests stop only by an abort, until all that its msearch
would ask for are gone and it has responded), `Held` (a pending promise has exactly one
holder in the queue, a settled or dropped one none, from which `OneRequestPerPromise`
follows), and that what is aborted has stopped. All actions but the timer and
`CallClient` are a `Step`, so there is one lemma for each part on what a `Step` must meet
to keep it, and one for each action that it does. `RequestedIsFetched` needs that a
respond stops what is left of its batch and that nobody else stops a request of a batch
without an abort.

`ErrorsAreRouted` says when the promise that `courier_routed` refutes is kept, `Routable`:
the parameters are always there and no msearch is rejected, whatever is cancelled; or
nothing is cancelled, there is no multichart, and only one of the two goes wrong. Its
invariant `Routed` adds `Intact`: a batch has an aborted request only after its msearch
was sent without the parameters of that request. No part of the hypothesis can be dropped
(TLC has a counterexample for each), and the last one shows a second way to the finding,
without any cancellation: a request whose parameters fail is aborted and retried while
its batch sends the msearch for the others; when that is rejected, `call_client.js:191`
fails the aborted request again, which throws.

`SearchCourierProofs` has the composition. `SearchLooperImplementsLooper`: to the
variables of the looper, every step of `SearchCourier` is a step of `Looper` or a stutter,
so what `Looper` says of runs and timers holds of the search looper, and `LooperStaysAwake`
is proved from it. `LoopTypeCorrect` and `LoopKeepsCourier` carry the theorems of the courier
over to the actions that are new in the composition, the runs of the looper and their
failures.

Model-checked only: `EveryFetchEnds` and `QueueDrains`. They exempt a fatal error; the
state of a source that never resolves would break them.

No property says that a promise is resolved with a response of its own. Two requests of a
source in one fetch are merged, and the second completes with the ABORTED marker in place
of a response: `Holes` and `Orphans` have it, the promise is then "bogus", and the run
`courier_faults` has such states. What is proved of them is that the promise is settled
once and its request stops.

## Health check and status

`HealthCheck` models `health_check.js` with the calls of the chain (`ensure_*`,
`wait_for_plugin_list`, `create_kibana_index`, `determine_enabled_scripting_langs`). The
admin cluster is in one of nine conditions and changes by itself (`Change`). `Start`,
`PreStop` and `TimerFires` keep the timer; `Ping`, `Version`, ..., `Langs` are the answers
to the calls in their order, `CallThrows` is the catch, `Ends` the finally. `loops` counts
what is left in the background: the retries of `waitForEsVersion` and
`pingCustomCluster`. `steady` and `changes` are not in the code.
While the shards of the index are not there, the wait for them (`Online`) times out and
throws, as the client does on the status 408 that the call does not ignore.

`ServerHealth` adds the migrations plugin, which counts outdated objects on each change
of the status to green and shows the answer that came last; siren_federate listens the
same way. `last` says that the count begun last is under way, `earlier` how many of the
others are; `Verdict` and `LateVerdict` are their answers, in any order. `counted` is not
in the code: since the status turned green the last time, a count begun since was
answered. `VerdictReached` says that every green ends in such an answer, unless the status
changes again before; it does not say that the answer stays, since a `LateVerdict` of an
older count may come after it.
The overall status is the most severe one, computed when asked for; it has no state.

Bounds. Two starts give two chains at once. One change suffices for "between any two
calls", since the initial condition is arbitrary. `MaxLoops` loops of a kind block the
step that would leave one more, so a check in such a state waits; every loop sets the same
status. `MaxEarlier` blocks a step that would begin one more count, as `MaxLoops` does. Left out of `server_health` is the condition of an index that refuses explicit
names, which differs from "tribe" by one step (the proofs have it). Fairness: timers fire
and the client settles every call. `StatusFollows` is about a cluster that
stays as it is from some time on: the status is then green, or red, for ever.

Proved for any conditions and bounds (`HealthCheckProofs`): `HealthTypeCorrect`,
`OneCheckGoesOn`, `StopHolds` and `BlockedHolds`. The invariant adds `Stopped` (after the stop nothing goes on) and
`Reached` (how far a check gets in each condition that has not changed since it began).
`Composition` shows that `ServerHealth` is `HealthCheck` to its variables, so the
theorems hold with the listener. `StatusFollows` and `VerdictReached`, liveness, are model-checked only.

## Development cluster

`ClusterManager` has the manager, its workers and the forks. `life`, `events` and `failed`
belong to the operating system: a fork ends (`Ends`) before its `disconnect` and `exit`
are delivered, in any order. `Start` is `Worker.start` for a set of workers, which the
handlers call: `StartCluster`, `FileChange` (`onChange`), `ManualRestart`, `Exit`
(`onExit`); `Killed` is `shutdown`. `exitBound` has the workers that shut down at the exit
of the manager. Messages of a fork (`Online`, `Listening`, `Broadcast`) come before its
exit; `online` is delivered when it boots. A broadcast goes to the forks of the other
workers that are online (`Reached`). `online` is not reset by a kill, which destroys the
listener of the disconnection, so until the exit event the fork may be gone: the send to
its closed channel emits an error that nobody hears, and the manager dies
("thrown"). That happens, and the model has it; `DiesBeforeExit` says that it happens only
between the end of a fork and its exit event, and `GracefulEnd` that the forks are told to
clean up all the same. The promises of `start` and `shutdown`, which
the manager ignores, the base path proxy and the set-up of the watcher are left out.

Bounds. Two forks of a worker that are not forgotten are enough for one that dies late
and its successor; more of them differ only by stale disconnects. Fairness: a process
that was sent SIGTERM ends, and events are delivered; nothing makes a fork end by itself.

Proved for any workers (`ClusterManagerProofs`): `TypeCorrect`, `OneForkHolds`, `ChangePendingHolds`,
`DiesBeforeExitHolds`, `GracefulEndHolds`. The invariant adds `Delivered` (the fork of a
worker is alive or its exit is to come), `Silenced` (a fork that was killed is not
listened to, so its late events clear nothing), `Covered` (one that runs and was not
killed is registered with the exit of the manager), `Waiting` and `OnlineForked`.
`ChangeTakesEffect` is model-checked only.

## Backup, restore and upgrade

`Upgrade` runs `backup`, `restore` and `upgrade` one after the other. `at` is the place in
`backup.js`, `restore.js`, `upgrade.js`; `DumpPart` and `LoadPart` are one run of
elasticdump, `Ready`, `WaitForGreenStatus`, `Migrate`, `Close`, `Caught` are `runUpgrade`,
`Answer` is the question of the revert, `InputEnds` a question that nobody answers,
`RemovePart` the removal of the backup, `RemoveFails` its end. With `Faults` every call may
fail and `Killed` may come anywhere. `allPlugins` is FALSE for a restore that scans
directories in which a required plugin is missing, as those it takes by default:
`kbnServer.ready()` is then rejected.

`exit` is how the process ends. What runs the action of a command exits with 1 when its
promise is rejected (`src/cli/command.js:82`), so a rejection is an exit with 1
(`Rejected`). The revert and what follows it run in the callback of the question, whose
promise nobody holds (`InCallback`): when they are rejected, or the input ends before the
answer, nothing is left to do and Node ends by itself with code 0 ("ended"). A document is its stage of migration. `refused`
has the documents that a bulk did not write, which `migration_1.js:56` and its like do not
look at; `before`, `declined` and `commands` are not in the code.

Assumed: no server writes to the index meanwhile and no two commands run at once, as the
documentation asks; the folder of an upgrade, named after the second, is fresh; a dump
that could not make its folder is a dump whose first part failed. The choice and the
migration of the configuration file end the command before anything is touched and are
left out.

Bounds. Two commands are a failed one and the one that repairs it. One retry is a wait
for green that is in vain. Fairness: a command
goes on by itself, but for the answer of the user.

Proved for any documents, stages, folders and bounds (`UpgradeProofs`): `TypeCorrect`,
`RecoverableHolds` and `ExitTellsHolds`. The invariant follows the command: `Placed`, `Dumping` (a dump that
goes on will be complete), `Backed` (the backup is complete until it is removed),
`Loading`, `Restored`, `Unchanged` and `Staged` (what the index holds at each place).
`ExitTells` is about the codes of `process.exit`; of a command that "ended" it says
nothing, since the code 0 is then wrong over a broken index (see the findings), while
`Recoverable` holds. `CommandEnds` is model-checked only.

## Gremlin server and shutdown

`GremlinServer` has the handler (`gremlin_server.js`), the plugin that owns it, the Java
processes and the life of the Node process around them. A call of `start` goes through
`Asked` (is another Gremlin server there?), then `Refused`, `JavaUnread` or `Spawn`, and
the ping loop `SendPing`, `PingAnswered`, `PingAgain`, `GiveUp`. `start[s].via` is the
closure in which the loop of start `s` runs: the code keeps the closure in `self.ping`,
which a second start replaces, so that the timer of the first calls the second's
`fulfill` and `reject`. `Settle` is what the plugin does with the promise. `InitPlugin`
and `StatusChange` are the plugin; it listens to Elasticsearch only if the status was not
green when it was initialised. `proc` belongs to the operating system: a process that was
sent SIGINT answers until it is dead, and may die at any time. One process has the port.

`Boot` is the pid file, `Listen` the installation of the shutdown manager, `Signal` and
`Resend` its handler, `SignalEarly` a signal that finds only the handlers of `pid`,
`Crash` a kill. Tasks are registered with each successful start, so the array holds
several copies of one; they do the same, and the model has a set.

`mine` and `exempt` are not in the code. `exempt` records what a property cannot promise:
two starts at a time ("overlap"), a complaint that rejects and goes on, a signal while a
start is pending or before the shutdown manager is there, a crash. In each the code leaves
a Java process behind; without its exemption TLC finds `CleanEnd` or `NoStray` violated. So `CleanEnd` says of a
start that succeeds that its task is registered before a signal can come, and no more;
`VerdictReached` does not exempt overlapping starts.

Bounds. Two starts overlap; the third follows an outage or a restart. Two pings are a
failed one and a last one. Fairness: calls are answered and timers fire; nothing obliges
Elasticsearch, Java or users. The ping has no timeout of its own
(`gremlin_server.js:350`): `VerdictReached` assumes that a process that accepts the
connection answers or dies.

Proved for any bounds and outcomes (`GremlinServerProofs`): `TypeCorrect`, `NoStrayHolds`,
`CleanEndHolds`. The invariant adds `Unspawned` (a start that has not spawned has no
process), `Alone` (without an overlap at most one start is active, its loop runs in its
own closure, and what the handler knows to be up has its cleaning task), `Housed` (what is
there at each place of the server's life) and `Cleaned` (`CleanEnd` from the signal on).
`VerdictReached` is model-checked only.

## Query engine

`QueryEngine` has the requests of browsers and the chains of initialisation they start.
`Ask` is `_init`: a request that finds the engine not initialised replaces `this.cache`
and calls `_onStatusGreen`, at once or at the next green, and at every later green again,
for the listener is never removed. A chain goes through `Load` (`loadPredefinedData`,
`setupJDBC`), or `LoadRejected`, or `LoadLost`, and the two searches of `reloadQueries`
(`Searched`, `Joined`), each of which may fail. A search returns the queries of some
moment between its sending and its answer, and what it found is installed when the second
search has answered, however many edits and clears came in between. A request then goes
through `GetQueries`, `Refused`, `ReplacementLost` (the variables of the query cannot be
replaced, and the promise of `fetchResults` is never settled), `FetchResults` (a hit, or a
miss by age or size) and `Fetched`, or, for a clear, `ClearCache`, `ClearSearched`,
`ClearJoined`.

The queries in memory are the version of the stored ones they were made from and the
cache they hold; a result is the version of the data behind the datasource when it was
read. A cache entry belongs to a version of the queries, since its key has the text of the
query. One query of type REST stands for all; a request for several is several requests.
The requests of one user are modelled, so the user name in the key is left out.

`floor` and `disturbed` are not in the code: what the last clear promises, and whether a
clear met a fetch, or a reload in either of its two searches. `FreshAfterClear` holds until
that happens. Then it does not: a slow reload installs the queries of before the edit after
the clear has installed the new ones (`query_engine.js:460`, `533`), and a slow fetch puts
an old result into the cache that was emptied.

`RequestSettled` exempts the requests that hang: the one whose variables cannot be replaced
("hung"), and those that wait for a chain that was lost.

Bounds. Two requests that initialise side by side, and a third that reads after a clear;
one edit and one change of data tell old from new. Fairness: Elasticsearch and the
datasource answer or their clients time out.

Proved for any bounds (`QueryEngineProofs`): `TypeCorrect`, `OneCacheHolds`,
`FreshHolds`. The invariant adds `Loaded`, `Found`, `Using`, `Known`, `Unserved` (what is
read or written was stored before, and with a cache that was made), `Past` (an entry is
not newer than the data) and `Current`: the promises, which are the floor and the dues of
the clears under way, are kept by the entries of the cache in use and by every request
that has read them. `RequestSettled` is model-checked only.

## Findings

Each is a run that TLC must find violated.

- `meta_stale`: the comment at `src/ui/public/kibi/meta/kibi_meta.js:44` promises that no
  callback of a previous object runs after that of a later one. The counters number
  sendings, not requests; the sort, a retry or a cache hit lets a request be overtaken
  (`InOrderNotStale` has the configurations in which none is).
- `courier_routed`: an msearch that is rejected after one of its requests was cancelled
  becomes a fatal error (`src/ui/public/courier/fetch/call_client.js:191`);
  `ErrorsAreRouted` has the configurations in which none does.
- `health_version`: `waitForEsVersion` does not return the promise of its retry
  (`health_check.js:102`), so the status turns green over incompatible nodes.
- `upgrade_restore`: the documentation (`docs/setup/upgrade.asciidoc:70`) says that an
  upgrade follows a successful restore. By default `restore` scans the core plugins alone
  (`src/cli/kibi/restore.js:135`), of which timelion requires `saved_objects_api`, a plugin
  of `src/kibi_plugins`; the server rejects the unmet requirement and `restore` exits with
  1, the backup loaded and nothing upgraded. With those plugins as well, the migrations
  plugin is red over objects that are out of date, and the wait for green is in vain.

Seen while modelling and in the models, without a run of their own:

- `flushQueues` replaces the arrays, and the msearch in flight looks at the old one when
  it is done (`kibi_meta.js:320`), so objects asked since wait for the next call, though
  the comment at `kibi_meta.js:221` relies on that wake-up (`QueueAwake` is about the time
  before a flush);
- `courier.close` walks an array that its aborts shorten (`courier.js:141`);
- `fetchQueued` aborts the first duplicate of a multichart twice when there are three
  (`fetch.js:49`);
- `mergeDuplicateRequests` leaves holes, so the second consumer of a source is answered
  with the ABORTED marker (`call_client.js:45`);
- the looper schedules its next run after a stop (`_looper.js:143`), and `restart` starts
  a looper that was not started;
- a request of `fetchAsRejectablePromise` that the looper meets before the debounce is
  rejected and the looper fails with a fatal error (`looper/search.js:21`);
- the red of a missing federate plugin gives way to the green of the same check
  (`wait_for_plugin_list.js:59`);
- `online` of a worker stays true after a kill (`worker.js:95`), so a broadcast may be sent
  to a closed channel, which ends the manager (`cluster_manager.js:57`); the disconnect of a
  former fork clears the flags of the next (`worker.js:65`);
- the refused documents of a bulk are not looked at (`migration_1.js:56`);
- a revert that fails, or a question that is not answered, ends the upgrade with code 0
  over an index that may be broken (`upgrade.js:190`);
- the Gremlin server does not stop in an outage, against
  `docs/release-notes/releasenotes_10.0.0-beta-2.asciidoc:85`, when Elasticsearch was green
  at the init of the plugin (no listener) or turns red while a start is pending;
- a complaint about the configuration rejects and does not return
  (`gremlin_server.js:42`, `48`, `108`, `119`, `133`), so a process is spawned that nothing
  stops; a version of Java like "11" is neither accepted nor refused
  (`gremlin_server.js:277`) and the start never ends;
- of two starts at a time the promise of the first is never settled, and its process is
  out of reach (`gremlin_server.js:158`, `168`);
- the shutdown manager passes promises, not functions, to `then`
  (`src/server/shutdown_manager/index.js:10`) and does not wait for its tasks; that is as
  well, since the task of `pid` is the promisified form of a function without a callback
  (`src/server/pid/index.js:4`) and its promise is never settled;
- SIGTERM before `listen` leaves the pid file, and with `pid.exclusive` the next server
  refuses to start;
- "Queries reloaded" is the answer of `clearCache` also when the reload failed or found
  none; after the last query was deleted the engine keeps it (`query_engine.js:517`);
- a promise lost in `loadPredefinedData` leaves every waiting request without an answer
  (`query_engine.js:107`), and a query whose selected document is missing leaves its request
  without one (`rest_query.js:112`, `query_helper.js:95`, `138`);
- a count of outdated objects that is answered late replaces the verdict of a newer one
  (`src/kibi_plugins/migrations/index.js:22`).

Not in a model: `Worker.start` waits for `online`, which a worker does not emit
(`worker.js:145`); the key of a REST result omits the variable for the ids
(`rest_query.js:128`), so a request for ids may be answered with a result that has none;
`datasources.hits.total` may exceed the hits that were returned (`query_engine.js:526`).

## What the theorems and the runs leave open

Every invariant and every property of steps that a run checks is a theorem too. Liveness
and ENABLED are out of the prover's reach: `EventuallySettled`, `EveryFetchEnds`,
`QueueDrains`, `StatusFollows`, `VerdictReached`, `ChangeTakesEffect`, `CommandEnds` and
`RequestSettled` rest on TLC and its bounds. So does what a recursion over data
computes; the models use sets and cardinalities in its place. The proofs assume the named
assumptions of each module on its constants (`StrategyAssumption`, `WorkloadAssumption`,
`CourierAssumption`, `HealthAssumption`, `CountsAssumption`, `ClusterAssumption`, `UpgradeAssumption`,
`GremlinAssumption`, `EngineAssumption`), which TLC evaluates in every run;
`ErrorsAreRouted` and `InOrderNotStale` have a hypothesis of their own
besides. Bounds that the proofs keep as constants (`MaxAsked`, `MaxStarts`, ...) are
arbitrary there.

## Not modelled

Most of the repository has no state that events could disorder, and no model is planned
for it: visualisations, Timelion, the console and its vendored editor, colour maps, the
marked parser and other libraries kept in the tree, languages and grammars, HTTP set-up,
configuration, command-line tools, tests. They are the greater part of the lines; what
the models cover is a small share of the whole and the better part of the code whose
correctness depends on the order of events. What each migration rewrites in a document,
how a query is put together and how a dashboard's filters are converted are functions of
data, for which tests with examples say more than a model of the same text would.

## Plan

1. `PluginInit`: the walk of the requirements as a recursive function on graphs, against
   reachability; cycles and missing plugins.
2. `SegmentedCourier`: segmented requests, which go back to the queue with their promise.
3. `SavedObjects` and `UiSettings`: two servers or clients on one index, versions and
   conflicts, the creation of a missing document.
4. `HashedItemStore` and `SirenJoin` as operators checked against reference definitions.
5. Proofs: under which configurations the other two promises that the runs refute hold, as
   `InOrderNotStale` and `ErrorsAreRouted` have it for those of the client.
