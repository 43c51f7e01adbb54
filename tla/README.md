# Verification of node-red-contrib-bull

TLA+ specifications of the Node-RED package in `src/`, the TLC configurations
that check them on small instances, and proofs checked by TLAPS.

## The system

The package gives Node-RED flows access to BullMQ queues on Redis or
PostgreSQL. JavaScript runs one piece of code at a time, so everything between
two `await`s is atomic; what interleaves are message handlers, worker
processors, timers, abort signals, events of connections, and close handlers.

| Component | State | Operations | Talks to |
|---|---|---|---|
| acknowledgement registry (`lib/acknowledgements.js`) | map of entries; per entry a settlement, a timer, an abort listener, an event emitter | `create`, `get`, `rejectByRunNode`; `wait`, `complete`, `fail` | shared by all run and job nodes |
| bullmq run node (`bull-queue.js:735-876`) | worker, completion mode | processor, startup, close | creates acknowledgements, waits for them; asks the config node for its worker |
| bullmq job node (`bull-queue.js:878-1010`) | none | one input handler, 14 actions | settles acknowledgements, calls BullMQ with the entry's lock token |
| config node (`bull-queue.js:395-663`) | `resources`, `queue`, `backendStatus`, `backendReaders`, `backendFailures`, telemetry | `getQueue`, `createWorker`/`createQueueEvents`/`createFlowProducer`, `releaseResource`, `reportBackendFailure`, `readBackendStatus`, close | owns every BullMQ resource |
| shutdown helpers (`bull-queue.js:60-211`) | timers in flight | `closeResourcePair`, `closeResource`, `forceDisconnect`, `settleWithin` | called by the config node and, through `releaseResource`, by runtime nodes |
| bullmq cmd node (`bull-queue.js:675-733`, `lib/commands.js`) | its status | one input handler, 45 commands | the shared queue of the config node |
| telemetry (`bull-queue.js:421-453`) | a memoized client, a latch for the missing package | `getTelemetry` | every resource but QueueEvents |
| bullmq events / flow node (`bull-queue.js:1012-1161`) | own resource, status | readiness, input (flow), close | own resource through the config node |
| queue configuration (`lib/connections.js`) | none | normalisation of settings, options of connections | config node |
| deployment test runner (`scripts/run-deployment-tests.js`) | `dockerCommand`, the position in its list of deployments; the Docker stacks outside | one script: start, wait, test, tear down | Docker, the integration tests |
| serializers, scheduler helpers, editor | none | | |

What is hard here: settlements racing each other (timeouts, cancellation,
messages, closing); settling before anybody waits; job-node handlers that
resume after an await with a stale entry or lock token; timers that hold 31
bits of milliseconds; shutdown within
Node-RED's time limit against datastores that never answer; two nodes closing
the same resource; memoized readiness promises against live events; test stacks
that fail halfway, restart or were left behind by a killed run. Each
hazard is listed at its line in `PROJECT.json`, with the properties about it.

## Modules

| Module | Models | Checked by | Proved in |
|---|---|---|---|
| `Promises` | abstract: an acknowledgement is opened once, decided at most once, and its waiter is told that decision | `acknowledgements` | `Acknowledgements_proofs` |
| `Acknowledgements` | the registry and its entries, method by method | `acknowledgements` | `Acknowledgements_proofs` |
| `AckDeadlines` | the registry with a clock: from the Ack Timeout setting to the timer; EXTENDS `Acknowledgements` and performs its actions | `ack_deadlines` | |
| `ManualJobs` | run node processors, job node handlers and BullMQ's workers and locks; EXTENDS `Acknowledgements` and performs its actions | `manual_jobs`, `manual_jobs_end` | `ManualJobs_proofs` |
| `Shutdown` | `closeResourcePair()` with its budgets, for Redis and PostgreSQL | `shutdown`, `shutdown_best_effort` | `Shutdown_proofs` |
| `ConfigNode` | the config node's resource map, who closes what, and its telemetry client; EXTENDS `Shutdown` and performs its actions | `config_node` | `Shutdown_proofs` |
| `BackendStatus` | the shared backend status, its readers, node status and the failure latch | `backend_status` | `BackendStatus_proofs` |
| `FlowRetention` | the flow node's two walks over a job tree | `flow_retention` | `FlowRetention_proofs` |
| `StopAndRemove` | the `stopAndRemoveAllJobs` command against everything that uses the queue meanwhile | `stop_and_remove` | `StopAndRemove_proofs` |
| `QueueConfig` | from the saved settings to the connection and options of each role | `queue_config` | `QueueConfig_proofs` |
| `DeploymentTests` | the script that tests each deployment, the Docker stacks and their servers | `deployment_tests` | `DeploymentTests_proofs` |
| `MC*` | the instances TLC runs | | |

`Acknowledgements` implements `Promises` (`ImplementsPromises`, a refinement
with `opened <- created, outcome <- settlement`), and `ManualJobs` implements
`Acknowledgements` (`RegistrySpec`). `ConfigNode` implements `Shutdown`, which is
proved only (`ImplementsShutdown`). `Defect` comments mark operators that no
specification uses: each changes one definition as a plausible bug would, and
the property that notices it is named in `PROJECT.json`.

### How the state and actions correspond to the code

**Acknowledgements.** An element of `Ack` is the random id of one `create()`
and its entry. `entries` is the registry's `Map`, `timer` and `listener` the
handles an unsettled entry owns, `processor` the awaiting caller. Settling is
one operator because `EventEmitter.emit` runs its listeners synchronously: the
removal from the map, the clearing of both handles and the wake-up of the
processor are one step. `Wait` is a separate step, since a flow may settle an
entry inside `node.send()`, before the processor calls `wait()`.
`Abort(S)` takes a set because one abort of a worker signals many entries.

**AckDeadlines.** `armed` is the delay the timer of an entry was given, `waited`
the time since then. `Delay` is what `setTimeout()` does with a delay it cannot
hold; `TIMEOUT_MAX` stands for 2^31 - 1 ms, in a coarser unit.

**ManualJobs.** An activation and its lock token are named by the `Ack` the
processor will register. Handlers of the job node are split where they await:
`Ask`, then `GrantMove`, `GrantRateLimit` or `Refuse` by the backend, then
`Resume`. `Fetch`, `Report`, `Stall` and `Promote` are BullMQ's, as far as
`bull-queue.js` relies on them: one lock per job, moves accepted only under its
token, the special errors leaving the job alone. They are marked external.
The answer to a move may be lost after the backend has made it (`GrantMove`); the
handler then throws and the entry waits on. Action `fail` passes any error object
of the flow on, one that says "already moved" included: `FlowError` has
all five kinds, and `forged` remembers the activations a flow has failed so.
`CloseRunNode` is everything the close handler does before its first await,
`ForceClose` stands for what `Shutdown` does when a budget runs out.

**Shutdown.** `step` is where `closeResourcePair()` stands: awaiting the
owner's `close()`, forcing, between owner and connection, awaiting `quit()`, or
closed. `left` is the timer of `settleWithin()`; `Tick` lets a second pass and
never skips a timer that is due. `live` remembers what `connection.status` was
when the budget was chosen. A client that was cut off may go on reading "ready"
until its stream closes, so `quit()` may still be tried on it (`ForceDisconnect`).

**ConfigNode.** `resources` is the key set of `node.resources`; a pair is an
owner with its connection. `NodeCloses` removes the entry and begins the close
in one step, as `releaseResource()` does before it awaits; `ConfigCloses`
snapshots, clears and begins them all. `postgres` is chosen once; it decides
which pairs exist (`Mine`), whether constructors may throw, and whether pairs
have a companion. `telemetry` is the setting together with what
`getTelemetry()` remembers; whether `bullmq-otel` is found is left open on each
call, since packages are installed and removed while Node-RED runs. A call
happens before the constructor, so also for a resource that is never built; the
client's own constructor may throw too, which is not remembered
(`CreateFails`).

**BackendStatus.** `seed` is the memoized readiness promise `watchBackend()`
awaits, `readers` the callbacks of cmd nodes, `marked` the runtime nodes whose
error listener was told that the resource is ready, `failures` the latch.
`postgres` is chosen once. `constructs` says what a construction would fail with
now; `Repair` mends it, and messages to cmd nodes (`CmdInput`), new nodes and jobs
of manual run nodes (`ManualJob`) then build the queue that could not be built
before. `observed` and `dropped` record the failures themselves, in the actions
where they happen (`Meet`, `Drop`), apart from what `Report` makes of them. The
code drops a failure at two times: when the readiness promise of the queue
rejects after the status has left "connecting" (`bull-queue.js:594`), for
instance because a construction had failed before, and when a run node is
closing. `RunRejects` is the end of `worker.run()`, which a run node on PostgreSQL awaits
long after it became ready.

**FlowRetention.** `VisitSingle` is a turn of the stack loop in
`withFlowJobDefaults()`, `VisitBulk` one call of the recursion in
`withBulkFlowJobDefaults()`. The order of visits is left open, which covers
both. `Effective` is what FlowProducer makes of the result.

**StopAndRemove.** `phase` is the call the command makes next. `Others`,
`Upsert` and `Unschedule` are the producers, workers, schedulers and other
commands that act between two of its awaits. `excused` collects the jobs that
were active, waited for children or were added since the command began. `raised`
collects the jobs that `changePriority` has moved to `prioritized` after the
drain. No later call reaches them, because `CLEAN_STATES` (`commands.js:6`) does
not name that state, so an old failed job that is retried and given a
priority between the calls survives, while `docs/COMMANDS.md:128` says that the
command "drains waiting/delayed jobs, and cleans inactive states".
`changeDelay` leaves a delayed job delayed and `pause` moves no job ("BullMQ v6
removed the paused job state"), so they are no actions of their own.

**QueueConfig.** `Normalize` is `normalizeQueueConfig()`, `CreateResource` the
descriptor and options `createResource()` builds for a role. Fields are
blank, good or bad; endpoints are parsed URLs. The switches for TLS and for
the verification of certificates keep the form they were saved in, a boolean, a
number, a text or blank, because `ToBoolean` tells these apart and has defaults
of its own: any number but zero is on, any word but `true`, `1`, `yes` and `on` is
off. A word like "required" thus switches TLS off, and verification too.
`Settings` is everything a
config node may be saved with, in these terms; the run explores those of them
that `MCSettings` lists.

**DeploymentTests.** `pc` is the command the script runs next; `server` is what
Docker has of each stack, and survives the script. A command returns what it was
run for, returns an error status, or does not start at all, which `run()`
throws even where `allowFailure` is set. `Restart` kills the script between
two commands, or starts it again after its end. A probe of a PostgreSQL server
goes over TCP and so is not answered by the temporary server of initdb; the
model shows that this alone keeps the tests off it, and that the second probe
in a row is an additional guard.

## Runs

| Run | Instance | What it shows |
|---|---|---|
| `acknowledgements` | 2 acknowledgements, run nodes with and without a timeout, 2 values | the registry implements one-shot promises; entries, timers and listeners exist for exactly the unsettled; no wake-up is lost although an entry may settle before `wait()`; closing is per node |
| `ack_deadlines` | 1 acknowledgement, a run node for each kind of setting | **violated**, see Findings |
| `manual_jobs` | 1 job, 2 activations, 2 run nodes of concurrency 2, 1 suspended handler, ids symmetric | the worker is told "already moved" only of a job that was moved, and no job stays locked by a reported activation, unless a flow itself failed the job with such an error; only the holder of the lock moves a job; the registry is used as specified |
| `manual_jobs_end` | the same without symmetry, `moveToWait` as the only awaited action, flows that fail a job plainly or as moved, concurrency 1 at the timed node | activations of a timed node end whatever the flow does; a closing node drains without being cut off |
| `shutdown` | a Redis worker and a PostgreSQL owner, budgets 1, 10, 11 and 15 s | closing is bounded by the promised budget and by Node-RED's limit; nobody who drains in time is cut off; nothing outlives a close without errors; closing terminates |
| `shutdown_best_effort` | as `shutdown` | **violated**, see Findings |
| `config_node` | on Redis a worker and the shared queue with clients, on PostgreSQL a worker, an events node and the queue without, and constructors, the telemetry client's included, that throw | each resource is closed exactly once, is in the map until then, and is closed before Node-RED is told so; the config node always answers, and an error of one pair leaves none of the others open; one telemetry client or none |
| `backend_status` | 2 cmd nodes, a run and an events node, 2 categories, both backends, constructions that fail until repaired | readers agree with the shared status; live events beat the memoized promise; a category that was met is reported once, one met only where the code drops it is not; no runtime error, a late rejection of `run()` included, taken for a startup failure; `connecting` ends |
| `flow_retention` | 4 jobs in 3 levels, 2 queues in use and one not, 2 fields | every job of a tree gets the documented precedence on both paths |
| `stop_and_remove` | 3 jobs (one plain, two iterations), 2 schedulers, the command sent twice | no old scheduler survives a finished command, also after one that was rejected halfway, and of the old jobs only those that were active or waited for children meanwhile or were moved to `prioritized` |
| `queue_config` | 222,750 settings, sound and flawed, each switch in every form | TLS exactly where asked, on both backends; certificates go unverified only where a value was saved that does not say yes; hidden Redis fields never matter on PostgreSQL; producers fail fast and consumers wait |
| `deployment_tests` | a PostgreSQL stack between two Redis stacks, 2 runs | tests run on fresh servers that stay; success means that all tests passed; nothing is left behind that Docker agreed to remove; the script ends |

### Bounds

* *Acknowledgements, activations.* Two entries are enough for one to be settled
  while the other waits, for a snapshot that must skip an entry of another
  node, and for a job that is activated again while the old acknowledgement
  is still there. All safety properties of these modules are also proved, for
  any number of them.
* *MaxCalls = 1.* One handler is suspended at a time. Two handlers of the same
  entry are covered by the proofs, which leave `MaxCalls` open.
* *Awaited.* `delayed` differs from `waiting` only in the state of the job that
  it leaves behind and is not enumerated; `manual_jobs` has `rateLimit`,
  which moves nothing, and `waiting`.
* *manual_jobs_end* cuts concurrency at the timed node to one: a timeout frees
  that node's slot whether or not another slot is in use. The node without a
  timeout, where draining depends on the close handler, keeps two.
* *Budgets.* `shutdown` uses the real ones. `config_node` uses 1, 2, 3 and
  4 s, which keep their order; what is checked there is who closes what.
* *MaxCloses, MaxReports, MaxAsked = 2* saturate: only "more than one" matters.
* *TIMEOUT_MAX = 5, MaxWaited = 8* leave room for settings at, below and above
  what a timer holds.
* *FlowError.* `manual_jobs` has all five errors. For liveness it only matters
  whether an error says "already moved"; `manual_jobs_end` has one of each kind.
* *MaxProbes = 3* probes fit in a waiting time: two that answer and one that
  does not. *MaxRuns = 2* in `deployment_tests` lets a run find what the one
  before has left.
* *MaxRuns = 2* in `stop_and_remove` sends `stopAndRemoveAllJobs` again after a rejection or success.
* *FlowRetention.* The tree has a job with two children on different queues,
  and a grandchild that shares a queue with a job further up; counts are
  chosen so that every source of an option is recognisable.
* *Symmetry* is used in `manual_jobs` only, which checks no liveness.

`CHECK_DEADLOCK FALSE` stands in every configuration, because each of these
systems may rightly stop: all acknowledgements settled, all resources closed,
the walk finished, the settings refused.

### Fairness

* `JobsFairness`: a due timer fires, a
  processor that has sent its message goes on to wait, and a worker starts
  processors, reports them and finishes closing once nothing runs. The event
  loop and BullMQ give that. Nothing obliges a flow to acknowledge, a user
  to cancel or a suspended handler to be answered.
* `ShutFairness`, `ConfigFairness`: timers fire and code that need not wait
  goes on. `close()` and `quit()` may hang for ever. In `ConfigNode` all of that
  is one weakly fair action: each step of it brings some pair nearer its end and
  nothing in it can be taken for ever.
* `StatusSpec`: the readiness promise settles one way or the other, on
  PostgreSQL because of its connection timeout. Events, messages and deploys
  may never come.
* `Spec` of `DeploymentTests`: the script takes its next step. `spawnSync()` has
  no timeout, so this assumes that Docker's commands and the tests return; no
  server is assumed to come up, and no command to fail to start.

## Proofs

Theorems hold for every value of the constants that meets the named
assumptions, which TLC evaluates in the runs. They are about the safety part of
each specification (`...Safety`, or `Spec` where it states no fairness). Each
inductive invariant was first checked by TLC on the instance of its run.

**Acknowledgements_proofs.** `IInv` adds to the checked invariants that the
state of the processor, the registration, the settlement and the result tell
the same story (`Coherent`). Without it `NoLostWakeup` is not inductive: a
settling step must know who is subscribed. All steps but `Create` and `Wait`
are one `Settle`, so a single lemma carries them. The same invariant gives
`RefinesPromises`: the initial state maps to an initial state and every step to
an `Open`, a `Decide`, a `Tell` or a stutter. `ClosesPerNode` ties the
outcome "closed" to the closing step: `RejectByRunNode(r)` fails all registered
entries of `r`, takes exactly these out of the map and touches no other
(`ClosingRejectsItsOwn`), and no other step fails any entry as "closed"
(`OnlyClosingRejectsAsClosed`). `FirstSettlementWins` says of any
step that it leaves a settlement and a told result alone. Assumptions: `Timed`
is a set of run nodes, `NoNode` is none of them.

**ManualJobs_proofs.** `JInv` joins `IInv`, the properties, and what links
backend and handlers: a lock belongs to an activation of that job that has not
given it up, a handler whose move was granted has released the job
(`GrantsRelease`), a reported activation is gone or was failed by its flow with
an error of a move (`ReportedAreGone`). `TransitionsEarned` needs
`GrantsRelease`, because the settlement comes an await after the grant;
`NothingOrphaned` needs that a report either releases the lock or finds it
lapsed. `UsesRegistry` maps every step to a step of the registry or a stutter;
together with `RefinesPromises` it gives `JobsKeepPromises`, that the whole
composition keeps the one-shot promise.

**Shutdown_proofs.** `SInv` bounds elapsed plus remaining time by what was
promised at each step of the close (`Timing`), and lists what a step has
cleaned up so far (`CleanedUp`). `BudgetAssumption` has the two inequalities
the code's comments ask for: grace no longer than the graceful budget, and
the longest sum below Node-RED's timeout. `MaxCloses` plays no part.

The second half is about `ConfigNode`. `CInv` contains `SInv` and
adds who is responsible for a resource that is no longer open: the config node
that took it over (`walked`), or its runtime node, which is not done before the
resource is closed (`Responsible`). `NothingUntracked` and `TakenOver` say where
a resource can be while it is open: in the map, which the config node empties
when it closes, so that only later ones (`after`) can be in it then.
`DoneIsClosed` follows from those three. `EachClosedOnce` needs `ClosesCounted`,
which ties the number of closes to the step: whoever finds a resource in the
map finds it open, and takes it out in the same step. `OneClient` needs `Asked`:
while `bullmq-otel` was never asked for, nothing was built that would use it.
`ImplementsShutdown` maps `NodeCloses` to a `Begin` of one pair and
`ConfigCloses` to a `Begin` of all that are in the map, which `CInv` shows to be
open; every other step is a step of a pair or a stutter. Hence
`ConfigClosesInTime`. Assumptions: queues, workers and events are different
resources (`QueuesAssumption`).

**BackendStatus_proofs.** `BInv` adds four facts to the checked invariants. The
queue's readiness promise and live events exist only once the queue does, and
what was built was constructible (`Watched`, `BuiltIsMended`); since what has
been mended stays so, a failed construction, which publishes "disconnected",
can contradict no live event. A marked resource has got ready
(`MarkedWasReady`), so it is neither deployed again nor rejected at startup.
Until the config node closes, the latch holds exactly what was observed
(`LatchIsExact`): every action that meets a failure where it is news reports it,
and none that drops one does. That makes the count inductive. Assumption: no cmd node is
also a runtime node (`NodesAssumption`); otherwise what a runtime node shows of
its own resource would disturb a reader.

**QueueConfig_proofs.** The machine is simple and its invariant `QInv` says where
the config and the resource come from. The work is in the operators: what
was accepted passed the checks of its own backend (`AcceptedByBackend`), each
deployment gives its sockets the same data options (`DescriptorHasDataOptions`),
`ToBoolean` with its default agrees with the forms that say yes
(`SwitchesAreRead`), TLS options exist exactly when their switch is on and verify
as asked (`OptionsAsAsked`), every listed endpoint is contacted
(`ListedAreContacted`), and normalising on PostgreSQL reads no field of Redis
(`PostgresReadsNoRedis`).
The settings range over all of `Settings` and the credentials over all subsets
of `Secret`. Assumptions: `Missing` is no TLS option, `Blank` is no saved value,
and the four words are among the texts.

**DeploymentTests_proofs.** `DInv` says what holds at each command: nothing that
was started is left except on the stack in hand, between its start and the end
of its `finally` (`NothingLeft`); from `up` on, the stack was absent or Docker had
refused to remove it (`SoundSoFar`); and the tests that have passed are exactly
those of the deployments before this one (`NoneSkipped`), so that success means
all of them. `ControlOK` carries an error from the `try` to the exit status. The
argument does not use that PostgreSQL must answer twice, nor that deployments
differ. Assumption: there is at least one deployment.

**FlowRetention_proofs.** `FlowInv` says that the children of a visited job are
visited or pending (`Frontier`), and what each queue and each job has got so
far. When nothing is pending, the visited jobs contain the root and are closed
under children; the assumption that a tree is the least such set takes the
place of an induction. `MergeTwice` makes a second visit to the same queue
harmless.

**StopAndRemove_proofs.** `StopInv` gives, per phase, the states in which a job
that is neither excused nor raised may still be (`Remaining`), and that surviving schedulers
are fresh or still listed. The point is that no step of others takes a job
from a state still to be cleaned into one that already was, or never is, unless
it becomes excused or raised.

Only model-checked: liveness under fairness, which the prover cannot handle
(`TimedActivationsEnd`, `CloseDrains`, `CloseTerminates`, `ConfigAnswers`,
`ConnectingEnds`, `ScriptEnds`). Every invariant, every action property and every
refinement that a passing run checks is also proved. The two runs that find a
violation have nothing to prove.

## Findings

* `shutdown_best_effort`: `forceDisconnect()` awaits `lockManager.close()`
  without a `try` (`bull-queue.js:152`). If it rejects, the stalled-check timer
  of the cut-off worker is never stopped, while `docs/ARCHITECTURE.md:68` says
  that "every step is best-effort".
* `ack_deadlines`: `parseAckTimeoutMs()` lets every finite number through, and
  the entry hands it to `setTimeout()` (`acknowledgements.js:32`), which takes
  1 ms for any delay above 2^31 - 1. A run node set to wait longer than 24.8
  days fails every job at once, while `bull-queue.html:449` calls the setting the
  "maximum time in milliseconds to wait". The editor only asks for a number.

Three more gaps of the code appear in the properties themselves, as the exceptions
these have to make; no document promises otherwise in so many words:

* A failure of the queue that arrives after the status has left "connecting" is
  reported nowhere (`dropped` in `ReportedExactlyOnce`).
* An old job that is moved to `prioritized` between two calls of
  `stopAndRemoveAllJobs` stays (`raised` in `NothingOldSurvives`).
* A flow that fails a job with BullMQ's `WaitingError` or `DelayedError` ends the
  activation while the job keeps its lock until that lapses (`forged` in
  `TransitionIsEarned` and `NoOrphanedJob`).

## Not modelled

* Immediate completion mode: the processor returns at once and keeps no state.
* The names given to the telemetry client, and what the client does.
* Serializers, scheduler helpers, commands that hand one call to BullMQ and
  copy its answer, and the forwarding of queue events: field copies.
* `progress`, `updateData`, the children queries and `removeDeduplicationKey` of
  the job node: they change BullMQ's data and neither acknowledgement nor lock.
* The connection that is left open when a BullMQ constructor throws on Redis
  (`bull-queue.js:492-515`), a queue built after the config node has closed (kept
  out of `DoneMeansClosed` through `after`), and the promise of jobs that wait for
  children to `stopAndRemoveAllJobs` (always excused).
* `reconnectBackoff()`, database numbers and user names; flow trees whose
  jobs have no queue name, which BullMQ refuses.
* An acknowledgement that a late processor creates after its run node, which has
  no timeout, was closed and cut off stays registered for good; `ManualJobs` has
  the states, and no property speaks of them.
* The editor; ports, credentials and environments of the deployment tests.

Each of these that can go wrong unnoticed is a hazard with a note in
`PROJECT.json`.

## Plan

Written first, in this order: `Acknowledgements` with `Promises`, because every
manual job depends on it; `ManualJobs` around it; `Shutdown`, then `ConfigNode`
around it; `BackendStatus`; `FlowRetention`, `StopAndRemove` and
`QueueConfig`; telemetry in `ConfigNode`, `AckDeadlines` and `DeploymentTests`.
The proofs came in the same order; all safety properties have theirs.
Next:

1. `cancelJob()` by job id across activations (`bull-queue.js:984`).
2. A theorem about `AckDeadlines` for settings that fit a timer: no entry is
   failed with "timeout" before the time its setting asks for.
