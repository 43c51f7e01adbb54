---------------------------- MODULE BackendStatus ----------------------------
(***************************************************************************)
(* What the nodes show and report about the backend of one queue config    *)
(* node. The cmd nodes share the config node's view of the shared Queue's  *)
(* backend, which follows live ready/error/close events and is seeded once *)
(* from a memoized readiness promise. A run, events or flow node follows   *)
(* its own resource. Startup failures on PostgreSQL go through one latch,  *)
(* so that a misconfiguration seen by many resources is reported once.     *)
(*                                                                         *)
(* The backend follows from the settings of the config node and is chosen  *)
(* once. Every attempt constructs a resource anew; what stands in its way  *)
(* on PostgreSQL, a package that is not installed or a bad schema name, is *)
(* the same for all resources. It may be mended while Node-RED runs, at    *)
(* least the former, and does not come back.                               *)
(***************************************************************************)
EXTENDS Naturals

CONSTANTS Cmd,       \* bullmq cmd nodes
          Run,       \* bullmq run nodes
          Once,      \* bullmq events and bullmq flow nodes
          Category,  \* categories of describeBackendFailure()
          MaxReports \* bound: reports of one category that are counted

ASSUME MaxReportsAssumption == MaxReports \in Nat \ {0}

Runtime == Run \cup Once

(* A Node-RED node is of one type, and only cmd nodes read the shared      *)
(* status.                                                                 *)
ASSUME NodesAssumption == Cmd \cap Runtime = {}

Status == {"connecting", "connected", "disconnected"}

VARIABLES
  postgres,      \* whether the backend is PostgreSQL, and not Redis
  constructs,    \* "ok", or the category a construction fails with now
  queue,         \* whether node.queue was built
  seed,          \* the readiness promise of the queue, as watchBackend sees it
  backendStatus, \* node.backendStatus
  lastEvent,     \* history: what the last live event of the backend says
  readers,       \* node.backendReaders: cmd nodes reading the shared status
  shown,         \* the status every node displays
  startup,       \* waitUntilReady() of every runtime node's resource,
                 \* "unbuilt" when its construction failed, and "ended" when
                 \* the run() of its worker has rejected
  marked,        \* runtime nodes whose error listener was told "ready"
  closing,       \* runtime nodes that are closing
  config,        \* the config node: "up" or "closing"
  failures,      \* node.backendFailures, the latch
  reports,       \* history: node.error() calls per category
  observed,      \* history: categories of the failures that were met...
  dropped        \* ...and of those met at a time when the code drops them

settings == <<postgres, constructs>>
configVars == <<settings, queue, seed, backendStatus, lastEvent, readers>>
nodeVars == <<startup, marked, closing>>
latchVars == <<failures, reports>>
metVars == <<observed, dropped>>
statusVars == <<configVars, shown, nodeVars, config, latchVars, metVars>>

StatusInit ==
  /\ postgres \in BOOLEAN
  /\ constructs \in {"ok"} \cup (IF postgres THEN Category ELSE {})
  /\ queue = FALSE
  /\ seed = "none"
  /\ backendStatus = "connecting"
  /\ lastEvent = "none"
  /\ readers = {}
  /\ shown = [n \in Cmd \cup Runtime |-> "none"]
  /\ startup = [n \in Runtime |-> "none"]
  /\ marked = {}
  /\ closing = {}
  /\ config = "up"
  /\ failures = {}
  /\ reports = [c \in Category |-> 0]
  /\ observed = {}
  /\ dropped = {}
-----------------------------------------------------------------------------
(* A failure of category c happens, where it is news and where it is not.  *)
Meet(c) == observed' = observed \cup {c} /\ UNCHANGED dropped
Drop(c) == dropped' = dropped \cup {c} /\ UNCHANGED observed

(* Defect: every failure is reported.                                      *)
ReportWithoutLatch(c) ==
  /\ failures' = failures
  /\ reports' = [reports EXCEPT ![c] = IF @ < MaxReports THEN @ + 1 ELSE @]

(* reportBackendFailure(): one node.error() per category.                  *)
Report(c) ==
  /\ failures' = failures \cup {c}
  /\ reports' = [reports EXCEPT ![c] = IF c \notin failures /\ @ < MaxReports
                                       THEN @ + 1 ELSE @]

(* publishBackendStatus(): remember the status and tell the readers R.     *)
PublishTo(R, s) ==
  /\ backendStatus' = s
  /\ shown' = [n \in Cmd \cup Runtime |-> IF n \in R THEN s ELSE shown[n]]

Show(n, s) == shown' = [shown EXCEPT ![n] = s]

(* getQueue(), when the queue is there or can be constructed: it is watched *)
(* from then on, and the status stays as it was...                         *)
BuildQueue ==
  /\ queue \/ constructs = "ok"
  /\ queue' = TRUE
  /\ seed' = IF queue THEN seed ELSE "pending"
  /\ UNCHANGED <<backendStatus, latchVars, metVars>>

(* ... and createResource(), for any resource, when its construction fails: *)
(* that is published, shown by the nodes N that asked, and reported.       *)
CannotBuild(N) ==
  /\ constructs # "ok"
  /\ PublishTo(readers \cup N, "disconnected")
  /\ Meet(constructs) /\ Report(constructs)
  /\ UNCHANGED <<queue, seed>>

(* The package that was missing is installed.                              *)
Repair ==
  /\ constructs # "ok"
  /\ constructs' = "ok"
  /\ UNCHANGED <<postgres, queue, seed, backendStatus, lastEvent, readers,
                 shown, nodeVars, config, latchVars, metVars>>

(* Defect: the new cmd node waits for the next event to show something.    *)
DeployCmdSilently(n) ==
  /\ config = "up" /\ shown[n] = "none"
  /\ readers' = readers \cup {n}
  /\ \/ BuildQueue /\ Show(n, "connecting")
     \/ CannotBuild({n})
  /\ UNCHANGED <<settings, lastEvent, nodeVars, config>>

(* Defect: the new cmd node shows that it is configured.                   *)
DeployCmdConfigured(n) ==
  /\ config = "up" /\ shown[n] = "none"
  /\ readers' = readers \cup {n}
  /\ \/ BuildQueue /\ Show(n, "configured")
     \/ CannotBuild({n})
  /\ UNCHANGED <<settings, lastEvent, nodeVars, config>>

(* A cmd node is deployed: getQueue(), and then readBackendStatus(), which *)
(* subscribes the node and tells it the status.                            *)
DeployCmd(n) ==
  /\ config = "up" /\ shown[n] = "none"
  /\ readers' = readers \cup {n}
  /\ \/ BuildQueue /\ Show(n, backendStatus)
     \/ CannotBuild({n})
  /\ UNCHANGED <<settings, lastEvent, nodeVars, config>>

(* A message reaches a cmd node: getQueue() constructs the queue that could *)
(* not be constructed before, or fails once more. Node-RED stops its nodes *)
(* in one turn, so none arrives at a node whose config node is closing.    *)
CmdInput(n) ==
  /\ config = "up" /\ n \in readers /\ ~ queue
  /\ \/ BuildQueue /\ UNCHANGED shown
     \/ CannotBuild({})
  /\ UNCHANGED <<settings, lastEvent, readers, nodeVars, config>>

(* A manual run node processes a job, which takes the queue too, and        *)
(* constructs it when no cmd node has: the run node's worker could be.     *)
ManualJob(n) ==
  /\ startup[n] = "ready" /\ ~ queue
  /\ BuildQueue
  /\ UNCHANGED <<settings, lastEvent, readers, shown, nodeVars, config>>

(* The cmd node closes: stopReading().                                     *)
CloseCmd(n) ==
  /\ n \in readers
  /\ readers' = readers \ {n}
  /\ UNCHANGED <<settings, queue, seed, backendStatus, lastEvent, shown,
                 nodeVars, config, latchVars, metVars>>

(* The backend of the shared queue emits ready, error or close.            *)
BackendEvent(s) ==
  /\ queue
  /\ lastEvent' = s
  /\ PublishTo(readers, s)
  /\ UNCHANGED <<settings, queue, seed, readers, nodeVars, config, latchVars,
                 metVars>>

(* Defect: the seed overwrites what live events have said.                 *)
SeedAlwaysPublishes ==
  /\ seed = "pending"
  /\ seed' = "done"
  /\ PublishTo(readers, "connected")
  /\ UNCHANGED <<settings, queue, lastEvent, readers, nodeVars, config,
                 latchVars, metVars>>

(* The readiness promise resolves: it is news only if no event came first. *)
SeedReady ==
  /\ seed = "pending"
  /\ seed' = "done"
  /\ IF backendStatus = "connecting" THEN PublishTo(readers, "connected")
     ELSE UNCHANGED <<backendStatus, shown>>
  /\ UNCHANGED <<settings, queue, lastEvent, readers, nodeVars, config,
                 latchVars, metVars>>

(* Defect: a rejected readiness promise is left to the events.             *)
SeedRejectsSilently(c) ==
  /\ seed = "pending"
  /\ seed' = "done"
  /\ UNCHANGED <<settings, queue, backendStatus, lastEvent, readers, shown,
                 nodeVars, config, latchVars, metVars>>

(* The readiness promise rejects. That is published and reported, unless   *)
(* an event, or a construction that failed earlier, has set the status:    *)
(* then the failure is dropped.                                            *)
SeedRejects(c) ==
  /\ seed = "pending"
  /\ seed' = "done"
  /\ IF backendStatus = "connecting"
       THEN PublishTo(readers, "disconnected") /\ Meet(c) /\ Report(c)
       ELSE Drop(c) /\ UNCHANGED <<backendStatus, shown, latchVars>>
  /\ UNCHANGED <<settings, queue, lastEvent, readers, nodeVars, config>>
-----------------------------------------------------------------------------
(* A runtime node is deployed and builds its own resource; a construction  *)
(* that fails also publishes on the shared status.                         *)
DeployRuntime(n) ==
  /\ config = "up" /\ startup[n] = "none"
  /\ \/ /\ constructs = "ok"
        /\ startup' = [startup EXCEPT ![n] = "pending"]
        /\ Show(n, "connecting")
        /\ UNCHANGED <<queue, seed, backendStatus, latchVars, metVars>>
     \/ /\ startup' = [startup EXCEPT ![n] = "unbuilt"]
        /\ CannotBuild({n})
  /\ UNCHANGED <<settings, lastEvent, readers, marked, closing, config>>

(* Nodes whose resource was constructed.                                   *)
Built == {n \in Runtime : startup[n] \notin {"none", "unbuilt"}}

(* A failure of a runtime node is shown. One that its error listener or    *)
(* startup code takes for a startup failure on PostgreSQL goes to the      *)
(* latch of the config node, any other to node.error().                    *)
Fails(n, c, atStartup) ==
  /\ Show(n, "disconnected")
  /\ IF postgres /\ atStartup THEN Report(c) ELSE UNCHANGED latchVars

(* waitUntilReady() resolves. A run node on PostgreSQL ignores it when its *)
(* worker is closing; on Redis the worker's "ready" event says the same,   *)
(* and may say it again.                                                   *)
BecomesReady(n) ==
  /\ \/ startup[n] = "pending"
     \/ startup[n] = "ready" /\ n \in Run /\ ~ postgres
  /\ startup' = [startup EXCEPT ![n] = "ready"]
  /\ IF n \in Run /\ postgres /\ n \in closing
       THEN UNCHANGED <<shown, marked>>
       ELSE /\ Show(n, "connected")
            /\ marked' = marked \cup {n}
  /\ UNCHANGED <<configVars, closing, config, latchVars, metVars>>

(* waitUntilReady() rejects; a run node on Redis does not wait for it, and *)
(* one on PostgreSQL ignores it when its worker is closing.                *)
StartupRejects(n, c) ==
  /\ startup[n] = "pending" /\ (n \in Once \/ postgres)
  /\ startup' = [startup EXCEPT ![n] = "failed"]
  /\ IF n \in Run /\ n \in closing
       THEN Drop(c) /\ UNCHANGED <<shown, latchVars>>
       ELSE /\ Fails(n, c, TRUE)
            /\ IF postgres THEN Meet(c) ELSE UNCHANGED metVars
  /\ UNCHANGED <<configVars, marked, closing, config>>

(* Defect: the error listener is never told that its resource got ready.   *)
ErrorEventUnmarked(n, c) ==
  /\ n \in Built
  /\ Fails(n, c, TRUE)
  /\ IF postgres /\ n \notin marked THEN Meet(c) ELSE UNCHANGED metVars
  /\ UNCHANGED <<configVars, nodeVars, config>>

(* The resource emits an error: attachErrorListener() reports it as a      *)
(* startup failure until the resource was marked ready.                    *)
ErrorEvent(n, c) ==
  /\ n \in Built
  /\ Fails(n, c, n \notin marked)
  /\ IF postgres /\ n \notin marked THEN Meet(c) ELSE UNCHANGED metVars
  /\ UNCHANGED <<configVars, nodeVars, config>>

(* On PostgreSQL a run node starts its worker itself, once it is ready, and *)
(* waits for its run(), which may reject: a runtime error, unless the      *)
(* worker is closing.                                                      *)
RunRejects(n) ==
  /\ n \in Run \cap marked /\ postgres /\ startup[n] = "ready"
  /\ startup' = [startup EXCEPT ![n] = "ended"]
  /\ IF n \in closing THEN UNCHANGED shown ELSE Show(n, "disconnected")
  /\ UNCHANGED <<configVars, marked, closing, config, latchVars, metVars>>

CloseRuntime(n) ==
  /\ startup[n] # "none" /\ n \notin closing
  /\ closing' = closing \cup {n}
  /\ UNCHANGED <<configVars, shown, startup, marked, config, latchVars,
                 metVars>>

(* A closed worker says so.                                                *)
WorkerClosed(n) ==
  /\ n \in Run \cap closing \cap Built
  /\ Show(n, "disconnected")
  /\ UNCHANGED <<configVars, nodeVars, config, latchVars, metVars>>

(* The config node closes and forgets what it has reported.                *)
CloseConfig ==
  /\ config = "up"
  /\ config' = "closing"
  /\ failures' = {}
  /\ UNCHANGED <<configVars, shown, nodeVars, reports, metVars>>

StatusNext ==
  \/ Repair
  \/ \E n \in Cmd : DeployCmd(n)
  \/ \E n \in Cmd : CmdInput(n)
  \/ \E n \in Run : ManualJob(n)
  \/ \E n \in Cmd : CloseCmd(n)
  \/ \E s \in {"connected", "disconnected"} : BackendEvent(s)
  \/ SeedReady
  \/ \E c \in Category : SeedRejects(c)
  \/ \E n \in Runtime : DeployRuntime(n)
  \/ \E n \in Runtime : BecomesReady(n)
  \/ \E n \in Runtime, c \in Category : StartupRejects(n, c)
  \/ \E n \in Runtime, c \in Category : ErrorEvent(n, c)
  \/ \E n \in Run : RunRejects(n)
  \/ \E n \in Runtime : CloseRuntime(n)
  \/ \E n \in Run : WorkerClosed(n)
  \/ CloseConfig

StatusSafety == StatusInit /\ [][StatusNext]_statusVars

(* The readiness promise settles one way or the other, as PostgreSQL's     *)
(* does after its connection timeout; events, messages and deploys are not *)
(* assumed.                                                                *)
StatusSpec ==
  /\ StatusSafety
  /\ WF_statusVars(SeedReady \/ \E c \in Category : SeedRejects(c))
-----------------------------------------------------------------------------
(* Every variable stays in its range.                                      *)
StatusTypeOK ==
  /\ postgres \in BOOLEAN
  /\ constructs \in {"ok"} \cup Category
  /\ queue \in BOOLEAN
  /\ seed \in {"none", "pending", "done"}
  /\ backendStatus \in Status
  /\ lastEvent \in {"none", "connected", "disconnected"}
  /\ readers \subseteq Cmd
  /\ shown \in [Cmd \cup Runtime -> Status \cup {"none"}]
  /\ startup \in [Runtime -> {"none", "unbuilt", "pending", "ready", "failed",
                          "ended"}]
  /\ marked \subseteq Runtime /\ closing \subseteq Runtime
  /\ config \in {"up", "closing"}
  /\ failures \subseteq Category
  /\ observed \subseteq Category /\ dropped \subseteq Category
  /\ reports \in [Category -> 0..MaxReports]

(* Every cmd node shows the current status of the shared backend, also one *)
(* deployed after the event that set it ("which is what makes a            *)
(* late-deployed node correct").                                           *)
ReadersAgree == \A n \in readers : shown[n] = backendStatus

(* Live events own the status once there was one: neither the memoized     *)
(* readiness promise nor the order of its answer and the events can make   *)
(* the nodes show a backend that is down as connected, or the reverse.     *)
LiveEventsWin == lastEvent # "none" => backendStatus = lastEvent

(* Until the config node closes, every category of failure that a resource *)
(* has met was reported exactly once, however many resources met it and    *)
(* whichever met it first, whether while it was constructed, while it      *)
(* started or by an error event before it was ready. A category met only   *)
(* at two other times was not reported at all: by the queue's readiness    *)
(* promise when the status had left "connecting", and by a run node that   *)
(* was closing.                                                            *)
ReportedExactlyOnce ==
  config = "up" =>
    /\ \A c \in observed : reports[c] = 1
    /\ \A c \in dropped \ observed : reports[c] = 0
    /\ \A c \in Category \ (observed \cup dropped) : reports[c] = 0

(* An error of a resource that has been ready is never taken for a startup *)
(* failure: when something is reported through the latch, a resource could *)
(* not be constructed, the queue's readiness promise is being answered, or *)
(* a runtime node shows the failure of a resource that was never marked    *)
(* ready.                                                                  *)
ReadyErrorsAreRuntimeErrors ==
  [][reports' # reports =>
       \/ constructs # "ok"
       \/ seed = "pending" /\ seed' = "done"
       \/ \E n \in Built \ marked : shown'[n] = "disconnected"]_statusVars

(* A cmd node does not sit on "connecting" once the readiness promise has  *)
(* had time to answer, even if the backend emits nothing.                  *)
ConnectingEnds == (seed = "pending") ~> (backendStatus # "connecting")
=============================================================================
