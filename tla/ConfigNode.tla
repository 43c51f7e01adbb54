----------------------------- MODULE ConfigNode -----------------------------
(***************************************************************************)
(* The bullmq-queue-server config node as the owner of every BullMQ        *)
(* resource: the map node.resources, the queue it builds on first use, the *)
(* resources it builds for runtime nodes, and who closes what when a flow  *)
(* stops. A runtime node releases its own resource; the config node closes *)
(* whatever is still in the map. Node-RED stops them concurrently.         *)
(*                                                                         *)
(* A pair of module Shutdown names one resource; a pair of Queues is an    *)
(* instance of the shared Queue, any other pair is the Worker, QueueEvents *)
(* or FlowProducer of one runtime node. The config node has one backend,   *)
(* and on Redis each of its resources has a companion connection.          *)
(*                                                                         *)
(* The first resource that can be traced also decides whether any is: the  *)
(* config node asks for the optional bullmq-otel package once.             *)
(***************************************************************************)
EXTENDS Shutdown

CONSTANTS Queues,   \* the instances of Queue that getQueue() may build
          Events,   \* the pairs whose owner is a QueueEvents
          NoQueue,  \* node.queue before there is one
          MaxAsked  \* bound: answers of getTelemetry() that are counted

ASSUME QueuesAssumption ==
  /\ Queues \subseteq Pair
  /\ Queues \cap WorkerPair = {}
  /\ NoQueue \notin Queues
  /\ Events \subseteq Pair \ (Queues \cup WorkerPair)
ASSUME MaxAskedAssumption == MaxAsked \in Nat \ {0}

VARIABLES
  postgres,  \* whether the backend of the config node is PostgreSQL
  resources, \* the keys of node.resources
  queue,     \* node.queue, memoized by getQueue()
  born,      \* resources that were built
  host,      \* the runtime node of each pair, as Node-RED sees it
  config,    \* the config node, as Node-RED sees it
  walked,    \* the resources the config node's close handler took over
  after,     \* history: resources built after that
  telemetry, \* the setting, and what getTelemetry() remembers
  asked,     \* history: how often it was settled what that is
  traced     \* the resources that were given the telemetry client

telemetryVars == <<telemetry, asked, traced>>
ownVars == <<resources, queue, born, host, config, walked, after>>
settings == <<postgres, telemetryVars>>
nodeVars == <<ownVars, settings>>
configVars == <<shutVars, nodeVars>>

Runtime == Pair \ Queues
Mine == IF postgres THEN Pair \ Companion ELSE Companion

ConfigInit ==
  /\ ShutInit
  /\ postgres \in BOOLEAN
  /\ ready \subseteq Mine /\ stalled \subseteq Mine
  /\ resources = {}
  /\ queue = NoQueue
  /\ born = {}
  /\ host = [p \in Runtime |-> "new"]
  /\ config = "up"
  /\ walked = {}
  /\ after = {}
  /\ telemetry \in {"off", "unasked"}
  /\ asked = 0
  /\ traced = {}
-----------------------------------------------------------------------------
(* Defect: a resource without a companion connection is not tracked.       *)
TrackConnected(p) ==
  /\ born' = born \cup {p}
  /\ resources' = IF p \in Companion THEN resources \cup {p} ELSE resources
  /\ after' = IF config = "up" THEN after ELSE after \cup {p}

(* Defect: a missing package is looked for each time.                      *)
GetTelemetryUnlatched(p) ==
  \/ /\ p \in Events \/ telemetry \in {"off", "present"}
     /\ UNCHANGED <<telemetry, asked>>
  \/ /\ p \notin Events /\ telemetry \in {"unasked", "absent"}
     /\ telemetry' \in {"present", "absent"}
     /\ asked' = IF asked < MaxAsked THEN asked + 1 ELSE asked

(* getTelemetry(), for every resource but QueueEvents: the first call      *)
(* requires bullmq-otel and remembers the client, or that there is none.   *)
GetTelemetry(p) ==
  \/ /\ p \in Events \/ telemetry # "unasked"
     /\ UNCHANGED <<telemetry, asked>>
  \/ /\ p \notin Events /\ telemetry = "unasked"
     /\ telemetry' \in {"present", "absent"}
     /\ asked' = IF asked < MaxAsked THEN asked + 1 ELSE asked

Trace(p) ==
  /\ GetTelemetry(p)
  /\ traced' = IF telemetry' = "present" /\ p \notin Events
               THEN traced \cup {p} ELSE traced

(* createResource(): the owner is built, with its companion on Redis, and  *)
(* put in the map, with or without a companion.                            *)
Track(p) ==
  /\ born' = born \cup {p}
  /\ resources' = resources \cup {p}
  /\ after' = IF config = "up" THEN after ELSE after \cup {p}

(* A run, events or flow node is deployed and gets its resource.           *)
CreateRuntime(p) ==
  /\ config = "up" /\ p \in Mine /\ host[p] = "new"
  /\ Trace(p) /\ Track(p)
  /\ host' = [host EXCEPT ![p] = "up"]
  /\ UNCHANGED <<shutVars, postgres, queue, config, walked>>

(* On PostgreSQL the constructor may throw, and on either backend that of  *)
(* the telemetry client: nothing was built, and the runtime node has       *)
(* nothing to release when it closes. (Where getQueue() meets the latter,  *)
(* nothing changes at all.)                                                *)
CreateFails(p) ==
  /\ config = "up" /\ p \in Mine /\ host[p] = "new"
  /\ \/ postgres /\ GetTelemetry(p)
     \/ /\ p \notin Events /\ telemetry = "unasked"
        /\ UNCHANGED <<telemetry, asked>>
  /\ host' = [host EXCEPT ![p] = "bare"]
  /\ UNCHANGED <<shutVars, postgres, resources, queue, born, config, walked,
                 after, traced>>

(* getQueue(): cmd nodes call it when they are deployed and for every      *)
(* message, a manual run node for every job its worker hands it, so also   *)
(* while that worker is being closed.                                      *)
GetQueue(q) ==
  /\ queue = NoQueue /\ q \in Mine \ born
  /\ config = "up" \/ \E w \in WorkerPair \cap born : step[w] # "closed"
  /\ Trace(q) /\ Track(q)
  /\ queue' = q
  /\ UNCHANGED <<shutVars, postgres, host, config, walked>>

(* ... or fails to build it on PostgreSQL: it returns null, to try again    *)
(* when it is called again.                                                *)
GetQueueFails(q) ==
  /\ postgres /\ queue = NoQueue /\ q \in Mine \ born
  /\ config = "up" \/ \E w \in WorkerPair \cap born : step[w] # "closed"
  /\ GetTelemetry(q)
  /\ UNCHANGED <<shutVars, ownVars, postgres, traced>>

(* Defect: releaseResource() forgets the resource after closing it.        *)
NodeClosesTracked(p) ==
  /\ host[p] = "up"
  /\ host' = [host EXCEPT ![p] = "closing"]
  /\ IF p \in resources THEN Begin({p}) ELSE UNCHANGED shutVars
  /\ UNCHANGED <<resources, queue, born, config, walked, after, settings>>

(* A runtime node closes: releaseResource() takes its resource out of the  *)
(* map before it awaits the closing, unless the config node was first.     *)
NodeCloses(p) ==
  /\ host[p] = "up"
  /\ host' = [host EXCEPT ![p] = IF p \in resources THEN "closing"
                                 ELSE "closed"]
  /\ resources' = resources \ {p}
  /\ IF p \in resources THEN Begin({p}) ELSE UNCHANGED shutVars
  /\ UNCHANGED <<queue, born, config, walked, after, settings>>

(* ... and calls done(), with or without an error.                         *)
NodeDone(p) ==
  /\ host[p] = "closing" /\ step[p] = "closed"
  /\ host' = [host EXCEPT ![p] = "closed"]
  /\ UNCHANGED <<shutVars, resources, queue, born, config, walked, after,
                 settings>>

(* Defect: the snapshot holds the map itself and not its entries.          *)
ConfigClosesMap ==
  /\ config = "up"
  /\ config' = "closing"
  /\ walked' = {resources}
  /\ resources' = {}
  /\ UNCHANGED <<shutVars, queue, born, host, after, settings>>

(* The config node closes: it snapshots and clears the map and closes all  *)
(* pairs concurrently.                                                     *)
ConfigCloses ==
  /\ config = "up"
  /\ config' = "closing"
  /\ walked' = resources
  /\ resources' = {}
  /\ IF resources = {} THEN UNCHANGED shutVars ELSE Begin(resources)
  /\ UNCHANGED <<queue, born, host, after, settings>>

(* Defect: done() is called as soon as the closing has begun.              *)
ConfigDoneEarly ==
  /\ config = "closing"
  /\ config' = "closed"
  /\ UNCHANGED <<shutVars, resources, queue, born, host, walked, after,
                 settings>>

(* done() after Promise.all: every pair is closed and none has thrown.     *)
ConfigDone ==
  /\ config = "closing"
  /\ \A p \in walked : step[p] = "closed" /\ p \notin errors
  /\ config' = "closed"
  /\ UNCHANGED <<shutVars, resources, queue, born, host, walked, after,
                 settings>>

(* done(err) as soon as one pair has thrown; the others close on.          *)
ConfigFails ==
  /\ config = "closing"
  /\ \E p \in walked : step[p] = "closed" /\ p \in errors
  /\ config' = "failed"
  /\ UNCHANGED <<shutVars, resources, queue, born, host, walked, after,
                 settings>>

ShutStep ==
  /\ Tick \/ \E p \in born : CloseStep(p)
  /\ UNCHANGED nodeVars

ConfigNext ==
  \/ \E p \in Runtime : CreateRuntime(p)
  \/ \E p \in Runtime : CreateFails(p)
  \/ \E q \in Queues : GetQueue(q)
  \/ \E q \in Queues : GetQueueFails(q)
  \/ \E p \in Runtime : NodeCloses(p)
  \/ \E p \in Runtime : NodeDone(p)
  \/ ConfigCloses
  \/ ConfigDone
  \/ ConfigFails
  \/ ShutStep

(* The event loop goes on: timers fire, code that need not wait runs.      *)
Due(p) ==
  \/ ForceDisconnect(p) \/ ForceStopsTimers(p) \/ ForceRejects(p)
  \/ Quit(p) \/ Cut(p)

ConfigFairness ==
  /\ WF_configVars(ConfigDone \/ ConfigFails)
  /\ WF_configVars((Tick \/ \E p \in Pair : Due(p)) /\ UNCHANGED nodeVars)

ConfigSafety == ConfigInit /\ [][ConfigNext]_configVars
ConfigSpec == ConfigSafety /\ ConfigFairness
-----------------------------------------------------------------------------
(* Every variable stays in its range.                                      *)
ConfigTypeOK ==
  /\ ShutTypeOK
  /\ resources \subseteq Pair
  /\ queue \in Queues \cup {NoQueue}
  /\ born \subseteq Pair
  /\ host \in [Runtime -> {"new", "bare", "up", "closing", "closed"}]
  /\ config \in {"up", "closing", "closed", "failed"}
  /\ walked \subseteq Pair /\ after \subseteq Pair
  /\ postgres \in BOOLEAN
  /\ telemetry \in {"off", "unasked", "absent", "present"}
  /\ asked \in 0..MaxAsked /\ traced \subseteq Pair

(* A resource is closed by its runtime node or by the config node, never   *)
(* by both, in whatever order Node-RED stops them.                         *)
ClosedOnce == \A p \in Pair : closes[p] <= 1

(* Every resource that was built is in the map, where a close will find    *)
(* it, until its closing begins ("so close/redeploy still walks it").      *)
NothingUntracked ==
  \A p \in born : (p \in resources) <=> (step[p] = "open")

(* When the config node and its runtime nodes have all reported that they  *)
(* are done, every resource they built before the config node closed is    *)
(* closed: a redeploy does not start beside the connections of the last.   *)
DoneMeansClosed ==
  /\ config = "closed"
  /\ \A p \in Runtime : host[p] \in {"new", "bare", "closed"}
  => \A p \in born \ after : step[p] = "closed"

(* The config node's close handler always answers Node-RED, and an error   *)
(* of one pair, which makes it answer early, keeps none of the others from *)
(* being closed.                                                           *)
ConfigAnswers ==
  config = "closing" ~>
    config \in {"closed", "failed"} /\ \A p \in walked : step[p] = "closed"

(* One answer for the whole config node: bullmq-otel is found or reported  *)
(* missing once, and whether it turns up or goes away later, or its client *)
(* cannot be constructed at first, either all resources share the client   *)
(* or none has one.                                                        *)
OneTelemetryClient ==
  /\ asked <= 1
  /\ \A p \in born \ Events : p \in traced <=> telemetry = "present"
=============================================================================
