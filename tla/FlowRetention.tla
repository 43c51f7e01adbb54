---------------------------- MODULE FlowRetention ----------------------------
(***************************************************************************)
(* How the bullmq flow node lets the config node's retention (how many     *)
(* finished jobs to keep) reach every job of a flow tree. A single tree is *)
(* given to FlowProducer.add() with options per queue, collected by        *)
(* withFlowJobDefaults(); an array of trees is given to addBulk(), which   *)
(* takes no options, so withBulkFlowJobDefaults() stamps them onto jobs.   *)
(*                                                                         *)
(* Both walk the tree. The order of the walk is left open here: the stack  *)
(* of the one and the recursion of the other are two of the orders.        *)
(***************************************************************************)
CONSTANTS Job, Root, Children,  \* a flow tree
          Queue, QueueOf,       \* the queue each job names
          Field,                \* removeOnComplete, removeOnFail
          Count,                \* how many jobs to keep: numbers
          Blank                 \* a setting that is left blank

None == [f \in {} |-> Blank]
Options == UNION {[F -> Count] : F \in SUBSET Field}
PerQueue == UNION {[Q -> Options] : Q \in SUBSET Queue}

ASSUME TreeAssumption ==
  /\ Root \in Job
  /\ Children \in [Job -> SUBSET Job]
  /\ \A S \in SUBSET Job :
       Root \in S /\ (\A j \in S : Children[j] \subseteq S) => S = Job
ASSUME QueueAssumption == QueueOf \in [Job -> Queue]
ASSUME BlankAssumption == Blank \notin Count

VARIABLES
  config,        \* input: the config node's retention fields
  path,          \* input: "single" tree or "bulk" array
  flowopts,      \* input: msg.flowopts.queuesOptions, the job defaults in it
  own,           \* input: opts of each job of the tree
  pending,       \* jobs the walk has still to visit
  visited,       \* history: jobs it has visited
  queuesOptions, \* job defaults per queue, for FlowProducer.add()
  opts           \* opts of each job as they are handed over

inputs == <<config, path, flowopts, own>>
flowVars == <<inputs, pending, visited, queuesOptions, opts>>
-----------------------------------------------------------------------------
(* {...a, ...b}: what b sets wins.                                         *)
Merge(a, b) ==
  [f \in DOMAIN a \cup DOMAIN b |-> IF f \in DOMAIN b THEN b[f] ELSE a[f]]

(* Defect: a blank field is handed on.                                     *)
DefaultsFromBlank(c) == [f \in Field |-> c[f]]

(* A blank field sets nothing: BullMQ then keeps every job.                *)
BuildDefaultJobOptions(c) ==
  LET set == {f \in Field : c[f] # Blank} IN [f \in set |-> c[f]]

Retention == BuildDefaultJobOptions(config)

JobDefaults(options, q) == IF q \in DOMAIN options THEN options[q] ELSE None

FlowInit ==
  /\ pending = IF Retention = None THEN {} ELSE {Root}
  /\ visited = {}
  /\ queuesOptions = flowopts
  /\ opts = own

(* Defect: the children are not walked.                                    *)
LeaveChildren(j) ==
  /\ pending' = pending \ {j}
  /\ visited' = visited \cup {j}
  /\ UNCHANGED inputs

Walk(j) ==
  /\ pending' = (pending \ {j}) \cup Children[j]
  /\ visited' = visited \cup {j}
  /\ UNCHANGED inputs

(* withFlowJobDefaults() adds the retention below the job defaults its     *)
(* caller has set for the job's queue.                                     *)
VisitSingle(j) ==
  /\ path = "single" /\ j \in pending
  /\ LET q == QueueOf[j] IN
       queuesOptions' =
         [r \in DOMAIN queuesOptions \cup {q} |->
            IF r = q THEN Merge(Retention, JobDefaults(queuesOptions, q))
            ELSE queuesOptions[r]]
  /\ Walk(j)
  /\ UNCHANGED opts

(* withBulkFlowJobDefaults() adds the retention below the job's own opts.  *)
VisitBulk(j) ==
  /\ path = "bulk" /\ j \in pending
  /\ opts' = [opts EXCEPT ![j] = Merge(Retention, opts[j])]
  /\ Walk(j)
  /\ UNCHANGED queuesOptions

FlowNext == \E j \in Job : VisitSingle(j) \/ VisitBulk(j)

(* What FlowProducer makes of them: add() puts a queue's job defaults      *)
(* below a job's opts, addBulk() has nothing but the opts.                 *)
Effective(j) ==
  IF path = "single"
  THEN Merge(JobDefaults(queuesOptions, QueueOf[j]), opts[j])
  ELSE opts[j]
-----------------------------------------------------------------------------
Settings == [Field -> Count \cup {Blank}]

(* Whatever the settings and the message are, the walk starts from them.   *)
Inputs ==
  /\ config \in Settings /\ path \in {"single", "bulk"}
  /\ flowopts \in PerQueue /\ own \in [Job -> Options]

FlowSpec == Inputs /\ FlowInit /\ [][FlowNext]_flowVars

(* Settings and options stay options: a blank field never becomes a value. *)
FlowTypeOK ==
  /\ Inputs
  /\ pending \subseteq Job /\ visited \subseteq Job
  /\ queuesOptions \in PerQueue
  /\ opts \in [Job -> Options]

(* NODE_GUIDE.md's order of precedence for every job, however deep in the  *)
(* tree: its own opts, then what the message sets for its queue (which     *)
(* does not apply to an array), then the config node's retention.          *)
RetentionInOrder ==
  pending = {} =>
    \A j \in Job :
      LET asked == IF path = "single"
                   THEN JobDefaults(flowopts, QueueOf[j]) ELSE None
      IN  Effective(j) = Merge(Merge(Retention, asked), own[j])
=============================================================================
