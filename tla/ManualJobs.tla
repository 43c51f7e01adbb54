----------------------------- MODULE ManualJobs -----------------------------
(***************************************************************************)
(* Manual completion end to end: the processor of a bullmq run node, the   *)
(* handlers of the bullmq job nodes, the acknowledgement registry between  *)
(* them and, as far as bull-queue.js relies on them, BullMQ's workers and  *)
(* the backend that keeps the jobs and their locks.                        *)
(*                                                                         *)
(* An activation of a job by a worker is named by the element of Ack that  *)
(* its processor will register. The same element stands for the lock token *)
(* of that activation: BullMQ makes both anew for every activation.        *)
(*                                                                         *)
(* Handlers are split where they await: a moveToWait, moveToDelayed or     *)
(* rateLimit action is asked, answered by the backend, and resumed, and    *)
(* anything may happen in between.                                         *)
(***************************************************************************)
EXTENDS Acknowledgements

CONSTANTS Job,         \* jobs of the queue
          NoJob,       \* the job of an activation that did not happen yet
          NoAck,       \* the lock of a job that is not locked
          Concurrency, \* the worker concurrency of every run node
          Awaited,     \* the job-node actions that settle after an await
          FlowError,   \* the errors a flow fails a job with
          MaxCalls     \* bound: handlers suspended at one time

ASSUME NoJobAssumption == NoJob \notin Job
ASSUME NoAckAssumption == NoAck \notin Ack
ASSUME FlowErrorAssumption ==
  FlowError \subseteq {"failed", "unrecoverable", "rateLimit", "waiting",
                      "delayed"}
ASSUME AwaitedAssumption ==
  Awaited \subseteq {"rateLimit", "waiting", "delayed"}

Call == [ack : Ack, kind : Awaited, stage : {"asked", "granted", "refused"}]

VARIABLES
  runner,   \* the run node whose worker made the activation
  jobOf,    \* the job that was activated
  state,    \* state of each job in the backend
  lock,     \* the token that locks each job, NoAck when none does
  worker,   \* "running", "closing" or "closed" for each run node
  calls,    \* job-node handlers suspended in an await
  reported, \* activations whose outcome the worker has reported
  gone,     \* history: activations whose lock was given up or lapsed
  late,     \* history: activations whose processor began while closing
  forged    \* history: activations a flow failed with an error of a move

backendVars == <<state, lock, gone>>
workerVars == <<runner, jobOf, worker, reported, late, forged>>
jobsVars == <<vars, backendVars, workerVars, calls>>

Activations(r) == {a \in Ack : runner[a] = r}

JobsInit ==
  /\ Init
  /\ runner = [a \in Ack |-> NoNode]
  /\ jobOf = [a \in Ack |-> NoJob]
  /\ state = [j \in Job |-> "waiting"]
  /\ lock = [j \in Job |-> NoAck]
  /\ worker = [r \in RunNode |-> "running"]
  /\ calls = {}
  /\ reported = {}
  /\ gone = {}
  /\ late = {}
  /\ forged = {}
-----------------------------------------------------------------------------
(* BullMQ and its backend, as bull-queue.js uses them.                     *)

(* The backend gives job j and a fresh lock to a worker with a free slot.  *)
Fetch(r, j, a) ==
  /\ worker[r] = "running"
  /\ Cardinality(Activations(r) \ reported) < Concurrency[r]
  /\ state[j] = "waiting"
  /\ runner[a] = NoNode
  /\ runner' = [runner EXCEPT ![a] = r]
  /\ jobOf' = [jobOf EXCEPT ![a] = j]
  /\ state' = [state EXCEPT ![j] = "active"]
  /\ lock' = [lock EXCEPT ![j] = a]
  /\ UNCHANGED <<vars, worker, calls, reported, gone, late, forged>>

(* The lock of activation a is given up and its job goes to state s.       *)
Release(a, s) ==
  /\ state' = [state EXCEPT ![jobOf[a]] = s]
  /\ lock' = [lock EXCEPT ![jobOf[a]] = NoAck]
  /\ gone' = gone \cup {a}

(* Where a worker moves a job whose processor ended with settlement s: the *)
(* errors of moveToWait and moveToDelayed tell it that the job has been    *)
(* moved already; other failures are retried or not as the job's attempts  *)
(* say, except an unrecoverable one.                                       *)
Targets(s) ==
  CASE s.type = "resolve" -> {"completed"}
    [] s \in {Reject("waiting"), Reject("delayed")} -> {}
    [] s = Reject("rateLimit") -> {"waiting"}
    [] s = Reject("unrecoverable") -> {"failed"}
    [] OTHER -> {"waiting", "delayed", "failed"}

(* The worker reports the outcome of a processor; the backend accepts it   *)
(* only under the lock of that activation.                                 *)
Report(a) ==
  /\ processor[a] = "finished"
  /\ a \notin reported
  /\ worker[runner[a]] # "closed"
  /\ reported' = reported \cup {a}
  /\ IF lock[jobOf[a]] = a /\ Targets(result[a]) # {}
       THEN \E s \in Targets(result[a]) : Release(a, s)
       ELSE UNCHANGED backendVars
  /\ UNCHANGED <<vars, runner, jobOf, worker, calls, late, forged>>

(* A lock that was not renewed lapses and the stalled check requeues or    *)
(* fails the job.                                                          *)
Stall(j) ==
  /\ lock[j] # NoAck
  /\ \E s \in {"waiting", "failed"} : Release(lock[j], s)
  /\ UNCHANGED <<vars, workerVars, calls>>

(* A delayed job becomes due.                                              *)
Promote(j) ==
  /\ state[j] = "delayed"
  /\ state' = [state EXCEPT ![j] = "waiting"]
  /\ UNCHANGED <<vars, lock, gone, workerVars, calls>>
-----------------------------------------------------------------------------
(* The bullmq run node.                                                    *)

(* The processor of a manual run node starts: it registers an              *)
(* acknowledgement and sends the message that carries its id. A job that   *)
(* was being fetched when the node closed still gets here.                 *)
Process(a) ==
  /\ runner[a] # NoNode
  /\ worker[runner[a]] # "closed"
  /\ Create(a, runner[a])
  /\ late' = IF worker[runner[a]] = "closing" THEN late \cup {a} ELSE late
  /\ UNCHANGED <<backendVars, runner, jobOf, worker, reported, calls, forged>>

(* The processor goes on to await acknowledgement.entry.wait().            *)
Await(a) ==
  /\ Wait(a)
  /\ UNCHANGED <<backendVars, workerVars, calls>>

AckTimeout(a) ==
  /\ Timeout(a)
  /\ UNCHANGED <<backendVars, workerVars, calls>>

(* Defect: on close, the registry is emptied instead of rejected.          *)
CloseRunNodeByClearing(r) ==
  /\ worker[r] = "running"
  /\ worker' = [worker EXCEPT ![r] = "closing"]
  /\ entries' = {}
  /\ UNCHANGED <<owner, settlement, timer, listener, processor, result>>
  /\ UNCHANGED <<backendVars, runner, jobOf, reported, late, forged,
                 calls>>

(* Defect: the worker is closed without rejecting the acknowledgements.    *)
CloseRunNodeKeeping(r) ==
  /\ worker[r] = "running"
  /\ worker' = [worker EXCEPT ![r] = "closing"]
  /\ UNCHANGED <<vars, backendVars, runner, jobOf, reported, late, forged,
                 calls>>

(* on("close"): every acknowledgement of the node is rejected and, in the  *)
(* same turn of the event loop, the worker is told to close, after which   *)
(* it fetches no more jobs.                                                *)
CloseRunNode(r) ==
  /\ worker[r] = "running"
  /\ worker' = [worker EXCEPT ![r] = "closing"]
  /\ RejectByRunNode(r)
  /\ UNCHANGED <<backendVars, runner, jobOf, reported, late, forged,
                 calls>>

(* worker.close() returns when no activation of the worker is left...      *)
WorkerClosed(r) ==
  /\ worker[r] = "closing"
  /\ Activations(r) \subseteq reported
  /\ worker' = [worker EXCEPT ![r] = "closed"]
  /\ UNCHANGED <<vars, backendVars, runner, jobOf, reported, late, forged,
                 calls>>

(* ... or the close budget runs out and its connection is cut.             *)
ForceClose(r) ==
  /\ worker[r] = "closing"
  /\ ~ Activations(r) \subseteq reported
  /\ worker' = [worker EXCEPT ![r] = "closed"]
  /\ UNCHANGED <<vars, backendVars, runner, jobOf, reported, late, forged,
                 calls>>
-----------------------------------------------------------------------------
(* The bullmq job node. A message may bring any acknowledgement id that    *)
(* was sent, at any time and any number of times; get() refuses the ids    *)
(* that are no longer registered.                                          *)

JobComplete(a, v) ==
  /\ a \in entries
  /\ Complete(a, v)
  /\ UNCHANGED <<backendVars, workerVars, calls>>

(* fail hands an Error that the message carries to the processor as it is, *)
(* so a flow can fail its job with any error of BullMQ, those included by  *)
(* which the worker is told that the job has been moved.                   *)
JobFail(a, e) ==
  /\ a \in entries
  /\ Fail(a, e)
  /\ forged' = IF e \in {"waiting", "delayed"} THEN forged \cup {a} ELSE forged
  /\ UNCHANGED <<backendVars, runner, jobOf, worker, reported, late, calls>>

(* Defect: the acknowledgement is settled before the backend has answered. *)
AskAndSettle(a, k) ==
  /\ a \in entries
  /\ Cardinality(calls) < MaxCalls
  /\ calls' = calls \cup {[ack |-> a, kind |-> k, stage |-> "asked"]}
  /\ Fail(a, k)
  /\ UNCHANGED <<backendVars, workerVars>>

(* A rateLimit, moveToWait or moveToDelayed action looks its entry up,     *)
(* calls the backend and awaits the answer.                                *)
Ask(a, k) ==
  /\ a \in entries
  /\ Cardinality(calls) < MaxCalls
  /\ calls' = calls \cup {[ack |-> a, kind |-> k, stage |-> "asked"]}
  /\ UNCHANGED <<vars, backendVars, workerVars>>

(* The handler of call c has got its answer from the backend.              *)
Answered(c, stage) ==
  calls' = (calls \ {c}) \cup {[c EXCEPT !.stage = stage]}

(* Defect: the move is made under the lock the job has now, whoever's.     *)
GrantMoveOfJob(c) ==
  /\ c.stage = "asked" /\ c.kind # "rateLimit"
  /\ lock[jobOf[c.ack]] # NoAck
  /\ Release(c.ack, c.kind)
  /\ Answered(c, "granted")
  /\ UNCHANGED <<vars, workerVars>>

(* Defect: a rateLimit action is taken for a move, to a state of its name. *)
GrantMoveOfAnyKind(c) ==
  /\ c.stage = "asked"
  /\ lock[jobOf[c.ack]] = c.ack
  /\ Release(c.ack, c.kind)
  /\ \E stage \in {"granted", "refused"} : Answered(c, stage)
  /\ UNCHANGED <<vars, workerVars>>

(* The backend moves the job to waiting or delayed under the lock token of *)
(* the entry the handler looked up, if that token still locks the job. The *)
(* answer may get lost, which the handler cannot tell from a refusal.      *)
GrantMove(c) ==
  /\ c.stage = "asked" /\ c.kind # "rateLimit"
  /\ lock[jobOf[c.ack]] = c.ack
  /\ Release(c.ack, c.kind)
  /\ \E stage \in {"granted", "refused"} : Answered(c, stage)
  /\ UNCHANGED <<vars, workerVars>>

(* The backend limits the queue; that needs no lock.                       *)
GrantRateLimit(c) ==
  /\ c.stage = "asked" /\ c.kind = "rateLimit"
  /\ Answered(c, "granted")
  /\ UNCHANGED <<vars, backendVars, workerVars>>

(* The backend refuses, or the connection fails before it has answered.    *)
Refuse(c) ==
  /\ c.stage = "asked"
  /\ Answered(c, "refused")
  /\ UNCHANGED <<vars, backendVars, workerVars>>

(* Defect: the acknowledgement is settled although the call has thrown.    *)
ResumeAlwaysSettles(c) ==
  /\ c.stage # "asked"
  /\ Fail(c.ack, c.kind)
  /\ calls' = calls \ {c}
  /\ UNCHANGED <<backendVars, workerVars>>

(* The handler resumes: after a refusal the call throws and the entry is   *)
(* left alone, otherwise it is failed with the error the worker expects.   *)
Resume(c) ==
  /\ c.stage # "asked"
  /\ IF c.stage = "granted" THEN Fail(c.ack, c.kind) ELSE UNCHANGED vars
  /\ calls' = calls \ {c}
  /\ UNCHANGED <<backendVars, workerVars>>

(* worker.cancelJob() takes a job id: with two live activations of one job *)
(* on one worker it aborts one of them, not always the entry's own.        *)
Cancel(a) ==
  /\ a \in entries
  /\ \E b \in Activations(runner[a]) \cap listener :
       jobOf[b] = jobOf[a] /\ Abort({b})
  /\ UNCHANGED <<backendVars, workerVars, calls>>

CancelAll(a) ==
  /\ a \in entries
  /\ Abort(Activations(runner[a]) \cap listener)
  /\ UNCHANGED <<backendVars, workerVars, calls>>
-----------------------------------------------------------------------------
JobsNext ==
  \/ \E r \in RunNode, j \in Job, a \in Ack : Fetch(r, j, a)
  \/ \E a \in Ack : Report(a)
  \/ \E j \in Job : Stall(j)
  \/ \E j \in Job : Promote(j)
  \/ \E a \in Ack : Process(a)
  \/ \E a \in Ack : Await(a)
  \/ \E a \in Ack : AckTimeout(a)
  \/ \E r \in RunNode : CloseRunNode(r)
  \/ \E r \in RunNode : WorkerClosed(r)
  \/ \E r \in RunNode : ForceClose(r)
  \/ \E a \in Ack, v \in Value : JobComplete(a, v)
  \/ \E a \in Ack, e \in FlowError : JobFail(a, e)
  \/ \E a \in Ack, k \in Awaited : Ask(a, k)
  \/ \E c \in calls : GrantMove(c)
  \/ \E c \in calls : GrantRateLimit(c)
  \/ \E c \in calls : Refuse(c)
  \/ \E c \in calls : Resume(c)
  \/ \E a \in Ack : Cancel(a)
  \/ \E a \in Ack : CancelAll(a)

(* The event loop and the worker's own bookkeeping go on; flows, users and *)
(* the backend's answers owe nothing, and no close budget is relied on.    *)
JobsFairness ==
  /\ \A a \in Ack : /\ WF_jobsVars(Process(a))
                    /\ WF_jobsVars(Await(a))
                    /\ WF_jobsVars(AckTimeout(a))
                    /\ WF_jobsVars(Report(a))
  /\ \A r \in RunNode : WF_jobsVars(WorkerClosed(r))

JobsSafety == JobsInit /\ [][JobsNext]_jobsVars
JobsSpec == JobsSafety /\ JobsFairness
-----------------------------------------------------------------------------
(* Every variable stays in its range.                                      *)
JobsTypeOK ==
  /\ TypeOK
  /\ runner \in [Ack -> RunNode \cup {NoNode}]
  /\ jobOf \in [Ack -> Job \cup {NoJob}]
  /\ state \in [Job -> {"waiting", "delayed", "active", "completed", "failed"}]
  /\ lock \in [Job -> Ack \cup {NoAck}]
  /\ worker \in [RunNode -> {"running", "closing", "closed"}]
  /\ calls \subseteq Call
  /\ reported \subseteq Ack /\ gone \subseteq Ack /\ late \subseteq Ack
  /\ forged \subseteq Ack

(* An acknowledgement is settled with the errors that tell the worker "the *)
(* job has been moved already" only when the job has really left this      *)
(* activation, or when a flow handed over such an error itself: whatever   *)
(* the order of answers, timeouts and other messages, the moveToWait and   *)
(* moveToDelayed actions never tell the worker to leave alone a job that   *)
(* it still locks.                                                         *)
TransitionIsEarned ==
  \A a \in Ack :
    settlement[a] \in {Reject("waiting"), Reject("delayed")} =>
      a \in gone \cup forged

(* Once the worker has reported an activation, the job is no longer locked *)
(* by it: no path through timeouts, cancellation, moves, lost answers and  *)
(* closing leaves a job active with nobody working on it. The one way to   *)
(* do so is the flow's: to fail a job with an error that says it was moved.*)
NoOrphanedJob == \A j \in Job : lock[j] \notin reported \ forged

(* A job is taken from an activation only on that activation's own behalf  *)
(* (its report, its moveTo action, its lapsed lock): an old                *)
(* acknowledgement cannot take the job from the activation that has        *)
(* replaced it.                                                            *)
OnlyTheHolderMoves ==
  \A a \in Ack : runner[a] # NoNode /\ a \notin gone => lock[jobOf[a]] = a

(* The composition uses the registry as its specification says, so all     *)
(* that holds of the registry alone holds here.                            *)
RegistrySpec == Spec

(* A closing run node does not wait for its flow: its worker drains        *)
(* without the forced close, unless a job that was still being fetched     *)
(* registered an acknowledgement after the node had rejected them all.     *)
CloseDrains ==
  \A r \in RunNode :
    worker[r] = "closing" ~>
      (worker[r] = "closed" \/ Activations(r) \cap late # {})

(* An activation by a run node with a timeout is reported in the end, or   *)
(* its worker is closed: no flow can keep a worker slot for ever.          *)
TimedActivationsEnd ==
  \A a \in Ack, r \in Timed :
    runner[a] = r ~> (a \in reported \/ worker[r] = "closed")
=============================================================================
