---------------------------- MODULE StopAndRemove ----------------------------
(***************************************************************************)
(* The cmd node's stopAndRemoveAllJobs: eight or more calls to the queue,  *)
(* each of them atomic in the datastore, with an await between any two in  *)
(* which producers, workers, job schedulers and other cmd nodes go on. Any *)
(* call may reject; the command then ends with part of its work done, and  *)
(* the flow may send it again.                                             *)
(***************************************************************************)
EXTENDS Naturals

CONSTANTS Job, Scheduler,
          SchedulerOf,  \* the scheduler a job is an iteration of, or None
          None,
          MaxRuns       \* bound: how often the command is sent

ASSUME SchedulerAssumption ==
  None \notin Scheduler /\ SchedulerOf \in [Job -> Scheduler \cup {None}]
ASSUME MaxRunsAssumption == MaxRuns \in Nat

VARIABLES
  state,      \* the state of each job in the queue
  schedulers, \* the job schedulers of the queue
  phase,      \* the call that the command makes next
  listed,     \* the schedulers it has still to remove
  fresh,      \* history: schedulers upserted since the command began
  excused,    \* history: jobs that were active, or came, since it began
  raised,     \* history: jobs given a priority after its drain
  runs        \* how often the command was sent

storeVars == <<state, schedulers>>
commandVars == <<phase, listed, runs>>
historyVars == <<fresh, excused, raised>>
stopVars == <<storeVars, commandVars, historyVars>>

Waiting == {"wait", "delayed", "prioritized"}
States == Waiting \cup {"absent", "active", "completed", "failed",
                        "waiting-children"}
CLEAN_STATES == {"completed", "failed", "delayed", "wait"}
Phases == {"idle", "list", "remove", "drain", "done", "rejected"}
            \cup CLEAN_STATES

InState(s) == {j \in Job : state[j] = s}

(* A queue as producers, workers and flows may have left it.               *)
StopInit ==
  /\ state \in [Job -> {"absent", "prioritized", "delayed", "failed",
                        "waiting-children"}]
  /\ schedulers \in SUBSET Scheduler
  /\ phase = "idle"
  /\ listed = {}
  /\ fresh = {}
  /\ excused = {}
  /\ raised = {}
  /\ runs = 0
-----------------------------------------------------------------------------
(* dispatchStopAndRemoveAllJobs()                                          *)
Command ==
  /\ phase \in {"idle", "done", "rejected"} /\ runs < MaxRuns
  /\ phase' = "list"
  /\ runs' = runs + 1
  /\ fresh' = {}
  /\ excused' = InState("active") \cup InState("waiting-children")
  /\ raised' = {}
  /\ UNCHANGED <<storeVars, listed>>

(* getJobSchedulers(0, -1, true): all of them, as of now.                  *)
List ==
  /\ phase = "list"
  /\ listed' = schedulers
  /\ phase' = "remove"
  /\ UNCHANGED <<storeVars, historyVars, runs>>

(* Defect: clean() is trusted with everything that waits.                  *)
SkipDrain ==
  /\ phase = "drain"
  /\ phase' = "completed"
  /\ UNCHANGED <<storeVars, listed, historyVars, runs>>

(* removeJobScheduler(id), together with the iteration that is due next;   *)
(* one that is gone already is not an error.                               *)
Remove(s) ==
  /\ phase = "remove" /\ s \in listed
  /\ listed' = listed \ {s}
  /\ schedulers' = schedulers \ {s}
  /\ state' = [j \in Job |-> IF SchedulerOf[j] = s /\ state[j] = "delayed"
                             THEN "absent" ELSE state[j]]
  /\ UNCHANGED <<phase, historyVars, runs>>

(* Defect: the removals are not awaited.                                   *)
RemoveWithoutAwait ==
  /\ phase = "remove"
  /\ phase' = "drain"
  /\ UNCHANGED <<storeVars, listed, historyVars, runs>>

AllRemoved ==
  /\ phase = "remove" /\ listed = {}
  /\ phase' = "drain"
  /\ UNCHANGED <<storeVars, listed, historyVars, runs>>

(* drain(true): whatever waits for a worker, delayed jobs included.        *)
Drain ==
  /\ phase = "drain"
  /\ state' = [j \in Job |-> IF state[j] \in Waiting THEN "absent"
                             ELSE state[j]]
  /\ phase' = "completed"
  /\ UNCHANGED <<schedulers, listed, historyVars, runs>>

(* The order of CLEAN_STATES, and its end.                                 *)
After(s) == CASE s = "completed" -> "failed"
              [] s = "failed" -> "delayed"
              [] s = "delayed" -> "wait"
              [] s = "wait" -> "done"

(* clean(0, 0, state): every job in that state, whatever its age.          *)
Clean ==
  /\ phase \in CLEAN_STATES
  /\ state' = [j \in Job |-> IF state[j] = phase THEN "absent" ELSE state[j]]
  /\ phase' = After(phase)
  /\ UNCHANGED <<schedulers, listed, historyVars, runs>>

(* A call rejects: dispatchCommand() does, too, and nothing is undone.     *)
Reject ==
  /\ phase \notin {"idle", "done", "rejected"}
  /\ phase' = "rejected"
  /\ listed' = {}
  /\ UNCHANGED <<storeVars, historyVars, runs>>
-----------------------------------------------------------------------------
(* Meanwhile others use the queue, jobs by the side of the command. Not    *)
(* modelled: changeDelay, which leaves a delayed job delayed, and pause,   *)
(* which only keeps workers from taking jobs ("BullMQ v6 removed the       *)
(* paused job state").                                                     *)

Moves(j, s) ==
  /\ state' = [state EXCEPT ![j] = s]
  /\ UNCHANGED <<schedulers, commandVars, fresh>>

(* A producer adds a job, or a parent with children in other queues;       *)
Add(j) ==
  /\ state[j] = "absent" /\ SchedulerOf[j] = None
  /\ excused' = excused \cup {j}
  /\ UNCHANGED raised
  /\ \E s \in Waiting \cup {"waiting-children"} : Moves(j, s)

(* a scheduler, or the worker that takes one iteration, adds the next;     *)
Iterate(j) ==
  /\ state[j] = "absent" /\ SchedulerOf[j] \in schedulers
  /\ excused' = IF SchedulerOf[j] \in fresh THEN excused \cup {j} ELSE excused
  /\ UNCHANGED raised
  /\ \E s \in {"delayed", "wait"} : Moves(j, s)

(* a worker takes a job;                                                   *)
Take(j) ==
  /\ state[j] \in {"wait", "prioritized"}
  /\ excused' = excused \cup {j}
  /\ UNCHANGED raised
  /\ Moves(j, "active")

(* a worker finishes with a job, for now or for good;                      *)
Finish(j) ==
  /\ state[j] = "active"
  /\ UNCHANGED <<excused, raised>>
  /\ \E s \in Waiting \cup {"completed", "failed", "waiting-children"} :
       Moves(j, s)

(* a delay ends, or promoteJob;                                            *)
Promote(j) ==
  /\ state[j] = "delayed"
  /\ UNCHANGED <<excused, raised>>
  /\ \E s \in {"wait", "prioritized"} : Moves(j, s)

(* retryJob and retryJobs;                                                 *)
Retry(j) ==
  /\ state[j] \in {"completed", "failed"}
  /\ UNCHANGED <<excused, raised>>
  /\ Moves(j, "wait")

(* changePriority, to a priority or to none;                               *)
Prioritize(j) ==
  /\ state[j] = "wait"
  /\ raised' = IF phase \in CLEAN_STATES THEN raised \cup {j} ELSE raised
  /\ UNCHANGED excused
  /\ Moves(j, "prioritized")

Unprioritize(j) ==
  /\ state[j] = "prioritized"
  /\ UNCHANGED <<excused, raised>>
  /\ Moves(j, "wait")

(* removeJob, or the retention of a queue that removes finished jobs;      *)
Vanish(j) ==
  /\ state[j] \notin {"absent", "active"}
  /\ UNCHANGED <<excused, raised>>
  /\ Moves(j, "absent")

(* the children of a parent finish;                                        *)
ChildrenDone(j) ==
  /\ state[j] = "waiting-children"
  /\ UNCHANGED <<excused, raised>>
  /\ Moves(j, "wait")

(* upsertJobScheduler and removeJobScheduler.                              *)
Upsert(s) ==
  /\ schedulers' = schedulers \cup {s}
  /\ fresh' = fresh \cup {s}
  /\ UNCHANGED <<state, commandVars, excused, raised>>

Unschedule(s) ==
  /\ s \in schedulers
  /\ schedulers' = schedulers \ {s}
  /\ UNCHANGED <<state, commandVars, historyVars>>

Others(j) ==
  \/ Add(j)
  \/ Iterate(j)
  \/ Take(j)
  \/ Finish(j)
  \/ Promote(j)
  \/ Retry(j)
  \/ Prioritize(j)
  \/ Unprioritize(j)
  \/ Vanish(j)
  \/ ChildrenDone(j)

StopNext ==
  \/ Command
  \/ List
  \/ \E s \in Scheduler : Remove(s) \/ Upsert(s) \/ Unschedule(s)
  \/ AllRemoved
  \/ Drain
  \/ Clean
  \/ Reject
  \/ \E j \in Job : Others(j)

StopSpec == StopInit /\ [][StopNext]_stopVars
-----------------------------------------------------------------------------
(* Jobs are in BullMQ's states and the command makes the calls it has; in  *)
(* particular it goes on only when no listed scheduler is left.            *)
StopTypeOK ==
  /\ state \in [Job -> States]
  /\ schedulers \subseteq Scheduler /\ listed \subseteq Scheduler
  /\ phase \in Phases
  /\ fresh \subseteq Scheduler
  /\ excused \subseteq Job /\ raised \subseteq Job
  /\ runs \in 0..MaxRuns
  /\ phase # "remove" => listed = {}

(* When the command has finished, no scheduler survives that was not       *)
(* upserted while it ran. Of the jobs that were there before, or that an   *)
(* old scheduler has added meanwhile, only two kinds survive: those that   *)
(* were active (or waiting for their children) in between, which           *)
(* COMMANDS.md does not promise to remove, and those that changePriority   *)
(* has moved to "prioritized" after the drain, although it says that the   *)
(* command "drains waiting/delayed jobs, and cleans inactive states":      *)
(* CLEAN_STATES leaves that state out, so an old failed job that is        *)
(* retried and given a priority between the calls stays.                   *)
NothingOldSurvives ==
  phase = "done" =>
    /\ schedulers \subseteq fresh
    /\ {j \in Job : state[j] # "absent"} \subseteq excused \cup raised
=============================================================================
