-------------------------- MODULE ManualJobs_proofs --------------------------
(***************************************************************************)
(* Proofs about manual completion, for any sets of jobs, activations and   *)
(* run nodes, any concurrency and any number of suspended handlers.        *)
(***************************************************************************)
EXTENDS ManualJobs, Acknowledgements_proofs

(* Only an activation that happened is acknowledged, reported or released. *)
Activated ==
  \A a \in Ack :
    /\ (runner[a] = NoNode) <=> (jobOf[a] = NoJob)
    /\ runner[a] = NoNode => a \notin created /\ a \notin gone
                             /\ a \notin reported

(* A lock belongs to an activation of its job that has not released it,    *)
(* and exactly the active jobs are locked.                                 *)
Locks ==
  \A j \in Job :
    /\ lock[j] # NoAck => jobOf[lock[j]] = j /\ lock[j] \notin gone
    /\ (state[j] = "active") <=> (lock[j] # NoAck)

(* A suspended handler whose move was granted has released the job.        *)
GrantsRelease ==
  \A c \in calls :
    /\ c.ack \in created
    /\ c.stage = "granted" /\ c.kind # "rateLimit" => c.ack \in gone

(* A reported activation has released its job, unless its flow had said    *)
(* in the job node's place that the job was moved.                         *)
ReportedAreGone == reported \subseteq gone \cup forged

JInv ==
  /\ JobsTypeOK
  /\ IInv
  /\ Activated
  /\ Locks
  /\ OnlyTheHolderMoves
  /\ GrantsRelease
  /\ TransitionIsEarned
  /\ ReportedAreGone

Moved == {Reject("waiting"), Reject("delayed")}
-----------------------------------------------------------------------------
(* The worker does nothing about an outcome only if it was told that the   *)
(* job has been moved.                                                     *)
LEMMA TargetsOfOutcomes ==
  ASSUME NEW s \in Settlement
  PROVE  /\ Targets(s) \subseteq {"completed", "waiting", "delayed", "failed"}
         /\ Targets(s) = {} => s \in Moved
<1>1. CASE s.type = "resolve"
  <2>1. s \notin Moved /\ s # Reject("rateLimit") /\ s # Reject("unrecoverable")
    BY <1>1 DEF Moved, Reject
  <2>2. Targets(s) = {"completed"}
    BY <1>1, <2>1 DEF Targets, Moved
  <2> QED BY <2>2
<1>2. CASE s.type # "resolve" /\ s \in Moved
  <2>1. s # Reject("rateLimit") /\ s # Reject("unrecoverable")
    BY <1>2 DEF Moved, Reject
  <2>2. Targets(s) = {}
    BY <1>2, <2>1 DEF Targets, Moved
  <2> QED BY <1>2, <2>2
<1>3. CASE s.type # "resolve" /\ s = Reject("rateLimit")
  <2>1. s \notin Moved /\ s # Reject("unrecoverable")
    BY <1>3 DEF Moved, Reject
  <2>2. Targets(s) = {"waiting"}
    BY <1>3, <2>1 DEF Targets, Moved
  <2> QED BY <2>2
<1>4. CASE s.type # "resolve" /\ s = Reject("unrecoverable")
  <2>1. s \notin Moved /\ s # Reject("rateLimit")
    BY <1>4 DEF Moved, Reject
  <2>2. Targets(s) = {"failed"}
    BY <1>4, <2>1 DEF Targets, Moved
  <2> QED BY <2>2
<1>5. CASE /\ s.type # "resolve" /\ s \notin Moved
           /\ s # Reject("rateLimit") /\ s # Reject("unrecoverable")
  <2>1. Targets(s) = {"waiting", "delayed", "failed"}
    BY <1>5 DEF Targets, Moved
  <2> QED BY <2>1
<1> QED BY <1>1, <1>2, <1>3, <1>4, <1>5

(* Settlements that do not say "moved" keep TransitionIsEarned; so do      *)
(* those that do, of activations that have released their job or whose     *)
(* flow said so.                                                           *)
LEMMA SettleKeepsEarned ==
  ASSUME TransitionIsEarned, gone' = gone, forged \subseteq forged',
         NEW S, NEW s,
         s \in Moved => S \subseteq gone \cup forged', Settle(S, s)
  PROVE  TransitionIsEarned'
<1>1. \A a \in Ack : \/ settlement'[a] = settlement[a]
                     \/ a \in S /\ settlement'[a] = s
  BY DEF Settle, Settling
<1> QED BY <1>1 DEF TransitionIsEarned, Moved

(* The errors with which the registry and the nodes settle on their own    *)
(* account do not say "moved".                                             *)
LEMMA OtherErrors ==
  /\ \A e \in {"failed", "unrecoverable", "rateLimit", "timeout", "aborted",
               "closed"} : Reject(e) \notin Moved
  /\ \A v \in Value : Resolve(v) \notin Moved
<1>1. \A e, f : Reject(e) = Reject(f) => Reject(e).error = Reject(f).error
  OBVIOUS
<1>2. \A e : Reject(e).error = e /\ Reject(e).type = "reject"
  BY DEF Reject
<1>3. \A v : Resolve(v).type = "resolve"
  BY DEF Resolve
<1> QED BY <1>1, <1>2, <1>3 DEF Moved
-----------------------------------------------------------------------------
(* What the composition does to the registry is a step of the registry.    *)
LEMMA StepOfRegistry ==
  ASSUME JobsTypeOK, [JobsNext]_jobsVars
  PROVE  [Next]_vars
<1>1. CASE UNCHANGED jobsVars
  BY <1>1 DEF jobsVars, vars
<1>2. ASSUME NEW a \in Ack, Process(a) PROVE Next
  <2>1. runner[a] \in RunNode
    BY <1>2 DEF Process, JobsTypeOK
  <2> QED BY <1>2, <2>1 DEF Process, Next
<1>3. ASSUME NEW a \in Ack, Await(a) \/ AckTimeout(a) PROVE Next
  BY <1>3 DEF Await, AckTimeout, Next
<1>4. ASSUME NEW r \in RunNode, CloseRunNode(r) PROVE Next
  BY <1>4 DEF CloseRunNode, Next
<1>5. ASSUME NEW a \in Ack, NEW v \in Value, JobComplete(a, v) PROVE Next
  BY <1>5 DEF JobComplete, Next
<1>6. ASSUME NEW a \in Ack, NEW e \in FlowError, JobFail(a, e) PROVE Next
  BY <1>6, FlowErrorAssumption DEF JobFail, Next
<1>7. ASSUME NEW c \in calls, Resume(c) PROVE Next \/ UNCHANGED vars
  <2>1. c.ack \in Ack /\ c.kind \in {"rateLimit", "waiting", "delayed"}
    BY AwaitedAssumption DEF JobsTypeOK, Call
  <2> QED BY <1>7, <2>1 DEF Resume, Next
<1>8. ASSUME NEW a \in Ack, Cancel(a) PROVE Next
  <2>1. PICK b \in Activations(runner[a]) : Abort({b})
    BY <1>8 DEF Cancel
  <2>2. {b} \in SUBSET Ack
    BY DEF Activations
  <2> QED BY <2>1, <2>2 DEF Next
<1>9. ASSUME NEW a \in Ack, CancelAll(a) PROVE Next
  <2>1. Activations(runner[a]) \cap listener \in SUBSET Ack
    BY DEF Activations
  <2> QED BY <1>9, <2>1 DEF CancelAll, Next
<1>10. ASSUME NEW a \in Ack, Report(a) \/ \E k \in Awaited : Ask(a, k)
       PROVE  UNCHANGED vars
  BY <1>10 DEF Report, Ask
<1>11. ASSUME NEW j \in Job,
              \/ Stall(j) \/ Promote(j)
              \/ \E r \in RunNode, a \in Ack : Fetch(r, j, a)
       PROVE  UNCHANGED vars
  BY <1>11 DEF Fetch, Stall, Promote
<1>12. ASSUME NEW r \in RunNode, WorkerClosed(r) \/ ForceClose(r)
       PROVE  UNCHANGED vars
  BY <1>12 DEF WorkerClosed, ForceClose
<1>13. ASSUME NEW c \in calls,
              GrantMove(c) \/ GrantRateLimit(c) \/ Refuse(c)
       PROVE  UNCHANGED vars
  BY <1>13 DEF GrantMove, GrantRateLimit, Refuse
<1> QED BY <1>1, <1>2, <1>3, <1>4, <1>5, <1>6, <1>7, <1>8, <1>9, <1>10,
           <1>11, <1>12, <1>13 DEF JobsNext
-----------------------------------------------------------------------------
(* The initial state satisfies the invariant.                              *)
LEMMA InitJInv == JobsInit => JInv
<1> SUFFICES ASSUME JobsInit PROVE JInv
  OBVIOUS
<1>1. IInv /\ created = {}
  BY InitIInv DEF JobsInit, Init, created
<1>2. JobsTypeOK
  BY <1>1 DEF JobsInit, JobsTypeOK, IInv
<1>3. Activated /\ GrantsRelease /\ ReportedAreGone
  BY <1>1 DEF JobsInit, Activated, GrantsRelease, ReportedAreGone
<1>4. Locks /\ OnlyTheHolderMoves
  BY DEF JobsInit, Locks, OnlyTheHolderMoves
<1>5. TransitionIsEarned
  BY DEF JobsInit, Init, TransitionIsEarned, Pending, Reject
<1> QED BY <1>1, <1>2, <1>3, <1>4, <1>5 DEF JInv

(* An activation that releases its job, with whatever else a handler does  *)
(* to its own suspension, keeps locks and activations in order.            *)
LEMMA ReleaseKeepsOrder ==
  ASSUME JInv, NEW a \in Ack, NEW s, s # "active",
         jobOf[a] \in Job, lock[jobOf[a]] = a, Release(a, s),
         UNCHANGED <<runner, jobOf>>
  PROVE  Locks' /\ OnlyTheHolderMoves'
<1>1. runner[a] # NoNode
  BY NoJobAssumption DEF JInv, Activated
<1>2. \A j \in Job : /\ lock'[j] = IF j = jobOf[a] THEN NoAck ELSE lock[j]
                     /\ state'[j] = IF j = jobOf[a] THEN s ELSE state[j]
  BY DEF Release, JInv, JobsTypeOK
<1>3. gone' = gone \cup {a}
  BY DEF Release
<1>4. \A j \in Job : lock[j] = a => j = jobOf[a]
  BY NoAckAssumption DEF JInv, Locks
<1>5. Locks'
  BY <1>2, <1>3, <1>4 DEF JInv, Locks
<1>6. ASSUME NEW b \in Ack, runner[b] # NoNode, b \notin gone'
      PROVE  lock'[jobOf[b]] = b
  <2>1. lock[jobOf[b]] = b /\ b # a
    BY <1>3, <1>6 DEF JInv, OnlyTheHolderMoves
  <2>2. jobOf[b] \in Job
    BY <1>6 DEF JInv, Activated, JobsTypeOK
  <2> QED BY <1>2, <2>1, <2>2
<1>7. OnlyTheHolderMoves'
  BY <1>6 DEF OnlyTheHolderMoves
<1> QED BY <1>5, <1>7

(* An activation takes a waiting job, which nobody has locked.             *)
LEMMA FetchKeepsJInv ==
  ASSUME JInv, NEW r \in RunNode, NEW j \in Job, NEW a \in Ack,
         Fetch(r, j, a), IInv'
  PROVE  JInv'
<1>1. r # NoNode /\ j # NoJob /\ a # NoAck
  BY NoNodeAssumption, NoJobAssumption, NoAckAssumption
<1>2. lock[j] = NoAck
  BY DEF JInv, Locks, Fetch
<1>3. a \notin created /\ a \notin gone /\ a \notin reported /\ jobOf[a] = NoJob
  BY DEF JInv, Activated, Fetch
<1>4. created' = created
  BY DEF Fetch, vars, created
<1>5. /\ \A b \in Ack : /\ runner'[b] = IF b = a THEN r ELSE runner[b]
                        /\ jobOf'[b] = IF b = a THEN j ELSE jobOf[b]
      /\ \A i \in Job : /\ lock'[i] = IF i = j THEN a ELSE lock[i]
                        /\ state'[i] = IF i = j THEN "active" ELSE state[i]
      /\ gone' = gone /\ reported' = reported /\ calls' = calls
      /\ settlement' = settlement /\ forged' = forged
  BY DEF Fetch, JInv, JobsTypeOK, vars
<1>6. JobsTypeOK'
  <2>1. TypeOK'
    BY DEF IInv
  <2>2. /\ runner' \in [Ack -> RunNode \cup {NoNode}]
        /\ jobOf' \in [Ack -> Job \cup {NoJob}]
    BY DEF JInv, JobsTypeOK, Fetch
  <2>3. /\ state' \in [Job -> {"waiting", "delayed", "active", "completed",
                                "failed"}]
        /\ lock' \in [Job -> Ack \cup {NoAck}]
    BY DEF JInv, JobsTypeOK, Fetch
  <2> QED BY <2>1, <2>2, <2>3 DEF JInv, JobsTypeOK, Fetch
<1>7. Activated'
  BY <1>1, <1>3, <1>4, <1>5 DEF JInv, Activated
<1>8. Locks'
  <2>1. \A i \in Job : i # j /\ lock[i] # NoAck => lock[i] # a
    BY <1>1, <1>3, NoJobAssumption DEF JInv, Locks
  <2>2. \A i \in Job : lock[i] \in Ack \cup {NoAck}
    BY DEF JInv, JobsTypeOK
  <2> QED BY <1>1, <1>3, <1>5, <2>1, <2>2 DEF JInv, Locks
<1>9. OnlyTheHolderMoves'
  <2>1. ASSUME NEW b \in Ack, runner'[b] # NoNode, b \notin gone'
        PROVE  lock'[jobOf'[b]] = b
    <3>1. CASE b = a
      BY <1>5, <3>1
    <3>2. CASE b # a
      <4>1. lock[jobOf[b]] = b /\ jobOf[b] \in Job
        BY <1>5, <2>1, <3>2
           DEF JInv, OnlyTheHolderMoves, Activated, JobsTypeOK
      <4>2. jobOf[b] # j
        BY <1>2, <4>1, NoAckAssumption
      <4> QED BY <1>5, <3>2, <4>1, <4>2
    <3> QED BY <3>1, <3>2
  <2> QED BY <2>1 DEF OnlyTheHolderMoves
<1>10. GrantsRelease' /\ TransitionIsEarned' /\ ReportedAreGone'
  BY <1>4, <1>5
     DEF JInv, GrantsRelease, TransitionIsEarned, ReportedAreGone
<1> QED BY <1>6, <1>7, <1>8, <1>9, <1>10 DEF JInv

(* The worker releases the job unless it was told that the job has been    *)
(* moved, or somebody else holds it already: either way it is gone, unless *)
(* it was the flow that told.                                              *)
LEMMA ReportKeepsJInv ==
  ASSUME JInv, NEW a \in Ack, Report(a), IInv'
  PROVE  JInv'
<1>1. result[a] = settlement[a] /\ result[a] \in Settlement /\ a \in created
  BY DEF JInv, IInv, Coherent, TypeOK, Report
<1>2. runner[a] # NoNode /\ jobOf[a] \in Job
  BY <1>1 DEF JInv, Activated, JobsTypeOK
<1>3. created' = created /\ settlement' = settlement
  BY DEF Report, vars, created
<1>4. CASE lock[jobOf[a]] = a /\ Targets(result[a]) # {}
  <2>1. PICK s \in Targets(result[a]) : Release(a, s)
    BY <1>4 DEF Report
  <2>2. s \in {"completed", "waiting", "delayed", "failed"}
    BY <1>1, TargetsOfOutcomes
  <2>3. gone' = gone \cup {a} /\ reported' = reported \cup {a}
    BY <2>1 DEF Release, Report
  <2>4. Locks' /\ OnlyTheHolderMoves'
    BY <1>2, <1>4, <2>1, <2>2, ReleaseKeepsOrder DEF Report
  <2>5. /\ state' \in [Job -> {"waiting", "delayed", "active", "completed",
                                "failed"}]
        /\ lock' \in [Job -> Ack \cup {NoAck}]
    BY <2>1, <2>2 DEF Release, JInv, JobsTypeOK
  <2>6. JobsTypeOK'
    BY <2>3, <2>5 DEF JInv, JobsTypeOK, Report, IInv
  <2>7. Activated' /\ GrantsRelease' /\ TransitionIsEarned'
        /\ ReportedAreGone'
    BY <1>2, <1>3, <2>3 DEF JInv, Activated, GrantsRelease,
                            TransitionIsEarned, ReportedAreGone, Report
  <2> QED BY <2>4, <2>6, <2>7 DEF JInv
<1>5. CASE ~ (lock[jobOf[a]] = a /\ Targets(result[a]) # {})
  <2>1. UNCHANGED backendVars /\ reported' = reported \cup {a}
    BY <1>5 DEF Report
  <2>2. a \in gone \cup forged
    <3>1. CASE lock[jobOf[a]] # a
      BY <1>2, <3>1 DEF JInv, OnlyTheHolderMoves
    <3>2. CASE Targets(result[a]) = {}
      BY <1>1, <3>2, TargetsOfOutcomes DEF JInv, TransitionIsEarned, Moved
    <3> QED BY <1>5, <3>1, <3>2
  <2>3. JobsTypeOK'
    BY <2>1 DEF JInv, JobsTypeOK, Report, IInv, backendVars
  <2>4. Activated' /\ GrantsRelease' /\ TransitionIsEarned'
        /\ ReportedAreGone'
    BY <1>2, <1>3, <2>1, <2>2
       DEF JInv, Activated, GrantsRelease, TransitionIsEarned,
           ReportedAreGone, Report, backendVars
  <2>5. Locks' /\ OnlyTheHolderMoves'
    BY <2>1 DEF JInv, Locks, OnlyTheHolderMoves, Report, backendVars
  <2> QED BY <2>3, <2>4, <2>5 DEF JInv
<1> QED BY <1>4, <1>5

(* A lapsed lock takes the job from its holder.                            *)
LEMMA StallKeepsJInv ==
  ASSUME JInv, NEW j \in Job, Stall(j), IInv'
  PROVE  JInv'
<1>1. PICK s \in {"waiting", "failed"} : Release(lock[j], s)
  BY DEF Stall
<1>2. lock[j] \in Ack /\ jobOf[lock[j]] = j
  BY DEF Stall, JInv, JobsTypeOK, Locks
<1>3. UNCHANGED <<vars, workerVars, calls>> /\ created' = created
  BY DEF Stall, vars, created
<1>4. Locks' /\ OnlyTheHolderMoves'
  BY <1>1, <1>2, <1>3, ReleaseKeepsOrder DEF workerVars
<1>5. gone' = gone \cup {lock[j]}
  BY <1>1 DEF Release
<1>6. /\ state' \in [Job -> {"waiting", "delayed", "active", "completed",
                              "failed"}]
      /\ lock' \in [Job -> Ack \cup {NoAck}]
  BY <1>1 DEF Release, JInv, JobsTypeOK
<1>7. JobsTypeOK'
  BY <1>2, <1>3, <1>5, <1>6 DEF JInv, JobsTypeOK, IInv, workerVars
<1>8. runner[lock[j]] # NoNode
  BY <1>2, NoJobAssumption DEF JInv, Activated
<1>9. Activated' /\ GrantsRelease' /\ TransitionIsEarned' /\ ReportedAreGone'
  BY <1>3, <1>5, <1>8 DEF JInv, Activated, GrantsRelease,
     TransitionIsEarned, ReportedAreGone, workerVars, vars
<1> QED BY <1>4, <1>7, <1>9 DEF JInv

(* A delayed job is not locked.                                            *)
LEMMA PromoteKeepsJInv ==
  ASSUME JInv, NEW j \in Job, Promote(j), IInv'
  PROVE  JInv'
<1>1. UNCHANGED <<vars, lock, gone, workerVars, calls>> /\ created' = created
  BY DEF Promote, vars, created
<1>2. JobsTypeOK'
  BY <1>1 DEF JInv, JobsTypeOK, IInv, workerVars, Promote
<1>3. Locks'
  BY <1>1 DEF JInv, JobsTypeOK, Locks, workerVars, Promote
<1>4. /\ Activated' /\ OnlyTheHolderMoves' /\ GrantsRelease'
      /\ TransitionIsEarned' /\ ReportedAreGone'
  BY <1>1 DEF JInv, Activated, OnlyTheHolderMoves, GrantsRelease,
     TransitionIsEarned, ReportedAreGone, workerVars, vars
<1> QED BY <1>2, <1>3, <1>4 DEF JInv

(* A granted move releases the job and is remembered by its handler.       *)
LEMMA GrantMoveKeepsJInv ==
  ASSUME JInv, NEW c \in calls, GrantMove(c), IInv'
  PROVE  JInv'
<1>1. /\ c.ack \in Ack /\ c.kind \in Awaited
      /\ c.kind \in {"waiting", "delayed"} /\ c.ack \in created
  BY AwaitedAssumption DEF JInv, JobsTypeOK, Call, GrantMove, GrantsRelease
<1>2. jobOf[c.ack] \in Job
  BY <1>1 DEF JInv, Activated, JobsTypeOK
<1>3. UNCHANGED <<vars, workerVars>> /\ created' = created
  BY DEF GrantMove, vars, created
<1>4. Release(c.ack, c.kind) /\ lock[jobOf[c.ack]] = c.ack
  BY DEF GrantMove
<1>5. Locks' /\ OnlyTheHolderMoves'
  BY <1>1, <1>2, <1>3, <1>4, ReleaseKeepsOrder DEF workerVars
<1>6. gone' = gone \cup {c.ack}
  BY <1>4 DEF Release
<1>7. PICK d \in Call : d.ack = c.ack /\ calls' = (calls \ {c}) \cup {d}
  <2>1. c \in Call
    BY DEF JInv, JobsTypeOK
  <2>2. PICK stage \in {"granted", "refused"} :
          calls' = (calls \ {c}) \cup {[c EXCEPT !.stage = stage]}
    BY DEF GrantMove, Answered
  <2>3. /\ [c EXCEPT !.stage = stage] \in Call
        /\ [c EXCEPT !.stage = stage].ack = c.ack
    BY <2>1 DEF Call
  <2> QED BY <2>2, <2>3
<1>8. /\ state' \in [Job -> {"waiting", "delayed", "active", "completed",
                              "failed"}]
      /\ lock' \in [Job -> Ack \cup {NoAck}]
  BY <1>1, <1>4 DEF Release, JInv, JobsTypeOK
<1>9. JobsTypeOK'
  BY <1>1, <1>3, <1>6, <1>7, <1>8 DEF JInv, JobsTypeOK, IInv, workerVars
<1>10. GrantsRelease'
  BY <1>1, <1>3, <1>6, <1>7 DEF JInv, GrantsRelease
<1>11. runner[c.ack] # NoNode
  BY <1>1 DEF JInv, Activated
<1>12. Activated' /\ TransitionIsEarned' /\ ReportedAreGone'
  BY <1>3, <1>6, <1>11 DEF JInv, Activated, TransitionIsEarned,
                           ReportedAreGone, workerVars, vars
<1> QED BY <1>5, <1>9, <1>10, <1>12 DEF JInv
-----------------------------------------------------------------------------
(* Steps that touch neither jobs nor locks nor activations keep the        *)
(* invariant if the settlements and the suspended handlers stay in order.  *)
LEMMA QuietStepKeepsJInv ==
  ASSUME JInv, IInv', created' = created,
         UNCHANGED <<backendVars, runner, jobOf, reported>>,
         worker' \in [RunNode -> {"running", "closing", "closed"}],
         late' \subseteq Ack, calls' \subseteq Call,
         forged \subseteq forged', forged' \subseteq Ack,
         GrantsRelease', TransitionIsEarned'
  PROVE  JInv'
<1>1. JobsTypeOK'
  BY DEF JInv, JobsTypeOK, IInv, backendVars
<1>2. Activated' /\ Locks' /\ OnlyTheHolderMoves' /\ ReportedAreGone'
  BY DEF JInv, Activated, Locks, OnlyTheHolderMoves, ReportedAreGone,
         backendVars
<1> QED BY <1>1, <1>2 DEF JInv

(* A step of the registry that settles on its own account is quiet.        *)
LEMMA SettlingStepKeepsJInv ==
  ASSUME JInv, IInv', NEW S, NEW s, s \notin Moved, Settle(S, s),
         UNCHANGED <<backendVars, runner, jobOf, reported, late, forged, calls>>,
         worker' \in [RunNode -> {"running", "closing", "closed"}]
  PROVE  JInv'
<1>1. created' = created /\ gone' = gone
  BY DEF Settle, Settling, created, backendVars
<1>2. TransitionIsEarned'
  BY <1>1, SettleKeepsEarned DEF JInv
<1>3. GrantsRelease'
  BY <1>1 DEF JInv, GrantsRelease
<1>4. late' \subseteq Ack /\ calls' \subseteq Call /\ forged' \subseteq Ack
  BY DEF JInv, JobsTypeOK
<1> QED BY <1>1, <1>2, <1>3, <1>4, QuietStepKeepsJInv

(* A flow fails its job: with an ordinary error, or with one that says     *)
(* "moved", which is then remembered as its doing.                         *)
LEMMA FailKeepsJInv ==
  ASSUME JInv, IInv', NEW a \in Ack, NEW e \in FlowError, JobFail(a, e)
  PROVE  JInv'
<1>1. Settle({a}, Reject(e))
  BY DEF JobFail, Fail
<1>2. UNCHANGED <<backendVars, runner, jobOf, worker, reported, late, calls>>
  BY DEF JobFail
<1>3. /\ forged \subseteq forged' /\ forged' \subseteq Ack
      /\ e \in {"waiting", "delayed"} => a \in forged'
  BY DEF JobFail, JInv, JobsTypeOK
<1>4. created' = created /\ gone' = gone
  BY <1>1, <1>2 DEF Settle, Settling, created, backendVars
<1>5. Reject(e) \in Moved => {a} \subseteq gone \cup forged'
  BY <1>3, OtherErrors, FlowErrorAssumption
<1>6. TransitionIsEarned'
  BY <1>1, <1>3, <1>4, <1>5, SettleKeepsEarned DEF JInv
<1>7. GrantsRelease'
  BY <1>2, <1>4 DEF JInv, GrantsRelease
<1>8. /\ worker' \in [RunNode -> {"running", "closing", "closed"}]
      /\ late' \subseteq Ack /\ calls' \subseteq Call
  BY <1>2 DEF JInv, JobsTypeOK
<1> QED BY <1>2, <1>3, <1>4, <1>6, <1>7, <1>8, QuietStepKeepsJInv

(* A processor registers its acknowledgement.                              *)
LEMMA ProcessKeepsJInv ==
  ASSUME JInv, IInv', NEW a \in Ack, Process(a)
  PROVE  JInv'
<1>1. runner[a] # NoNode /\ created' = created \cup {a}
  BY NoNodeAssumption
     DEF Process, Create, created, JInv, JobsTypeOK, TypeOK
<1>2. /\ UNCHANGED <<backendVars, runner, jobOf, worker, reported, calls,
                      forged>>
      /\ settlement' = settlement
      /\ late' \subseteq Ack
  BY DEF Process, Create, JInv, JobsTypeOK
<1>3. JobsTypeOK'
  BY <1>2 DEF JInv, JobsTypeOK, IInv, backendVars
<1>4. Activated'
  BY <1>1, <1>2 DEF JInv, Activated, backendVars
<1>5. GrantsRelease' /\ TransitionIsEarned' /\ ReportedAreGone'
  BY <1>1, <1>2 DEF JInv, GrantsRelease, TransitionIsEarned,
                    ReportedAreGone, backendVars
<1>6. Locks' /\ OnlyTheHolderMoves'
  BY <1>2 DEF JInv, Locks, OnlyTheHolderMoves, backendVars
<1> QED BY <1>3, <1>4, <1>5, <1>6 DEF JInv

(* A handler that asks, or is answered without a release, is quiet.        *)
LEMMA HandlerKeepsJInv ==
  ASSUME JInv, IInv', UNCHANGED <<vars, backendVars, workerVars>>,
         calls' \subseteq Call,
         \A c \in calls' : \/ c \in calls
                          \/ /\ c.ack \in created
                             /\ c.stage # "granted" \/ c.kind = "rateLimit"
  PROVE  JInv'
<1>1. /\ created' = created /\ TransitionIsEarned'
      /\ worker' \in [RunNode -> {"running", "closing", "closed"}]
      /\ late' \subseteq Ack /\ forged' = forged /\ forged' \subseteq Ack
  BY DEF JInv, JobsTypeOK, TransitionIsEarned, vars, backendVars,
         workerVars, created
<1>2. GrantsRelease'
  BY <1>1 DEF JInv, GrantsRelease, backendVars
<1> QED BY <1>1, <1>2, QuietStepKeepsJInv DEF workerVars

(* A handler resumes: only a granted move is settled with the error that   *)
(* says "moved", and its activation has released the job.                  *)
LEMMA ResumeKeepsJInv ==
  ASSUME JInv, IInv', NEW c \in calls, Resume(c)
  PROVE  JInv'
<1>1. c.ack \in Ack /\ c.kind \in {"rateLimit", "waiting", "delayed"}
      /\ c.stage \in {"granted", "refused"}
  BY AwaitedAssumption DEF JInv, JobsTypeOK, Call, Resume
<1>2. UNCHANGED <<backendVars, workerVars>> /\ calls' = calls \ {c}
  BY DEF Resume
<1>3. created' = created
  BY DEF Resume, Fail, Settle, Settling, created, vars
<1>4. TransitionIsEarned'
  <2>1. CASE c.stage = "granted"
    <3>1. Settle({c.ack}, Reject(c.kind))
      BY <2>1 DEF Resume, Fail
    <3>2. Reject(c.kind) \in Moved => {c.ack} \subseteq gone
      BY <1>1, <2>1, OtherErrors DEF JInv, GrantsRelease
    <3>3. gone' = gone /\ forged' = forged
      BY <1>2 DEF backendVars, workerVars
    <3> QED BY <3>1, <3>2, <3>3, SettleKeepsEarned DEF JInv
  <2>2. CASE c.stage = "refused"
    BY <1>2, <2>2 DEF Resume, JInv, TransitionIsEarned, vars, backendVars,
                      workerVars
  <2> QED BY <1>1, <2>1, <2>2
<1>5. GrantsRelease'
  BY <1>2, <1>3 DEF JInv, GrantsRelease, backendVars
<1>6. /\ worker' \in [RunNode -> {"running", "closing", "closed"}]
      /\ late' \subseteq Ack /\ calls' \subseteq Call
      /\ forged' = forged /\ forged' \subseteq Ack
  BY <1>2 DEF JInv, JobsTypeOK, workerVars
<1> QED BY <1>2, <1>3, <1>4, <1>5, <1>6, QuietStepKeepsJInv DEF workerVars
-----------------------------------------------------------------------------
(* Every step keeps the invariant.                                         *)
LEMMA NextKeepsJInv == JInv /\ [JobsNext]_jobsVars => JInv'
<1> SUFFICES ASSUME JInv, [JobsNext]_jobsVars PROVE JInv'
  OBVIOUS
<1>0. IInv'
  BY StepOfRegistry, NextKeepsIInv DEF JInv
<1> DEFINE WorkerType == [RunNode -> {"running", "closing", "closed"}]
<1>w. worker \in WorkerType
  BY DEF JInv, JobsTypeOK
<1>1. CASE UNCHANGED jobsVars
  BY <1>0, <1>1, HandlerKeepsJInv DEF jobsVars, JInv, JobsTypeOK
<1>2. ASSUME NEW r \in RunNode, NEW j \in Job, NEW a \in Ack, Fetch(r, j, a)
      PROVE  JInv'
  BY <1>0, <1>2, FetchKeepsJInv
<1>3. ASSUME NEW a \in Ack, Report(a) PROVE JInv'
  BY <1>0, <1>3, ReportKeepsJInv
<1>4. ASSUME NEW j \in Job, Stall(j) \/ Promote(j) PROVE JInv'
  BY <1>0, <1>4, StallKeepsJInv, PromoteKeepsJInv
<1>5. ASSUME NEW a \in Ack, Process(a) PROVE JInv'
  BY <1>0, <1>5, ProcessKeepsJInv
<1>6. ASSUME NEW a \in Ack, Await(a) PROVE JInv'
  <2>1. created' = created /\ settlement' = settlement
    BY <1>6 DEF Await, Wait, created
  <2>2. UNCHANGED <<backendVars, workerVars, calls>>
    BY <1>6 DEF Await
  <2>3. GrantsRelease' /\ TransitionIsEarned'
    BY <2>1, <2>2 DEF JInv, GrantsRelease, TransitionIsEarned, backendVars,
                      workerVars
  <2>4. /\ late' \subseteq Ack /\ calls' \subseteq Call /\ worker' \in WorkerType
        /\ forged' = forged /\ forged' \subseteq Ack
    BY <1>w, <2>2 DEF JInv, JobsTypeOK, workerVars
  <2> QED BY <1>0, <2>1, <2>2, <2>3, <2>4, QuietStepKeepsJInv DEF workerVars
<1>7. ASSUME NEW a \in Ack, AckTimeout(a) PROVE JInv'
  <2>1. Settle({a}, Reject("timeout")) /\ worker' \in WorkerType
    BY <1>7, <1>w DEF AckTimeout, Timeout, workerVars
  <2> QED BY <1>0, <1>7, <2>1, OtherErrors, SettlingStepKeepsJInv
          DEF AckTimeout, workerVars
<1>8. ASSUME NEW r \in RunNode, CloseRunNode(r) PROVE JInv'
  <2>1. worker' \in WorkerType
    BY <1>8, <1>w DEF CloseRunNode
  <2> QED BY <1>0, <1>8, <2>1, OtherErrors, SettlingStepKeepsJInv
          DEF CloseRunNode, RejectByRunNode
<1>9. ASSUME NEW r \in RunNode, WorkerClosed(r) \/ ForceClose(r) PROVE JInv'
  <2>1. /\ UNCHANGED <<vars, backendVars, runner, jobOf, reported, late,
                       forged, calls>>
        /\ worker' \in WorkerType
    BY <1>9, <1>w DEF WorkerClosed, ForceClose
  <2>2. created' = created /\ GrantsRelease' /\ TransitionIsEarned'
    BY <2>1 DEF JInv, GrantsRelease, TransitionIsEarned, vars, backendVars,
                created
  <2>3. /\ late' \subseteq Ack /\ calls' \subseteq Call
        /\ forged' = forged /\ forged' \subseteq Ack
    BY <2>1 DEF JInv, JobsTypeOK
  <2> QED BY <1>0, <2>1, <2>2, <2>3, QuietStepKeepsJInv
<1>10. ASSUME NEW a \in Ack, NEW v \in Value, JobComplete(a, v) PROVE JInv'
  <2>1. Settle({a}, Resolve(v)) /\ worker' \in WorkerType
    BY <1>10, <1>w DEF JobComplete, Complete, workerVars
  <2> QED BY <1>0, <1>10, <2>1, OtherErrors, SettlingStepKeepsJInv
          DEF JobComplete, workerVars
<1>11. ASSUME NEW a \in Ack, NEW e \in FlowError, JobFail(a, e) PROVE JInv'
  BY <1>0, <1>11, FailKeepsJInv
<1>12. ASSUME NEW a \in Ack, NEW k \in Awaited, Ask(a, k) PROVE JInv'
  <2> DEFINE c == [ack |-> a, kind |-> k, stage |-> "asked"]
  <2>1. a \in created
    BY <1>12 DEF Ask, JInv, IInv, RegistryIsExact
  <2>2. c \in Call /\ c.ack = a /\ c.stage = "asked"
    BY DEF Call
  <2>3. calls' = calls \cup {c} /\ UNCHANGED <<vars, backendVars, workerVars>>
    BY <1>12 DEF Ask
  <2>4. calls' \subseteq Call
    BY <2>2, <2>3 DEF JInv, JobsTypeOK
  <2> HIDE DEF c
  <2> QED BY <1>0, <2>1, <2>2, <2>3, <2>4, HandlerKeepsJInv
<1>13. ASSUME NEW c \in calls, GrantMove(c) PROVE JInv'
  BY <1>0, <1>13, GrantMoveKeepsJInv
<1>14. ASSUME NEW c \in calls, GrantRateLimit(c) \/ Refuse(c) PROVE JInv'
  <2>1. PICK d : /\ calls' = (calls \ {c}) \cup {d}
                 /\ \/ d = [c EXCEPT !.stage = "refused"]
                    \/ /\ d = [c EXCEPT !.stage = "granted"]
                       /\ c.kind = "rateLimit"
    BY <1>14 DEF GrantRateLimit, Refuse, Answered
  <2>2. c \in Call
    BY DEF JInv, JobsTypeOK
  <2>3. /\ d \in Call /\ d.ack = c.ack
        /\ d.stage # "granted" \/ d.kind = "rateLimit"
    BY <2>1, <2>2 DEF Call
  <2>4. c.ack \in created
    BY DEF JInv, GrantsRelease
  <2>5. calls' \subseteq Call
    BY <2>1, <2>3 DEF JInv, JobsTypeOK
  <2>6. UNCHANGED <<vars, backendVars, workerVars>>
    BY <1>14 DEF GrantRateLimit, Refuse
  <2> QED BY <1>0, <2>1, <2>3, <2>4, <2>5, <2>6, HandlerKeepsJInv
<1>15. ASSUME NEW c \in calls, Resume(c) PROVE JInv'
  BY <1>0, <1>15, ResumeKeepsJInv
<1>16. ASSUME NEW a \in Ack, Cancel(a) \/ CancelAll(a) PROVE JInv'
  <2>1. PICK S : Settle(S, Reject("aborted"))
    BY <1>16 DEF Cancel, CancelAll, Abort
  <2>2. UNCHANGED <<backendVars, workerVars, calls>>
    BY <1>16 DEF Cancel, CancelAll
  <2>3. worker' \in WorkerType
    BY <1>w, <2>2 DEF workerVars
  <2> QED BY <1>0, <2>1, <2>2, <2>3, OtherErrors, SettlingStepKeepsJInv
          DEF workerVars
<1> QED BY <1>1, <1>2, <1>3, <1>4, <1>5, <1>6, <1>7, <1>8, <1>9, <1>10,
           <1>11, <1>12, <1>13, <1>14, <1>15, <1>16 DEF JobsNext

(* The strengthened invariant holds in every reachable state.              *)
THEOREM JobsInvariance == JobsSafety => []JInv
BY InitJInv, NextKeepsJInv, PTL DEF JobsSafety

(* Type correctness of the composition.                                    *)
THEOREM JobsTypeCorrect == JobsSafety => []JobsTypeOK
<1>1. JInv => JobsTypeOK
  BY DEF JInv
<1> QED BY <1>1, JobsInvariance, PTL

(* The worker is told "moved already" only of jobs that have left it.      *)
THEOREM TransitionsEarned == JobsSafety => []TransitionIsEarned
<1>1. JInv => TransitionIsEarned
  BY DEF JInv
<1> QED BY <1>1, JobsInvariance, PTL

(* A reported activation never keeps its job locked.                       *)
THEOREM NothingOrphaned == JobsSafety => []NoOrphanedJob
<1>1. JInv => NoOrphanedJob
  BY NoAckAssumption DEF JInv, Locks, ReportedAreGone, NoOrphanedJob,
                         JobsTypeOK
<1> QED BY <1>1, JobsInvariance, PTL

(* A job is only ever taken from an activation on its own behalf.          *)
THEOREM HolderMoves == JobsSafety => []OnlyTheHolderMoves
<1>1. JInv => OnlyTheHolderMoves
  BY DEF JInv
<1> QED BY <1>1, JobsInvariance, PTL

(* The composition uses the registry as the registry's specification says. *)
THEOREM UsesRegistry == JobsSafety => RegistrySpec
<1>1. JobsInit => Init
  BY DEF JobsInit
<1>2. JInv /\ [JobsNext]_jobsVars => [Next]_vars
  BY StepOfRegistry DEF JInv
<1> QED BY <1>1, <1>2, JobsInvariance, PTL DEF JobsSafety, RegistrySpec, Spec

(* So all that is proved of the registry holds of the jobs, nodes and the  *)
(* backend around it: each acknowledgement is decided once and its         *)
(* processor told that decision, and a closing run node settles its own.   *)
COROLLARY JobsKeepPromises == JobsSafety => ImplementsPromises /\ CloseIsPerNode
BY UsesRegistry, RefinesPromises, ClosesPerNode, PTL DEF RegistrySpec
=============================================================================
