------------------------ MODULE StopAndRemove_proofs ------------------------
(***************************************************************************)
(* What stopAndRemoveAllJobs leaves behind, for any number of jobs and     *)
(* schedulers and however others interfere: nothing old, but what was      *)
(* active in between or was given a priority after the drain. The          *)
(* invariant says, call by call, in which states any other old job may     *)
(* still be and which schedulers may still add one.                        *)
(***************************************************************************)
EXTENDS StopAndRemove, TLAPS

(* Where a job that is neither excused nor raised may be before each call. *)
Remaining(p) ==
  CASE p \in {"list", "remove", "drain", "rejected"} ->
         Waiting \cup {"absent", "completed", "failed"}
    [] p = "completed" -> {"absent", "completed", "failed", "wait"}
    [] p = "failed" -> {"absent", "failed", "wait"}
    [] p \in {"delayed", "wait"} -> {"absent", "wait"}
    [] p = "done" -> {"absent"}
    [] OTHER -> States

OldJobsGo ==
  \A j \in Job : j \notin excused \cup raised => state[j] \in Remaining(phase)

OldSchedulersGo ==
  /\ phase = "remove" => schedulers \subseteq fresh \cup listed
  /\ phase \in {"drain", "done"} \cup CLEAN_STATES => schedulers \subseteq fresh

StopInv == StopTypeOK /\ OldJobsGo /\ OldSchedulersGo

(* The command starts with the invariant.                                  *)
LEMMA InitStopInv == StopInit => StopInv
<1> SUFFICES ASSUME StopInit PROVE StopInv
  OBVIOUS
<1>1. StopTypeOK
  BY MaxRunsAssumption
     DEF StopInit, StopTypeOK, States, Waiting, Phases, CLEAN_STATES
<1>2. OldJobsGo
  BY <1>1 DEF StopInit, OldJobsGo, Remaining, StopTypeOK
<1>3. OldSchedulersGo
  BY DEF StopInit, OldSchedulersGo, CLEAN_STATES
<1> QED BY <1>1, <1>2, <1>3 DEF StopInv

(* The calls of the command.                                               *)
LEMMA CommandKeepsStopInv ==
  ASSUME StopInv,
         Command \/ List \/ (\E s \in Scheduler : Remove(s)) \/ AllRemoved
         \/ Drain \/ Clean \/ Reject
  PROVE  StopInv'
<1> USE DEF storeVars, commandVars, historyVars
<1>1. CASE Command
  <2>1. StopTypeOK'
    BY <1>1, MaxRunsAssumption
       DEF Command, StopInv, StopTypeOK, Phases, InState
  <2>2. OldJobsGo'
    BY <1>1 DEF Command, StopInv, StopTypeOK, OldJobsGo, Remaining, InState,
       States, Waiting
  <2>3. OldSchedulersGo'
    BY <1>1 DEF Command, OldSchedulersGo, CLEAN_STATES
  <2> QED BY <2>1, <2>2, <2>3 DEF StopInv
<1>2. CASE List
  BY <1>2 DEF List, StopInv, StopTypeOK, OldJobsGo, OldSchedulersGo, Remaining,
     Phases, CLEAN_STATES
<1>3. CASE \E s \in Scheduler : Remove(s)
  <2>1. PICK s \in Scheduler : Remove(s)
    BY <1>3
  <2>2. StopTypeOK'
    BY <2>1 DEF Remove, StopInv, StopTypeOK, States
  <2>3. OldJobsGo'
    BY <2>1 DEF Remove, StopInv, OldJobsGo, Remaining
  <2>4. OldSchedulersGo'
    BY <2>1 DEF Remove, StopInv, OldSchedulersGo, CLEAN_STATES
  <2> QED BY <2>2, <2>3, <2>4 DEF StopInv
<1>4. CASE AllRemoved
  BY <1>4 DEF AllRemoved, StopInv, StopTypeOK, OldJobsGo, OldSchedulersGo,
     Remaining, Phases, CLEAN_STATES
<1>5. CASE Drain
  <2>1. StopTypeOK'
    BY <1>5 DEF Drain, StopInv, StopTypeOK, States, Phases, CLEAN_STATES
  <2>2. OldJobsGo'
    BY <1>5 DEF Drain, StopInv, OldJobsGo, Remaining
  <2>3. OldSchedulersGo'
    BY <1>5 DEF Drain, StopInv, OldSchedulersGo, CLEAN_STATES
  <2> QED BY <2>1, <2>2, <2>3 DEF StopInv
<1>6. CASE Clean
  <2>1. StopTypeOK'
    BY <1>6 DEF Clean, After, StopInv, StopTypeOK, States, Phases,
       CLEAN_STATES
  <2>2. OldJobsGo'
    BY <1>6 DEF Clean, After, StopInv, OldJobsGo, Remaining, CLEAN_STATES
  <2>3. OldSchedulersGo'
    BY <1>6 DEF Clean, After, StopInv, OldSchedulersGo, CLEAN_STATES
  <2> QED BY <2>1, <2>2, <2>3 DEF StopInv
<1>7. CASE Reject
  <2>1. StopTypeOK'
    BY <1>7 DEF Reject, StopInv, StopTypeOK, Phases
  <2>2. OldJobsGo'
    BY <1>7 DEF Reject, StopInv, StopTypeOK, OldJobsGo, Remaining, Waiting,
       Phases, CLEAN_STATES
  <2>3. OldSchedulersGo'
    BY <1>7 DEF Reject, OldSchedulersGo, CLEAN_STATES
  <2> QED BY <2>1, <2>2, <2>3 DEF StopInv
<1> QED BY <1>1, <1>2, <1>3, <1>4, <1>5, <1>6, <1>7

(* What somebody else does to one job either leaves it where an old job    *)
(* may be, or it is active, new, or given a priority too late.             *)
LEMMA OthersKeepStopInv ==
  ASSUME StopInv, NEW j \in Job, Others(j)
  PROVE  StopInv'
<1> USE DEF commandVars, historyVars
<1>1. /\ schedulers' = schedulers /\ phase' = phase /\ listed' = listed
      /\ runs' = runs /\ fresh' = fresh
      /\ excused \subseteq excused' /\ excused' \subseteq excused \cup {j}
      /\ raised \subseteq raised' /\ raised' \subseteq raised \cup {j}
  BY DEF Others, Add, Iterate, Take, Finish, Promote, Retry, Prioritize,
         Unprioritize, Vanish, ChildrenDone, Moves
<1>2. \E s \in States : state' = [state EXCEPT ![j] = s]
  BY DEF Others, Add, Iterate, Take, Finish, Promote, Retry, Prioritize,
         Unprioritize, Vanish, ChildrenDone, Moves, States, Waiting
<1>3. StopTypeOK'
  BY <1>1, <1>2 DEF StopInv, StopTypeOK
<1>4. OldSchedulersGo'
  BY <1>1 DEF StopInv, OldSchedulersGo
<1>5. j \notin excused' \cup raised' => state'[j] \in Remaining(phase)
  <2> SUFFICES ASSUME j \notin excused' \cup raised'
               PROVE  state'[j] \in Remaining(phase)
    OBVIOUS
  <2>1. /\ j \notin excused \cup raised
        /\ state[j] \in Remaining(phase) /\ state[j] \in States
    BY <1>1 DEF StopInv, StopTypeOK, OldJobsGo
  <2>2. CASE Add(j) \/ Take(j)
    BY <2>2 DEF Add, Take
  <2>3. CASE Iterate(j)
    <3>1. SchedulerOf[j] \in schedulers /\ SchedulerOf[j] \notin fresh
      BY <2>3 DEF Iterate
    <3>2. phase \notin {"drain", "done"} \cup CLEAN_STATES
      BY <3>1 DEF StopInv, OldSchedulersGo
    <3>3. state'[j] \in {"delayed", "wait"}
      BY <2>3 DEF Iterate, Moves, StopInv, StopTypeOK
    <3>4. Waiting \subseteq Remaining(phase)
      BY <3>2 DEF StopInv, StopTypeOK, Phases, CLEAN_STATES, Remaining,
         States
    <3> QED BY <3>3, <3>4 DEF Waiting
  <2>4. CASE Finish(j) \/ ChildrenDone(j)
    <3>1. /\ state[j] \in {"active", "waiting-children"}
          /\ state'[j] \in States
      BY <2>4, <1>2 DEF Finish, ChildrenDone, StopInv, StopTypeOK
    <3>2. Remaining(phase) = States
      BY <2>1, <3>1 DEF StopInv, StopTypeOK, Phases, CLEAN_STATES, Remaining,
         Waiting
    <3> QED BY <3>1, <3>2
  <2>5. CASE Promote(j)
    <3>1. state[j] = "delayed" /\ state'[j] \in Waiting
      BY <2>5 DEF Promote, Moves, StopInv, StopTypeOK, Waiting
    <3> QED BY <2>1, <3>1 DEF Remaining, Waiting, States
  <2>6. CASE Retry(j)
    <3>1. state[j] \in {"completed", "failed"} /\ state'[j] = "wait"
      BY <2>6 DEF Retry, Moves, StopInv, StopTypeOK
    <3> QED BY <2>1, <3>1 DEF Remaining, Waiting, States
  <2>7. CASE Prioritize(j)
    <3>1. /\ state[j] = "wait" /\ state'[j] = "prioritized"
          /\ phase \notin CLEAN_STATES
      BY <2>7 DEF Prioritize, Moves, StopInv, StopTypeOK
    <3> QED BY <2>1, <3>1 DEF Remaining, Waiting, States, CLEAN_STATES
  <2>8. CASE Vanish(j)
    <3>1. state'[j] = "absent"
      BY <2>8 DEF Vanish, Moves, StopInv, StopTypeOK
    <3> QED BY <3>1 DEF Remaining, States
  <2>9. CASE Unprioritize(j)
    <3>1. state[j] = "prioritized" /\ state'[j] = "wait"
      BY <2>9 DEF Unprioritize, Moves, StopInv, StopTypeOK
    <3> QED BY <2>1, <3>1 DEF Remaining, Waiting, States
  <2> QED BY <2>2, <2>3, <2>4, <2>5, <2>6, <2>7, <2>8, <2>9 DEF Others
<1>6. OldJobsGo'
  <2> SUFFICES ASSUME NEW i \in Job, i \notin excused' \cup raised'
               PROVE  state'[i] \in Remaining(phase)
    BY <1>1 DEF OldJobsGo, Remaining
  <2>1. CASE i = j
    BY <1>5, <2>1
  <2>2. CASE i # j
    BY <1>1, <1>2, <2>2 DEF StopInv, StopTypeOK, OldJobsGo
  <2> QED BY <2>1, <2>2
<1> QED BY <1>3, <1>4, <1>6 DEF StopInv

(* Upserting and removing schedulers.                                      *)
LEMMA SchedulingKeepsStopInv ==
  ASSUME StopInv, NEW s \in Scheduler, Upsert(s) \/ Unschedule(s)
  PROVE  StopInv'
<1>1. /\ state' = state /\ phase' = phase /\ listed' = listed
      /\ runs' = runs /\ excused' = excused /\ raised' = raised
  BY DEF Upsert, Unschedule, commandVars, historyVars
<1>2. StopTypeOK'
  BY <1>1 DEF Upsert, Unschedule, StopInv, StopTypeOK, historyVars
<1>3. OldJobsGo'
  BY <1>1 DEF StopInv, OldJobsGo, Remaining
<1>4. OldSchedulersGo'
  BY <1>1 DEF Upsert, Unschedule, StopInv, OldSchedulersGo, historyVars
<1> QED BY <1>2, <1>3, <1>4 DEF StopInv

(* The strengthened invariant holds throughout.                            *)
THEOREM StopInvariance == StopSpec => []StopInv
<1>1. StopInv /\ [StopNext]_stopVars => StopInv'
  <2> SUFFICES ASSUME StopInv, [StopNext]_stopVars PROVE StopInv'
    OBVIOUS
  <2>1. CASE StopNext
    BY <2>1, CommandKeepsStopInv, OthersKeepStopInv, SchedulingKeepsStopInv
       DEF StopNext
  <2>2. CASE UNCHANGED stopVars
    BY <2>2 DEF stopVars, storeVars, commandVars, historyVars, StopInv,
       StopTypeOK, OldJobsGo, OldSchedulersGo, Remaining
  <2> QED BY <2>1, <2>2
<1> QED BY InitStopInv, <1>1, PTL DEF StopSpec

(* Type correctness.                                                       *)
THEOREM StopTypeCorrect == StopSpec => []StopTypeOK
<1>1. StopInv => StopTypeOK
  BY DEF StopInv
<1> QED BY <1>1, StopInvariance, PTL

(* When the command has finished, nothing old is left but what was active  *)
(* in between or was given a priority after the drain.                     *)
THEOREM NothingOldIsLeft == StopSpec => []NothingOldSurvives
<1>1. StopInv => NothingOldSurvives
  BY DEF StopInv, OldJobsGo, OldSchedulersGo, Remaining, NothingOldSurvives
<1> QED BY <1>1, StopInvariance, PTL
=============================================================================
