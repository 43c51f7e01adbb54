----------------------- MODULE DeploymentTests_proofs -----------------------
(***************************************************************************)
(* Proofs about the deployment test runner, for any sequence of            *)
(* deployments, however often the script is killed and started again.      *)
(***************************************************************************)
EXTENDS DeploymentTests, TLAPS

(* Every variable that the proofs speak of stays in its range.             *)
RunTypeOK ==
  /\ memorydb \in {"off", "incomplete", "on"}
  /\ server \in [Stacks -> {"absent", "booting", "temporary", "restarting",
                            "serving"}]
  /\ pc \in {"resolve", "down", "up", "wait", "tests", "finally", "memorydb",
             "exit"}
  /\ turn \in 1..Len(Deployments)
  /\ left \in 0..MaxProbes
  /\ streak \in Nat
  /\ thrown \in BOOLEAN
  /\ exit \in {"none", "success", "failure"}
  /\ started \subseteq Stacks

(* An error is under way in the finally only, or has ended the script; and *)
(* the exit status is known when the script has ended.                     *)
ControlOK ==
  /\ thrown => pc \in {"finally", "exit"}
  /\ exit # "none" => pc = "exit"

First(n) == {Deployments[i] : i \in 1..n}

(* The tests that have passed are those of the deployments before this     *)
(* one, and its own once they are done: none is skipped.                   *)
NoneSkipped ==
  /\ pc \in {"resolve", "down", "up", "wait", "tests"} =>
       passed = First(turn - 1)
  /\ pc = "finally" /\ ~ thrown => passed = First(turn)
  /\ pc = "memorydb" => passed = Stacks
  /\ exit = "success" =>
       passed = Stacks \cup (IF memorydb = "off" THEN {} ELSE {MemoryDb})

(* What the script has started it still works on, or has removed.          *)
NothingLeft ==
  \A d \in started \ stuck :
    \/ server[d] = "absent"
    \/ d = current /\ pc \in {"wait", "tests", "finally"}

(* A deployment starts on a removed stack, and its tests on a server that  *)
(* has answered.                                                           *)
SoundSoFar ==
  /\ pc = "up" => server[current] = "absent" \/ current \in stuck
  /\ pc \in {"wait", "tests"} => current \in fresh \cup stuck
  /\ pc = "tests" => server[current] = "serving"

DInv ==
  /\ RunTypeOK
  /\ ControlOK
  /\ NoneSkipped
  /\ NothingLeft
  /\ SoundSoFar
-----------------------------------------------------------------------------
(* There is a first deployment, and the last comes after all others.       *)
LEMMA DeploymentsInOrder ==
  /\ Len(Deployments) \in Nat /\ 1 \in 1..Len(Deployments)
  /\ \A i \in 1..Len(Deployments) : Deployments[i] \in Stacks
  /\ First(Len(Deployments)) = Stacks
  /\ First(0) = {}
<1>1. Len(Deployments) \in Nat /\ DOMAIN Deployments = 1..Len(Deployments)
  BY DeploymentsAssumption
<1>2. Len(Deployments) # 0
  BY DeploymentsAssumption
<1>3. First(Len(Deployments)) = Stacks
  BY <1>1 DEF First, Stacks, ToSet
<1>4. \A i \in 1..Len(Deployments) : Deployments[i] \in Stacks
  BY DeploymentsAssumption
<1>5. First(0) = {}
  BY DEF First
<1> QED BY <1>1, <1>2, <1>3, <1>4, <1>5

(* The deployments up to one are those before it, and itself.              *)
LEMMA FirstGrows ==
  ASSUME NEW n \in Nat \ {0}
  PROVE  First(n) = First(n - 1) \cup {Deployments[n]}
<1>1. 1..n = 1..(n - 1) \cup {n}
  OBVIOUS
<1> QED BY <1>1 DEF First

(* The stack that is worked on is one of the stacks.                       *)
LEMMA CurrentIsAStack == RunTypeOK => current \in Stacks
BY DeploymentsInOrder DEF RunTypeOK, current

LEMMA InitDInv == Init => DInv
<1> SUFFICES ASSUME Init PROVE DInv
  OBVIOUS
<1>1. RunTypeOK
  <2>1. turn \in 1..Len(Deployments)
    BY DeploymentsInOrder DEF Init
  <2>2. left \in 0..MaxProbes
    BY MaxProbesAssumption DEF Init
  <2> QED BY <2>1, <2>2 DEF Init, RunTypeOK
<1>2. NoneSkipped
  BY DeploymentsInOrder DEF Init, NoneSkipped
<1>3. ControlOK /\ NothingLeft /\ SoundSoFar
  BY DEF Init, ControlOK, NothingLeft, SoundSoFar
<1> QED BY <1>1, <1>2, <1>3 DEF DInv

(* "down -v" leaves nothing that is not removed or refused.                *)
LEMMA DownRemoves ==
  ASSUME RunTypeOK, NothingLeft, Down, UNCHANGED started
  PROVE  /\ server' \in [Stacks -> {"absent", "booting", "temporary",
                                    "restarting", "serving"}]
         /\ \A d \in started \ stuck' : server'[d] = "absent"
         /\ server'[current] = "absent" \/ current \in stuck'
<1>1. current \in Stacks
  BY CurrentIsAStack
<1>2. CASE /\ server' = [server EXCEPT ![current] = "absent"]
           /\ stuck' = stuck \ {current}
  BY <1>1, <1>2 DEF RunTypeOK, NothingLeft
<1>3. CASE stuck' = stuck \cup {current} /\ UNCHANGED server
  BY <1>3 DEF RunTypeOK, NothingLeft
<1> QED BY <1>2, <1>3 DEF Down

(* Leaving the script with an error, with nothing left behind.             *)
LEMMA LeavingInErrorKeepsDInv ==
  ASSUME DInv, Leave(TRUE), pc # "exit",
         UNCHANGED <<world, call, turn, waiting, thrown, started>>,
         server' \in [Stacks -> {"absent", "booting", "temporary",
                                 "restarting", "serving"}],
         \A d \in started \ stuck' : server'[d] = "absent"
  PROVE  DInv'
<1>1. pc' = "exit" /\ exit' = "failure"
  BY DEF Leave
<1>2. RunTypeOK' /\ ControlOK'
  BY <1>1 DEF DInv, RunTypeOK, ControlOK, world, waiting
<1> QED BY <1>1, <1>2 DEF DInv, NoneSkipped, NothingLeft, SoundSoFar

(* An error in the try leads to the finally with the stack as it is.       *)
LEMMA ThrowKeepsDInv ==
  ASSUME DInv, Throw, pc \in {"up", "wait", "tests"},
         Start \/ UNCHANGED <<server, started, fresh>>
  PROVE  DInv'
<1>1. /\ pc' = "finally" /\ thrown' = TRUE /\ exit' = exit /\ turn' = turn
      /\ stuck' = stuck /\ left' = left /\ streak' = streak
      /\ memorydb' = memorydb /\ passed' = passed
  BY DEF Throw, world, waiting
<1>2. current \in Stacks /\ current' = current
  BY <1>1, CurrentIsAStack DEF DInv, current
<1>3. /\ server' \in [Stacks -> {"absent", "booting", "temporary",
                                 "restarting", "serving"}]
      /\ started' \subseteq started \cup {current}
      /\ \A d \in Stacks \ {current} : server'[d] = server[d]
  BY <1>2 DEF DInv, RunTypeOK, Start
<1>4. RunTypeOK' /\ ControlOK'
  BY <1>1, <1>2, <1>3 DEF DInv, RunTypeOK, ControlOK
<1>5. NoneSkipped'
  BY <1>1 DEF DInv, ControlOK, NoneSkipped
<1>6. NothingLeft'
  BY <1>1, <1>2, <1>3 DEF DInv, RunTypeOK, NothingLeft
<1> QED BY <1>1, <1>4, <1>5, <1>6 DEF DInv, SoundSoFar

(* A stack that is started was removed before, or removing it was refused. *)
LEMMA StackUpKeepsDInv ==
  ASSUME DInv, StackUp
  PROVE  DInv'
<1>1. /\ pc = "up" /\ pc' = "wait" /\ left' = MaxProbes /\ streak' = 0
      /\ memorydb' = memorydb /\ turn' = turn /\ thrown' = thrown
      /\ exit' = exit /\ stuck' = stuck /\ passed' = passed
      /\ started' = started \cup {current}
      /\ server' = [server EXCEPT ![current] = IF @ = "absent" THEN "booting"
                                               ELSE @]
      /\ fresh' = IF server[current] = "absent" THEN fresh \cup {current}
                  ELSE fresh
  BY DEF StackUp, Start, world
<1>2. current \in Stacks /\ current' = current
  BY <1>1, CurrentIsAStack DEF DInv, current
<1>3. RunTypeOK'
  <2>1. server' \in [Stacks -> {"absent", "booting", "temporary",
                                "restarting", "serving"}]
    BY <1>1, <1>2 DEF DInv, RunTypeOK
  <2>2. left' \in 0..MaxProbes /\ streak' \in Nat
    BY <1>1, MaxProbesAssumption
  <2> QED BY <1>1, <1>2, <2>1, <2>2 DEF DInv, RunTypeOK
<1>4. ControlOK' /\ NoneSkipped'
  BY <1>1 DEF DInv, ControlOK, NoneSkipped
<1>5. NothingLeft'
  BY <1>1, <1>2 DEF DInv, RunTypeOK, NothingLeft
<1>6. SoundSoFar'
  BY <1>1, <1>2 DEF DInv, SoundSoFar
<1> QED BY <1>3, <1>4, <1>5, <1>6 DEF DInv

(* A server that comes up was not absent, and is not the one under test.   *)
LEMMA BootKeepsDInv ==
  ASSUME DInv, NEW d \in Stacks, Boot(d)
  PROVE  DInv'
<1>1. /\ UNCHANGED <<memorydb, pc, turn, left, streak, thrown, exit, started,
                     fresh, stuck, passed>>
      /\ server[d] \in {"booting", "temporary", "restarting"}
      /\ server' = [server EXCEPT ![d] = IF d \in Postgres THEN AfterPhase[@]
                                         ELSE "serving"]
  BY DEF Boot, DInv, RunTypeOK, world, waiting, history
<1>2. \A e \in Stacks \ {d} : server'[e] = server[e]
  BY <1>1 DEF DInv, RunTypeOK
<1>3. server'[d] \in {"temporary", "restarting", "serving"}
  BY <1>1 DEF DInv, RunTypeOK, AfterPhase
<1>4. current \in Stacks /\ current' = current
  BY <1>1, CurrentIsAStack DEF DInv, current
<1>5. RunTypeOK'
  <2>1. server' \in [Stacks -> {"absent", "booting", "temporary",
                                "restarting", "serving"}]
    BY <1>1, <1>3 DEF DInv, RunTypeOK
  <2> QED BY <1>1, <2>1 DEF DInv, RunTypeOK
<1>6. ControlOK' /\ NoneSkipped'
  BY <1>1 DEF DInv, ControlOK, NoneSkipped
<1>7. NothingLeft'
  BY <1>1, <1>2, <1>4 DEF DInv, RunTypeOK, NothingLeft
<1>8. SoundSoFar'
  BY <1>1, <1>2, <1>4 DEF DInv, SoundSoFar
<1> QED BY <1>5, <1>6, <1>7, <1>8 DEF DInv

(* The tests start only on an answer, which only the server that stays     *)
(* gives.                                                                  *)
LEMMA ProbeKeepsDInv ==
  ASSUME DInv, NEW answer \in BOOLEAN, Probe(answer)
  PROVE  DInv'
<1>1. /\ UNCHANGED <<memorydb, server, turn, thrown, exit, started, fresh,
                     stuck, passed>>
      /\ pc = "wait" /\ pc' \in {"wait", "tests"}
      /\ pc' = "tests" => server[current] = "serving"
      /\ left > 0 /\ left' = left - 1
      /\ streak' = IF answer THEN streak + 1 ELSE 0
  BY DEF Probe, Answers, world, history
<1>2. current' = current
  BY <1>1 DEF current
<1>3. RunTypeOK'
  <2>1. left' \in 0..MaxProbes /\ streak' \in Nat
    BY <1>1, MaxProbesAssumption DEF DInv, RunTypeOK
  <2> QED BY <1>1, <2>1 DEF DInv, RunTypeOK
<1>4. ControlOK' /\ NoneSkipped'
  BY <1>1 DEF DInv, ControlOK, NoneSkipped
<1>5. NothingLeft' /\ SoundSoFar'
  BY <1>1, <1>2 DEF DInv, NothingLeft, SoundSoFar
<1> QED BY <1>3, <1>4, <1>5 DEF DInv

(* The next deployment has its turn only when this one is done and removed.*)
LEMMA TearDownKeepsDInv ==
  ASSUME DInv, TearDown
  PROVE  DInv'
<1>1. /\ pc = "finally" /\ Down
      /\ UNCHANGED <<world, call, waiting, thrown, started, fresh, passed>>
  BY DEF TearDown
<1>2. /\ server' \in [Stacks -> {"absent", "booting", "temporary",
                                 "restarting", "serving"}]
      /\ \A d \in started \ stuck' : server'[d] = "absent"
  BY <1>1, DownRemoves DEF DInv
<1>3. CASE thrown
  <2>1. Leave(TRUE) /\ UNCHANGED turn
    BY <1>3 DEF TearDown, Continue
  <2> QED BY <1>1, <1>2, <2>1, LeavingInErrorKeepsDInv
<1>4. CASE ~ thrown
  <2>1. /\ pc' = IF turn = Len(Deployments) THEN "memorydb" ELSE "down"
        /\ turn' = IF turn = Len(Deployments) THEN turn ELSE turn + 1
        /\ exit' = exit
    BY <1>4 DEF TearDown, Continue
  <2>2. RunTypeOK'
    <3>1. turn' \in 1..Len(Deployments)
      BY <2>1, DeploymentsInOrder DEF DInv, RunTypeOK
    <3> QED BY <1>1, <1>2, <2>1, <3>1 DEF DInv, RunTypeOK, world, waiting
  <2>3. ControlOK'
    BY <1>1, <1>4, <2>1 DEF DInv, ControlOK
  <2>4. passed' = First(turn)
    BY <1>1, <1>4 DEF DInv, NoneSkipped
  <2>5. NoneSkipped'
    <3>1. CASE turn = Len(Deployments)
      BY <1>1, <2>1, <2>3, <2>4, <3>1, DeploymentsInOrder
      DEF NoneSkipped, ControlOK
    <3>2. CASE turn # Len(Deployments)
      <4>1. turn' - 1 = turn
        BY <2>1, <3>2 DEF DInv, RunTypeOK
      <4> QED BY <2>1, <2>3, <2>4, <3>2, <4>1 DEF NoneSkipped, ControlOK
    <3> QED BY <3>1, <3>2
  <2>6. NothingLeft' /\ SoundSoFar'
    BY <1>1, <1>2, <2>1 DEF NothingLeft, SoundSoFar
  <2> QED BY <2>2, <2>3, <2>5, <2>6 DEF DInv
<1> QED BY <1>3, <1>4

LEMMA NextKeepsDInv == DInv /\ [Next]_vars => DInv'
<1> SUFFICES ASSUME DInv, [Next]_vars PROVE DInv'
  OBVIOUS
<1>1. CASE UNCHANGED vars
  <2>1. UNCHANGED <<memorydb, server, pc, turn, left, streak, thrown, exit,
                    started, fresh, stuck, passed>>
    BY <1>1 DEF vars, world, waiting, history
  <2>2. current' = current
    BY <2>1 DEF current
  <2> QED BY <2>1, <2>2 DEF DInv, RunTypeOK, ControlOK, NoneSkipped,
                            NothingLeft, SoundSoFar
<1>2. CASE Resolve
  <2>1. /\ pc = "resolve" /\ pc' = "down"
        /\ UNCHANGED <<memorydb, server, turn, left, streak, thrown, exit,
                       started, fresh, stuck, passed>>
    BY <1>2 DEF Resolve, world, waiting, history
  <2>2. current' = current
    BY <2>1 DEF current
  <2> QED BY <2>1, <2>2 DEF DInv, RunTypeOK, ControlOK, NoneSkipped,
                            NothingLeft, SoundSoFar
<1>3. CASE ClearStack
  <2>1. /\ pc = "down" /\ pc' = "up" /\ Down
        /\ UNCHANGED <<memorydb, turn, left, streak, thrown, exit, started,
                       fresh, passed>>
    BY <1>3 DEF ClearStack, world, waiting
  <2>2. current' = current
    BY <2>1 DEF current
  <2>3. /\ server' \in [Stacks -> {"absent", "booting", "temporary",
                                   "restarting", "serving"}]
        /\ \A d \in started \ stuck' : server'[d] = "absent"
        /\ server'[current] = "absent" \/ current \in stuck'
    BY <2>1, DownRemoves DEF DInv
  <2>4. RunTypeOK'
    BY <2>1, <2>3 DEF DInv, RunTypeOK
  <2>5. ControlOK' /\ NoneSkipped'
    BY <2>1 DEF DInv, ControlOK, NoneSkipped
  <2> QED BY <2>1, <2>2, <2>3, <2>4, <2>5 DEF DInv, NothingLeft, SoundSoFar
<1>4. CASE StackUp
  BY <1>4, StackUpKeepsDInv
<1>5. CASE UpFails
  BY <1>5, ThrowKeepsDInv DEF UpFails
<1>6. ASSUME NEW answer \in BOOLEAN, Probe(answer)
      PROVE  DInv'
  BY <1>6, ProbeKeepsDInv
<1>7. CASE WaitFails \/ ProbeThrows \/ TestsFail
  BY <1>7, ThrowKeepsDInv DEF WaitFails, ProbeThrows, TestsFail
<1>8. CASE TestsPass
  <2>1. /\ pc = "tests" /\ pc' = "finally"
        /\ passed' = passed \cup {current}
        /\ UNCHANGED <<memorydb, server, turn, left, streak, thrown, exit,
                       started, fresh, stuck>>
    BY <1>8 DEF TestsPass, world, waiting
  <2>2. current' = current
    BY <2>1 DEF current
  <2>3. passed' = First(turn')
    BY <2>1, FirstGrows, DeploymentsInOrder
    DEF DInv, RunTypeOK, NoneSkipped, current
  <2>4. RunTypeOK' /\ ControlOK'
    BY <2>1 DEF DInv, RunTypeOK, ControlOK
  <2>5. NoneSkipped'
    BY <2>1, <2>3, <2>4 DEF NoneSkipped, ControlOK
  <2> QED BY <2>1, <2>2, <2>4, <2>5 DEF DInv, NothingLeft, SoundSoFar
<1>9. CASE TearDown
  BY <1>9, TearDownKeepsDInv
<1>10. CASE MemoryDbTests
  <2>1. /\ pc = "memorydb" /\ pc' = "exit"
        /\ exit' \in {"success", "failure"}
        /\ UNCHANGED <<memorydb, server, turn, left, streak, thrown,
                       started, fresh, stuck>>
    BY <1>10 DEF MemoryDbTests, Leave, world, waiting
  <2>2. exit' = "success" =>
          passed' = Stacks \cup (IF memorydb = "off" THEN {} ELSE {MemoryDb})
    BY <1>10 DEF MemoryDbTests, Leave, DInv, NoneSkipped
  <2>3. RunTypeOK' /\ ControlOK'
    BY <2>1 DEF DInv, RunTypeOK, ControlOK
  <2>4. NoneSkipped'
    BY <2>1, <2>2 DEF NoneSkipped
  <2> QED BY <2>1, <2>3, <2>4 DEF DInv, NothingLeft, SoundSoFar
<1>11. CASE ClearThrows
  BY <1>11, LeavingInErrorKeepsDInv
  DEF ClearThrows, history, DInv, RunTypeOK, NothingLeft
<1>12. CASE TearDownThrows
  BY <1>12, LeavingInErrorKeepsDInv
  DEF TearDownThrows, DInv, RunTypeOK, NothingLeft
<1>13. ASSUME NEW d \in Stacks, Boot(d)
       PROVE  DInv'
  BY <1>13, BootKeepsDInv
<1>14. CASE Restart
  <2>1. /\ pc' = "resolve" /\ turn' = 1 /\ left' = 0 /\ streak' = 0
        /\ thrown' = FALSE /\ exit' = "none"
        /\ started' = {} /\ passed' = {}
        /\ UNCHANGED <<memorydb, server>>
    BY <1>14 DEF Restart
  <2>2. RunTypeOK'
    <3>1. turn' \in 1..Len(Deployments) /\ left' \in 0..MaxProbes
      BY <2>1, DeploymentsInOrder, MaxProbesAssumption
    <3> QED BY <2>1, <3>1 DEF DInv, RunTypeOK
  <2>3. passed' = First(turn' - 1)
    BY <2>1, DeploymentsInOrder
  <2>4. NoneSkipped'
    BY <2>1, <2>3 DEF NoneSkipped
  <2> QED BY <2>1, <2>2, <2>4 DEF DInv, ControlOK, NothingLeft, SoundSoFar
<1> QED BY <1>1, <1>2, <1>3, <1>4, <1>5, <1>6, <1>7, <1>8, <1>9, <1>10,
           <1>11, <1>12, <1>13, <1>14 DEF Next, Step, NotStarted

(* The strengthened invariant holds in every reachable state.              *)
THEOREM RunInvariance == Safety => []DInv
BY InitDInv, NextKeepsDInv, PTL DEF Safety

(* The tests run against the server that stays, on a fresh stack unless    *)
(* Docker has refused to remove the old one.                               *)
THEOREM TestsOnSoundStacks == Safety => []TestsRunOnSoundStacks
<1>1. DInv => TestsRunOnSoundStacks
  BY DEF DInv, SoundSoFar, TestsRunOnSoundStacks
<1> QED BY <1>1, RunInvariance, PTL

(* The script succeeds only with all tests passed, and leaves nothing that *)
(* it has started, in each of its runs.                                    *)
THEOREM HonestAndClean == Safety => []EndsHonestAndClean
<1>1. DInv => EndsHonestAndClean
  BY DEF DInv, NoneSkipped, NothingLeft, EndsHonestAndClean
<1> QED BY <1>1, RunInvariance, PTL
=============================================================================
