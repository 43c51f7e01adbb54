--------------------------- MODULE DeploymentTests ---------------------------
(***************************************************************************)
(* scripts/run-deployment-tests.js: one process that starts one Docker     *)
(* deployment after the other, waits until its server answers, runs the    *)
(* integration tests against it and tears it down, whatever has failed.    *)
(* Last come the tests of a MemoryDB that is configured from outside.      *)
(*                                                                         *)
(* Every command may return what it was run for, return an error status,   *)
(* or not start at all, which run() throws even where failure is allowed.  *)
(* The script may be killed between two commands and started again, and    *)
(* finds the stacks as the last run has left them.                         *)
(***************************************************************************)
EXTENDS Naturals, Sequences, SequencesExt

CONSTANTS Deployments, \* the sequence of deployments
          Postgres,    \* those of them that run PostgreSQL
          MemoryDb,    \* the deployment that is not the script's own
          MaxProbes,   \* bound: probes that fit in one waiting time
          MaxRuns      \* bound: times the script is started

Stacks == ToSet(Deployments)

(* There is a deployment to test, and time for some number of probes.      *)
ASSUME DeploymentsAssumption ==
  Deployments \in Seq(Stacks) /\ Deployments # <<>>

ASSUME MaxProbesAssumption == MaxProbes \in Nat

VARIABLES
  docker,   \* the ways to call docker that work: "docker", "sudo"
  memorydb, \* the environment for MemoryDB: "off", "incomplete" or "on"
  runs,     \* how often the script was started
  server,   \* the server of each stack
  call,     \* dockerCommand
  pc,       \* where the script stands
  turn,     \* the deployment that it works on
  left,     \* probes left before the deadline
  streak,   \* the probes in a row that PostgreSQL has answered
  thrown,   \* an error is on its way through a finally
  exit,     \* the exit status of the script
  started,  \* history: stacks this run has tried to start
  fresh,    \* history: stacks this run has started from nothing
  stuck,    \* history: stacks whose last "down" was refused
  passed    \* history: deployments whose tests have passed in this run

world == <<docker, memorydb, runs>>
waiting == <<left, streak>>
history == <<started, fresh, stuck, passed>>
vars == <<world, server, call, pc, turn, waiting, thrown, exit, history>>

current == Deployments[turn]

Init ==
  /\ docker \in SUBSET {"docker", "sudo"}
  /\ memorydb \in {"off", "incomplete", "on"}
  /\ runs = 1
  /\ server = [d \in Stacks |-> "absent"]
  /\ call = "docker" /\ pc = "resolve" /\ turn = 1
  /\ left = 0 /\ streak = 0
  /\ thrown = FALSE /\ exit = "none"
  /\ started = {} /\ fresh = {} /\ stuck = {} /\ passed = {}

(* The script ends by itself, or in the handler that sets the exit status. *)
Leave(error) ==
  /\ pc' = "exit"
  /\ exit' = IF error THEN "failure" ELSE "success"

(* resolveDockerCommand()                                                  *)
Resolve ==
  /\ pc = "resolve"
  /\ call' = IF "docker" \notin docker /\ "sudo" \in docker
             THEN "sudo" ELSE "docker"
  /\ pc' = "down"
  /\ UNCHANGED <<world, server, turn, waiting, thrown, exit, history>>

(* "down -v" removes the stack with its volumes, is refused, or does not   *)
(* start (the call below).                                                 *)
Down ==
  \/ /\ call \in docker
     /\ server' = [server EXCEPT ![current] = "absent"]
     /\ stuck' = stuck \ {current}
  \/ /\ stuck' = stuck \cup {current}
     /\ UNCHANGED server

(* runDeployment() starts by removing what is left of the stack ...        *)
ClearStack ==
  /\ pc = "down"
  /\ Down
  /\ pc' = "up"
  /\ UNCHANGED <<world, call, turn, waiting, thrown, exit, started, fresh,
                 passed>>

(* ... and ends the script when that command does not even start.          *)
ClearThrows ==
  /\ pc = "down"
  /\ Leave(TRUE)
  /\ UNCHANGED <<world, server, call, turn, waiting, thrown, history>>

(* An error inside the try goes to its finally.                            *)
Throw ==
  /\ pc' = "finally"
  /\ thrown' = TRUE
  /\ UNCHANGED <<world, call, turn, waiting, exit, stuck, passed>>

(* "up -d": an existing stack goes on as it is.                            *)
Start ==
  /\ server' = [server EXCEPT ![current] = IF @ = "absent" THEN "booting"
                                           ELSE @]
  /\ fresh' = IF server[current] = "absent" THEN fresh \cup {current}
              ELSE fresh
  /\ started' = started \cup {current}

StackUp ==
  /\ pc = "up" /\ call \in docker
  /\ Start
  /\ pc' = "wait"
  /\ left' = MaxProbes /\ streak' = 0
  /\ UNCHANGED <<world, call, turn, thrown, exit, stuck, passed>>

(* "up -d" fails, with or without having started the containers.           *)
UpFails ==
  /\ pc = "up"
  /\ \/ call \in docker /\ Start
     \/ UNCHANGED <<server, started, fresh>>
  /\ Throw

(* A server comes up. The entrypoint of PostgreSQL starts one during       *)
(* initdb, which is found on the unix socket only, and restarts it.        *)
AfterPhase ==
  [booting |-> "temporary", temporary |-> "restarting",
   restarting |-> "serving"]

Boot(d) ==
  /\ server[d] \notin {"absent", "serving"}
  /\ server' = [server EXCEPT ![d] = IF d \in Postgres THEN AfterPhase[@]
                                     ELSE "serving"]
  /\ UNCHANGED <<world, call, pc, turn, waiting, thrown, exit, history>>

(* Defect: PostgreSQL is probed over the unix socket.                      *)
AnswersOnSocket(d) == server[d] \in {"temporary", "serving"}

(* The probe of a fixture: PING, CLUSTER INFO, SENTINEL or pg_isready -h.  *)
Answers(d) == server[d] = "serving"

Enough == IF current \in Postgres THEN 2 ELSE 1

(* Defect: only probes that were answered bring the deadline nearer.       *)
ProbeForEver(answer) ==
  /\ pc = "wait" /\ left > 0
  /\ answer => call \in docker /\ Answers(current)
  /\ left' = IF answer THEN left - 1 ELSE left
  /\ streak' = IF answer THEN streak + 1 ELSE 0
  /\ pc' = IF answer /\ streak + 1 >= Enough THEN "tests" ELSE "wait"
  /\ UNCHANGED <<world, server, call, turn, thrown, exit, history>>

(* One round of waitUntil(): a probe may go unanswered for other reasons   *)
(* than the server's; PostgreSQL has to answer twice in a row.             *)
Probe(answer) ==
  /\ pc = "wait" /\ left > 0
  /\ answer => call \in docker /\ Answers(current)
  /\ left' = left - 1
  /\ streak' = IF answer THEN streak + 1 ELSE 0
  /\ pc' = IF answer /\ streak + 1 >= Enough THEN "tests" ELSE "wait"
  /\ UNCHANGED <<world, server, call, turn, thrown, exit, history>>

(* The deadline has passed.                                                *)
WaitFails ==
  /\ pc = "wait" /\ left = 0
  /\ Throw
  /\ UNCHANGED <<server, started, fresh>>

(* The command of a probe does not start.                                  *)
ProbeThrows ==
  /\ pc = "wait" /\ left > 0
  /\ Throw
  /\ UNCHANGED <<server, started, fresh>>

(* runExternalIntegration(): the tests pass or throw.                      *)
TestsPass ==
  /\ pc = "tests"
  /\ passed' = passed \cup {current}
  /\ pc' = "finally"
  /\ UNCHANGED <<world, server, call, turn, waiting, thrown, exit, started,
                 fresh, stuck>>

TestsFail ==
  /\ pc = "tests"
  /\ Throw
  /\ UNCHANGED <<server, started, fresh>>

Continue ==
  IF thrown THEN Leave(TRUE) /\ UNCHANGED turn
  ELSE /\ pc' = IF turn = Len(Deployments) THEN "memorydb" ELSE "down"
       /\ turn' = IF turn = Len(Deployments) THEN turn ELSE turn + 1
       /\ UNCHANGED exit

(* Defect: the stack is torn down only after its tests.                    *)
TearDownAfterTests ==
  /\ pc = "finally"
  /\ IF thrown THEN UNCHANGED <<server, stuck>> ELSE Down
  /\ Continue
  /\ UNCHANGED <<world, call, waiting, thrown, started, fresh, passed>>

(* finally: the stack is torn down; then the error goes on to the last     *)
(* handler, or the next deployment has its turn.                           *)
TearDown ==
  /\ pc = "finally"
  /\ Down
  /\ Continue
  /\ UNCHANGED <<world, call, waiting, thrown, started, fresh, passed>>

(* That command does not start: its error takes the place of the other.    *)
TearDownThrows ==
  /\ pc = "finally"
  /\ Leave(TRUE)
  /\ stuck' = stuck \cup {current}
  /\ UNCHANGED <<world, server, call, turn, waiting, thrown, started, fresh,
                 passed>>

(* memoryDbEnv() and the tests of MemoryDB.                                *)
MemoryDbTests ==
  /\ pc = "memorydb"
  /\ \/ memorydb = "off" /\ Leave(FALSE) /\ UNCHANGED passed
     \/ memorydb \in {"incomplete", "on"} /\ Leave(TRUE) /\ UNCHANGED passed
     \/ memorydb = "on" /\ Leave(FALSE) /\ passed' = passed \cup {MemoryDb}
  /\ UNCHANGED <<world, server, call, turn, waiting, thrown, started, fresh,
                 stuck>>

(* The script is killed, or has ended, and is started again.               *)
Restart ==
  /\ runs < MaxRuns
  /\ runs' = runs + 1
  /\ call' = "docker" /\ pc' = "resolve" /\ turn' = 1
  /\ left' = 0 /\ streak' = 0
  /\ thrown' = FALSE /\ exit' = "none"
  /\ started' = {} /\ fresh' = {} /\ stuck' = {} /\ passed' = {}
  /\ UNCHANGED <<docker, memorydb, server>>

(* What the script does when its commands return ...                       *)
Step ==
  \/ Resolve
  \/ ClearStack
  \/ StackUp \/ UpFails
  \/ \E answer \in BOOLEAN : Probe(answer)
  \/ WaitFails
  \/ TestsPass \/ TestsFail
  \/ TearDown
  \/ MemoryDbTests

(* ... and when they do not even start.                                    *)
NotStarted == ClearThrows \/ ProbeThrows \/ TearDownThrows

Next ==
  \/ Step
  \/ NotStarted
  \/ \E d \in Stacks : Boot(d)
  \/ Restart

Safety == Init /\ [][Next]_vars

(* The commands return: spawnSync() has no timeout of its own. Servers are *)
(* not assumed to come up, nor commands to be missing.                     *)
Spec == Safety /\ WF_vars(Step)
-----------------------------------------------------------------------------
(* The tests of a deployment run against the server that stays, never the  *)
(* one PostgreSQL restarts after initdb ("the READINESS TRAP"), on a stack *)
(* that this run has started from nothing, unless Docker has refused to    *)
(* remove the old one.                                                     *)
TestsRunOnSoundStacks ==
  pc = "tests" =>
    /\ server[current] = "serving"
    /\ current \in fresh \cup stuck

(* The script succeeds only if the tests of every deployment have passed,  *)
(* MemoryDB's when it is enabled; and however it ends, and whenever it     *)
(* goes on to the next deployment, nothing it has started is left behind   *)
(* unless Docker has refused to remove it.                                 *)
EndsHonestAndClean ==
  /\ exit = "success" =>
       passed = Stacks \cup (IF memorydb = "off" THEN {} ELSE {MemoryDb})
  /\ \A d \in started \ stuck :
       server[d] = "absent" \/ (d = current /\ pc # "exit")

(* The script ends, also when a server never comes up.                     *)
ScriptEnds == (pc = "resolve") ~> (pc = "exit")
=============================================================================
