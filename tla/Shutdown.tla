------------------------------ MODULE Shutdown ------------------------------
(***************************************************************************)
(* How bull-queue.js closes what it has opened. A pair is a BullMQ owner   *)
(* (Queue, Worker, QueueEvents or FlowProducer) with the ioredis client    *)
(* created for it; on PostgreSQL the owner has no such companion.          *)
(* closeResourcePair() closes the owner within a budget, cuts it off when  *)
(* the budget runs out, and then closes the companion the same way.        *)
(*                                                                         *)
(* Time passes in whole seconds and never past a timer that is due. What   *)
(* the datastore does is arbitrary: an owner's close() may return, reject  *)
(* or hang, and a client may become ready or lose its connection meanwhile.*)
(***************************************************************************)
EXTENDS Integers

CONSTANTS Pair,              \* owner/connection pairs
          Companion,         \* the pairs with an ioredis client (Redis)
          WorkerPair,        \* the pairs whose owner is a BullMQ Worker
          CLOSE_GRACE,       \* CLOSE_GRACE_MS, in seconds
          GRACEFUL_CLOSE,    \* GRACEFUL_CLOSE_MS
          POSTGRES_CLOSE,    \* POSTGRES_CLOSE_MS
          NODE_CLOSE_TIMEOUT,\* how long Node-RED waits for a node's done()
          MaxCloses          \* bound: closings of one pair that are counted

ASSUME PairAssumption == Companion \subseteq Pair /\ WorkerPair \subseteq Pair
ASSUME BudgetAssumption ==
  /\ CLOSE_GRACE \in Nat \ {0} /\ GRACEFUL_CLOSE \in Nat
  /\ POSTGRES_CLOSE \in Nat /\ NODE_CLOSE_TIMEOUT \in Nat
  /\ CLOSE_GRACE <= GRACEFUL_CLOSE
  /\ GRACEFUL_CLOSE + CLOSE_GRACE < NODE_CLOSE_TIMEOUT
  /\ POSTGRES_CLOSE < NODE_CLOSE_TIMEOUT
ASSUME MaxClosesAssumption == MaxCloses \in Nat \ {0}

VARIABLES
  step,    \* where closeResourcePair stands
  ready,   \* the companions whose ioredis status is "ready"
  client,  \* what was done to the companion: "open", "quit" or "cut"
  left,    \* time left of the budget settleWithin is waiting for
  elapsed, \* time since the pair began to close
  live,    \* history: pairs whose companion was ready when closing began
  drained, \* owners whose close() has returned or rejected in time
  locks,   \* workers whose lock-renewal timer runs
  stalled, \* workers whose stalled-check timer runs
  refused, \* pairs of which a close() or quit() has rejected
  errors,  \* pairs whose closeResourcePair() will throw
  closes   \* how often each pair was told to close

socketVars == <<ready, client>>
timerVars == <<locks, stalled>>
clockVars == <<left, elapsed>>
outcomeVars == <<drained, refused, errors>>
shutVars ==
  <<step, socketVars, clockVars, live, outcomeVars, timerVars, closes>>

Steps == {"open", "owner", "force", "connection", "quit", "closed"}
Waiting == {p \in Pair : step[p] \in {"owner", "quit"}}

ShutInit ==
  /\ step = [p \in Pair |-> "open"]
  /\ ready \in SUBSET Companion
  /\ client = [p \in Pair |-> "open"]
  /\ left = [p \in Pair |-> 0]
  /\ elapsed = [p \in Pair |-> 0]
  /\ live = {}
  /\ drained = {}
  /\ locks = WorkerPair
  /\ stalled \in SUBSET WorkerPair
  /\ refused = {}
  /\ errors = {}
  /\ closes = [p \in Pair |-> 0]
-----------------------------------------------------------------------------
(* Defect: the budget of an owner without a companion is not a number.     *)
BudgetForMissing(p) ==
  IF p \in Companion THEN CLOSE_GRACE ELSE 0 - CLOSE_GRACE

(* Defect: one short budget for every owner.                               *)
AlwaysShortBudget(p) == CLOSE_GRACE

(* closeBudgetFor(connection), sampled once, when the closing begins.      *)
CloseBudgetFor(p) ==
  IF p \notin Companion THEN POSTGRES_CLOSE
  ELSE IF p \in ready THEN GRACEFUL_CLOSE ELSE CLOSE_GRACE

(* closeResourcePair() of every pair of S: close() of the owners is called *)
(* and waited for within their budgets.                                    *)
Begin(S) ==
  /\ step' = [p \in Pair |-> IF p \in S THEN "owner" ELSE step[p]]
  /\ left' = [p \in Pair |-> IF p \in S THEN CloseBudgetFor(p) ELSE left[p]]
  /\ elapsed' = [p \in Pair |-> IF p \in S THEN 0 ELSE elapsed[p]]
  /\ live' = live \cup (S \cap ready)
  /\ closes' = [p \in Pair |-> IF p \in S /\ closes[p] < MaxCloses
                               THEN closes[p] + 1 ELSE closes[p]]
  /\ UNCHANGED <<socketVars, outcomeVars, timerVars>>

(* close() of the owner returns in time; a Worker has stopped its timers.  *)
OwnerCloses(p) ==
  /\ step[p] = "owner"
  /\ step' = [step EXCEPT ![p] = "connection"]
  /\ drained' = drained \cup {p}
  /\ locks' = locks \ {p}
  /\ stalled' = stalled \ {p}
  /\ UNCHANGED <<socketVars, clockVars, live, refused, errors, closes>>

(* close() of the owner rejects in time: settled() takes it for closed.    *)
OwnerRejects(p) ==
  /\ step[p] = "owner"
  /\ step' = [step EXCEPT ![p] = "connection"]
  /\ drained' = drained \cup {p}
  /\ refused' = refused \cup {p}
  /\ UNCHANGED <<socketVars, clockVars, live, errors, timerVars, closes>>

(* Defect: the owner's close() is awaited without a budget.                *)
NeverForce(p) == FALSE /\ UNCHANGED shutVars

(* The budget is spent: forceDisconnect() cuts the raw clients of a Redis  *)
(* owner, the companion among them, whose status may stay "ready" until    *)
(* its stream has closed, and calls lockManager.close().                   *)
ForceDisconnect(p) ==
  /\ step[p] = "owner" /\ left[p] = 0
  /\ step' = [step EXCEPT ![p] = "force"]
  /\ client' = [client EXCEPT ![p] = IF p \in Companion THEN "cut" ELSE @]
  /\ ready' \in {ready, ready \ {p}}
  /\ UNCHANGED <<clockVars, live, outcomeVars, timerVars, closes>>

(* Defect: the stalled-check timer is not stopped.                         *)
ForceLocksOnly(p) ==
  /\ step[p] = "force"
  /\ step' = [step EXCEPT ![p] = "connection"]
  /\ locks' = locks \ {p}
  /\ UNCHANGED <<socketVars, clockVars, live, outcomeVars, stalled, closes>>

(* lockManager.close() returns, and stalledCheckStopper() is called.       *)
ForceStopsTimers(p) ==
  /\ step[p] = "force"
  /\ step' = [step EXCEPT ![p] = "connection"]
  /\ locks' = locks \ {p}
  /\ stalled' = stalled \ {p}
  /\ UNCHANGED <<socketVars, clockVars, live, outcomeVars, closes>>

(* lockManager.close() of a worker rejects: forceDisconnect() ends there,  *)
(* closeResourcePair() keeps the error and goes on to the companion.       *)
ForceRejects(p) ==
  /\ step[p] = "force" /\ p \in WorkerPair
  /\ step' = [step EXCEPT ![p] = "connection"]
  /\ errors' = errors \cup {p}
  /\ UNCHANGED <<socketVars, clockVars, live, drained, refused, timerVars,
                 closes>>

(* Defect: the companion's quit() gets a budget like its owner's.          *)
QuitWithBudget(p) ==
  /\ step[p] = "connection"
  /\ p \in ready
  /\ step' = [step EXCEPT ![p] = "quit"]
  /\ left' = [left EXCEPT ![p] = CloseBudgetFor(p)]
  /\ UNCHANGED <<socketVars, elapsed, live, outcomeVars, timerVars, closes>>

(* A companion that is ready is asked to quit() within CLOSE_GRACE.        *)
Quit(p) ==
  /\ step[p] = "connection"
  /\ p \in ready
  /\ step' = [step EXCEPT ![p] = "quit"]
  /\ left' = [left EXCEPT ![p] = CLOSE_GRACE]
  /\ UNCHANGED <<socketVars, elapsed, live, outcomeVars, timerVars, closes>>

(* quit() returns in time.                                                 *)
QuitSettles(p) ==
  /\ step[p] = "quit"
  /\ step' = [step EXCEPT ![p] = "closed"]
  /\ client' = [client EXCEPT ![p] = "quit"]
  /\ ready' = ready \ {p}
  /\ UNCHANGED <<clockVars, live, outcomeVars, timerVars, closes>>

(* quit() rejects in time: settled() takes it for closed.                  *)
QuitRejects(p) ==
  /\ step[p] = "quit"
  /\ step' = [step EXCEPT ![p] = "closed"]
  /\ refused' = refused \cup {p}
  /\ UNCHANGED <<socketVars, clockVars, live, drained, errors, timerVars,
                 closes>>

(* A companion that is not ready, or does not quit in time, is cut; on     *)
(* PostgreSQL there is none.                                               *)
Cut(p) ==
  /\ \/ step[p] = "connection" /\ p \notin ready
     \/ step[p] = "quit" /\ left[p] = 0
  /\ step' = [step EXCEPT ![p] = "closed"]
  /\ client' = [client EXCEPT ![p] = IF p \in Companion THEN "cut" ELSE @]
  /\ ready' = ready \ {p}
  /\ UNCHANGED <<clockVars, live, outcomeVars, timerVars, closes>>

(* The network: a client that is not closed gets or loses its connection.  *)
Reconnect(p) ==
  /\ p \in Companion \ ready /\ client[p] = "open"
  /\ ready' = ready \cup {p}
  /\ UNCHANGED <<step, client, clockVars, live, outcomeVars, timerVars,
                 closes>>

Disconnect(p) ==
  /\ p \in ready
  /\ ready' = ready \ {p}
  /\ UNCHANGED <<step, client, clockVars, live, outcomeVars, timerVars,
                 closes>>

(* A second passes while every pair that is closing waits for something;   *)
(* timers that are due and steps that need no waiting come first.          *)
Tick ==
  /\ Waiting # {}
  /\ \A p \in Pair : step[p] \notin {"force", "connection"}
  /\ \A p \in Waiting : left[p] > 0
  /\ left' = [p \in Pair |-> IF p \in Waiting THEN left[p] - 1 ELSE left[p]]
  /\ elapsed' = [p \in Pair |-> IF p \in Waiting THEN elapsed[p] + 1
                                ELSE elapsed[p]]
  /\ UNCHANGED <<step, socketVars, live, outcomeVars, timerVars, closes>>

CloseStep(p) ==
  \/ OwnerCloses(p)
  \/ OwnerRejects(p)
  \/ ForceDisconnect(p)
  \/ ForceStopsTimers(p)
  \/ ForceRejects(p)
  \/ Quit(p)
  \/ QuitSettles(p)
  \/ QuitRejects(p)
  \/ Cut(p)
  \/ Reconnect(p)
  \/ Disconnect(p)

ShutNext ==
  \/ \E S \in SUBSET Pair :
       S # {} /\ (\A p \in S : step[p] = "open") /\ Begin(S)
  \/ \E p \in Pair : CloseStep(p)
  \/ Tick

(* Timers fire and code that need not wait goes on. Neither the network    *)
(* nor BullMQ's close() is assumed to do anything.                         *)
ShutFairness ==
  /\ WF_shutVars(Tick)
  /\ \A p \in Pair :
       /\ WF_shutVars(ForceDisconnect(p))
       /\ WF_shutVars(ForceStopsTimers(p) \/ ForceRejects(p))
       /\ WF_shutVars(Quit(p) \/ Cut(p))

ShutSafety == ShutInit /\ [][ShutNext]_shutVars
ShutSpec == ShutSafety /\ ShutFairness
-----------------------------------------------------------------------------
(* Every variable stays in its range; no timer is armed with less than no  *)
(* time, which setTimeout would take for one that is due at once.          *)
ShutTypeOK ==
  /\ step \in [Pair -> Steps]
  /\ ready \subseteq Companion
  /\ client \in [Pair -> {"open", "quit", "cut"}]
  /\ left \in [Pair -> Nat] /\ elapsed \in [Pair -> Nat]
  /\ live \subseteq Companion
  /\ drained \subseteq Pair /\ refused \subseteq Pair /\ errors \subseteq Pair
  /\ locks \subseteq WorkerPair /\ stalled \subseteq WorkerPair
  /\ closes \in [Pair -> 0..MaxCloses]

(* The time an owner is promised, by what its pair was when it began to    *)
(* close: PostgreSQL, a live Redis connection, or an unreachable one.      *)
Promised(p) ==
  IF p \notin Companion THEN POSTGRES_CLOSE
  ELSE IF p \in live THEN GRACEFUL_CLOSE ELSE CLOSE_GRACE

(* However the datastore behaves, a pair is closed before Node-RED gives   *)
(* up on its node, and soon when it is unreachable: the owner's time and   *)
(* the companion's never add up to Node-RED's node close timeout ("the     *)
(* ceiling stays well under Node-RED's own ~15s node close timeout").      *)
ClosedInTime ==
  \A p \in Pair :
    /\ elapsed[p] <= Promised(p) + CLOSE_GRACE
    /\ elapsed[p] < NODE_CLOSE_TIMEOUT

(* A worker that drains its jobs over a live connection is not cut short,  *)
(* nor a PostgreSQL owner before pg's own timeout: closing goes on past an *)
(* owner that is not done only after all the time it was promised.         *)
DrainIsNotCutShort ==
  \A p \in Pair :
    step[p] \notin {"open", "owner"} =>
      p \in drained \/ elapsed[p] >= Promised(p)

(* Nothing of a closed pair keeps the process alive or renews locks on     *)
(* jobs nobody processes, unless BullMQ's or ioredis's own cleanup failed. *)
NothingOutlivesClose ==
  \A p \in Pair :
    step[p] = "closed" /\ p \notin errors /\ p \notin refused =>
      /\ p \notin locks /\ p \notin stalled
      /\ p \in Companion => client[p] # "open"

(* ARCHITECTURE.md says of shutdown that "every step is best-effort — one  *)
(* step's error does not stop the ones after it": a worker that had to be  *)
(* cut off has its stalled-check timer stopped, whatever else has failed.  *)
EveryStepIsTried ==
  \A p \in Pair : step[p] = "closed" /\ p \notin drained => p \notin stalled

(* Shutdown never hangs: what begins to close is closed.                   *)
CloseTerminates ==
  \A p \in Pair : step[p] = "owner" ~> step[p] = "closed"
=============================================================================
