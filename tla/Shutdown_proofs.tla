--------------------------- MODULE Shutdown_proofs ---------------------------
(***************************************************************************)
(* Proofs about closing owner/connection pairs, for any pairs and any      *)
(* budgets that stand to each other as BudgetAssumption says, and then     *)
(* about the config node that owns them, for any resources it may build.   *)
(***************************************************************************)
EXTENDS ConfigNode, TLAPS

(* A pair that has not begun to close has no history.                      *)
Fresh ==
  \A p \in Pair : step[p] = "open" => /\ elapsed[p] = 0
                                      /\ p \notin live /\ p \notin drained

(* How the time that has passed adds up with the time that is left.        *)
Timing ==
  \A p \in Pair :
    /\ step[p] = "owner" => elapsed[p] + left[p] = Promised(p)
    /\ step[p] \in {"force", "connection"} => elapsed[p] <= Promised(p)
    /\ step[p] = "quit" =>
         /\ p \in Companion
         /\ elapsed[p] + left[p] <= Promised(p) + CLOSE_GRACE
    /\ step[p] = "closed" =>
         elapsed[p] <= Promised(p) + (IF p \in Companion THEN CLOSE_GRACE
                                      ELSE 0)

(* What is stopped and cut by the time a step is reached.                  *)
CleanedUp ==
  \A p \in Pair :
    /\ /\ step[p] \in {"connection", "quit", "closed"}
       /\ p \notin errors /\ p \notin refused
       => p \notin locks /\ p \notin stalled
    /\ /\ step[p] = "closed" /\ p \in Companion /\ p \notin refused
       => client[p] # "open"

SInv == ShutTypeOK /\ Fresh /\ Timing /\ DrainIsNotCutShort /\ CleanedUp
-----------------------------------------------------------------------------
(* Every budget is a number of seconds.                                    *)
LEMMA BudgetsAreTimes ==
  \A p : CloseBudgetFor(p) \in Nat /\ Promised(p) \in Nat
BY BudgetAssumption DEF CloseBudgetFor, Promised

(* The initial states satisfy the invariant.                               *)
LEMMA InitSInv == ShutInit => SInv
<1> SUFFICES ASSUME ShutInit PROVE SInv
  OBVIOUS
<1>1. ShutTypeOK
  BY PairAssumption, MaxClosesAssumption DEF ShutInit, ShutTypeOK, Steps
<1> QED BY <1>1 DEF SInv, ShutInit, Fresh, Timing, DrainIsNotCutShort,
                    CleanedUp

(* Pairs begin to close with the time they are promised.                   *)
LEMMA BeginKeepsSInv ==
  ASSUME SInv, NEW S \in SUBSET Pair, \A p \in S : step[p] = "open", Begin(S)
  PROVE  SInv'
<1>1. \A p \in Pair :
        /\ step'[p] = IF p \in S THEN "owner" ELSE step[p]
        /\ left'[p] = IF p \in S THEN CloseBudgetFor(p) ELSE left[p]
        /\ elapsed'[p] = IF p \in S THEN 0 ELSE elapsed[p]
  BY DEF Begin
<1>2. live' = live \cup (S \cap ready)
  BY DEF Begin
<1>3. \A p \in Pair : Promised(p)' = IF p \in S THEN CloseBudgetFor(p)
                                     ELSE Promised(p)
  BY <1>2 DEF Promised, CloseBudgetFor, SInv, Fresh
<1>4. UNCHANGED <<socketVars, outcomeVars, timerVars>>
  BY DEF Begin
<1>5. ShutTypeOK'
  <2>1. /\ step' \in [Pair -> Steps]
        /\ left' \in [Pair -> Nat] /\ elapsed' \in [Pair -> Nat]
    BY BudgetsAreTimes DEF Begin, SInv, ShutTypeOK, Steps
  <2>2. closes' \in [Pair -> 0..MaxCloses]
    BY MaxClosesAssumption DEF Begin, SInv, ShutTypeOK
  <2> QED BY <1>2, <1>4, <2>1, <2>2
          DEF SInv, ShutTypeOK, socketVars, outcomeVars, timerVars
<1>6. Fresh'
  BY <1>1, <1>2, <1>4 DEF SInv, Fresh, outcomeVars
<1>7. Timing'
  BY <1>1, <1>3, BudgetsAreTimes DEF SInv, Timing
<1>8. DrainIsNotCutShort'
  BY <1>1, <1>3, <1>4 DEF SInv, DrainIsNotCutShort, outcomeVars
<1>9. CleanedUp'
  BY <1>1, <1>4
     DEF SInv, CleanedUp, outcomeVars, timerVars, socketVars
<1> QED BY <1>5, <1>6, <1>7, <1>8, <1>9 DEF SInv

(* Time passes only where time is left.                                    *)
LEMMA TickKeepsSInv ==
  ASSUME SInv, Tick
  PROVE  SInv'
<1>1. \A p \in Pair :
        /\ left'[p] = IF p \in Waiting THEN left[p] - 1 ELSE left[p]
        /\ elapsed'[p] = IF p \in Waiting THEN elapsed[p] + 1 ELSE elapsed[p]
        /\ left[p] \in Nat /\ elapsed[p] \in Nat
        /\ p \in Waiting => left[p] > 0
        /\ (p \in Waiting) <=> (step[p] \in {"owner", "quit"})
  BY DEF Tick, SInv, ShutTypeOK, Waiting
<1>2. UNCHANGED <<step, socketVars, live, outcomeVars, timerVars, closes>>
  BY DEF Tick
<1>3. \A p \in Pair : Promised(p)' = Promised(p)
  BY <1>2 DEF Promised
<1>4. ShutTypeOK'
  <2>1. left' \in [Pair -> Nat] /\ elapsed' \in [Pair -> Nat]
    BY <1>1 DEF Tick
  <2> QED BY <1>2, <2>1
          DEF SInv, ShutTypeOK, socketVars, outcomeVars, timerVars
<1>5. Fresh'
  BY <1>1, <1>2 DEF SInv, Fresh, outcomeVars
<1>6. Timing'
  BY <1>1, <1>2, <1>3, BudgetsAreTimes, BudgetAssumption DEF SInv, Timing
<1>7. DrainIsNotCutShort'
  BY <1>1, <1>2, <1>3, BudgetsAreTimes
     DEF SInv, DrainIsNotCutShort, outcomeVars
<1>8. CleanedUp'
  BY <1>2 DEF SInv, CleanedUp, outcomeVars, timerVars, socketVars
<1> QED BY <1>4, <1>5, <1>6, <1>7, <1>8 DEF SInv

(* A pair takes a step of its own; time and the other pairs stand still.   *)
LEMMA CloseStepKeepsSInv ==
  ASSUME SInv, NEW p \in Pair, CloseStep(p)
  PROVE  SInv'
<1> USE DEF socketVars, outcomeVars, timerVars, clockVars
<1>1. /\ \A q \in Pair : q # p => step'[q] = step[q] /\ client'[q] = client[q]
      /\ \A q \in Pair : elapsed'[q] = elapsed[q]
      /\ \A q \in Pair : q # p => left'[q] = left[q]
      /\ live' = live /\ closes' = closes
      /\ \A q \in Pair \ {p} :
           /\ (q \in drained') <=> (q \in drained)
           /\ (q \in refused') <=> (q \in refused)
           /\ (q \in errors') <=> (q \in errors)
           /\ q \notin locks => q \notin locks'
           /\ q \notin stalled => q \notin stalled'
  BY DEF CloseStep, OwnerCloses, OwnerRejects, ForceDisconnect, ForceStopsTimers,
         ForceRejects, Quit, QuitSettles, QuitRejects, Cut, Reconnect,
         Disconnect, SInv, ShutTypeOK
<1>2. \A q \in Pair : Promised(q)' = Promised(q)
  BY <1>1 DEF Promised
<1>3. ShutTypeOK'
  <2>1. CASE Quit(p)
    BY <2>1, BudgetAssumption DEF Quit, SInv, ShutTypeOK, Steps
  <2>2. CASE OwnerCloses(p) \/ OwnerRejects(p) \/ ForceDisconnect(p)
    BY <2>2 DEF OwnerCloses, OwnerRejects, ForceDisconnect, SInv, ShutTypeOK, Steps
  <2>3. CASE ForceStopsTimers(p) \/ ForceRejects(p)
    BY <2>3 DEF ForceStopsTimers, ForceRejects, SInv, ShutTypeOK, Steps
  <2>4. CASE QuitSettles(p) \/ QuitRejects(p) \/ Cut(p)
    BY <2>4 DEF QuitSettles, QuitRejects, Cut, SInv, ShutTypeOK, Steps
  <2>5. CASE Reconnect(p) \/ Disconnect(p)
    BY <2>5 DEF Reconnect, Disconnect, SInv, ShutTypeOK
  <2> QED BY <2>1, <2>2, <2>3, <2>4, <2>5 DEF CloseStep
<1>4. /\ left[p] \in Nat /\ elapsed[p] \in Nat /\ Promised(p) \in Nat
      /\ CLOSE_GRACE \in Nat /\ (p \in ready => p \in Companion)
  BY BudgetsAreTimes, BudgetAssumption DEF SInv, ShutTypeOK
<1>5. Fresh'
  <2>1. step'[p] = "open" => step[p] = "open" /\ drained' = drained
    BY DEF CloseStep, OwnerCloses, OwnerRejects, ForceDisconnect, ForceStopsTimers,
           ForceRejects, Quit, QuitSettles, QuitRejects, Cut, Reconnect,
           Disconnect, SInv, ShutTypeOK
  <2> QED BY <1>1, <2>1 DEF SInv, Fresh
<1>6. Timing'
  <2> DEFINE T(q) ==
        /\ step'[q] = "owner" => elapsed'[q] + left'[q] = Promised(q)
        /\ step'[q] \in {"force", "connection"} => elapsed'[q] <= Promised(q)
        /\ step'[q] = "quit" =>
             /\ q \in Companion
             /\ elapsed'[q] + left'[q] <= Promised(q) + CLOSE_GRACE
        /\ step'[q] = "closed" =>
             elapsed'[q] <= Promised(q) + (IF q \in Companion
                                           THEN CLOSE_GRACE ELSE 0)
  <2>1. CASE OwnerCloses(p) \/ OwnerRejects(p) \/ ForceDisconnect(p)
    <3>1. step[p] = "owner" /\ step'[p] \in {"connection", "force"}
      BY <2>1 DEF OwnerCloses, OwnerRejects, ForceDisconnect, SInv, ShutTypeOK
    <3>2. T(p)
      BY <1>1, <1>4, <3>1 DEF SInv, Timing
    <3> QED BY <1>1, <1>2, <3>2 DEF SInv, Timing
  <2>2. CASE ForceStopsTimers(p) \/ ForceRejects(p)
    <3>1. step[p] = "force" /\ step'[p] = "connection"
      BY <2>2 DEF ForceStopsTimers, ForceRejects, SInv, ShutTypeOK
    <3>2. T(p)
      BY <1>1, <1>4, <3>1 DEF SInv, Timing
    <3> QED BY <1>1, <1>2, <3>2 DEF SInv, Timing
  <2>3. CASE Quit(p)
    <3>1. /\ step[p] = "connection" /\ step'[p] = "quit"
          /\ left'[p] = CLOSE_GRACE /\ p \in Companion
      BY <2>3, <1>4 DEF Quit, SInv, ShutTypeOK
    <3>2. T(p)
      BY <1>1, <1>4, <3>1 DEF SInv, Timing
    <3> QED BY <1>1, <1>2, <3>2 DEF SInv, Timing
  <2>4. CASE QuitSettles(p) \/ QuitRejects(p) \/ Cut(p)
    <3>1. step[p] \in {"connection", "quit"} /\ step'[p] = "closed"
      BY <2>4 DEF QuitSettles, QuitRejects, Cut, SInv, ShutTypeOK
    <3>2. T(p)
      BY <1>1, <1>4, <3>1 DEF SInv, Timing
    <3> QED BY <1>1, <1>2, <3>2 DEF SInv, Timing
  <2>5. CASE Reconnect(p) \/ Disconnect(p)
    <3>1. step' = step /\ left' = left
      BY <2>5 DEF Reconnect, Disconnect
    <3> QED BY <1>1, <1>2, <3>1 DEF SInv, Timing
  <2> QED BY <2>1, <2>2, <2>3, <2>4, <2>5 DEF CloseStep
<1>7. DrainIsNotCutShort'
  <2>1. step'[p] \notin {"open", "owner"} =>
          p \in drained' \/ elapsed[p] >= Promised(p)
    <3>1. CASE OwnerCloses(p) \/ OwnerRejects(p)
      BY <3>1 DEF OwnerCloses, OwnerRejects
    <3>2. CASE ForceDisconnect(p)
      BY <3>2, <1>4 DEF ForceDisconnect, SInv, Timing
    <3>3. CASE ~ (OwnerCloses(p) \/ OwnerRejects(p) \/ ForceDisconnect(p))
      <4>1. /\ drained' = drained
            /\ step'[p] = step[p] \/ step[p] \notin {"open", "owner"}
        BY <3>3 DEF CloseStep, ForceStopsTimers, ForceRejects, Quit,
           QuitSettles, QuitRejects, Cut, Reconnect, Disconnect
      <4> QED BY <4>1 DEF SInv, DrainIsNotCutShort
    <3> QED BY <3>1, <3>2, <3>3
  <2> QED BY <1>1, <1>2, <2>1 DEF SInv, DrainIsNotCutShort
<1>8. CleanedUp'
  <2> DEFINE C(q) ==
        /\ /\ step'[q] \in {"connection", "quit", "closed"}
           /\ q \notin errors' /\ q \notin refused'
           => q \notin locks' /\ q \notin stalled'
        /\ /\ step'[q] = "closed" /\ q \in Companion /\ q \notin refused'
           => client'[q] # "open"
  <2>1. CASE OwnerCloses(p) \/ OwnerRejects(p) \/ ForceStopsTimers(p)
             \/ ForceRejects(p) \/ ForceDisconnect(p)
    <3>1. C(p)
      BY <2>1 DEF OwnerCloses, OwnerRejects, ForceStopsTimers, ForceRejects,
                  ForceDisconnect, SInv, ShutTypeOK
    <3> QED BY <1>1, <3>1 DEF SInv, CleanedUp
  <2>2. CASE Quit(p) \/ QuitSettles(p) \/ QuitRejects(p) \/ Cut(p)
    <3>1. C(p)
      BY <2>2 DEF Quit, QuitSettles, QuitRejects, Cut, SInv, ShutTypeOK,
                  CleanedUp
    <3> QED BY <1>1, <3>1 DEF SInv, CleanedUp
  <2>3. CASE Reconnect(p) \/ Disconnect(p)
    BY <2>3 DEF Reconnect, Disconnect, SInv, CleanedUp
  <2> QED BY <2>1, <2>2, <2>3 DEF CloseStep
<1> QED BY <1>3, <1>5, <1>6, <1>7, <1>8 DEF SInv

(* Every step keeps the invariant.                                         *)
LEMMA NextKeepsSInv == SInv /\ [ShutNext]_shutVars => SInv'
<1> SUFFICES ASSUME SInv, [ShutNext]_shutVars PROVE SInv'
  OBVIOUS
<1>1. CASE UNCHANGED shutVars
  BY <1>1 DEF shutVars, socketVars, outcomeVars, timerVars, clockVars, SInv,
     ShutTypeOK, Fresh, Timing, DrainIsNotCutShort, CleanedUp, Promised
<1>2. CASE \E S \in SUBSET Pair :
             S # {} /\ (\A p \in S : step[p] = "open") /\ Begin(S)
  BY <1>2, BeginKeepsSInv
<1>3. CASE \E p \in Pair : CloseStep(p)
  BY <1>3, CloseStepKeepsSInv
<1>4. CASE Tick
  BY <1>4, TickKeepsSInv
<1> QED BY <1>1, <1>2, <1>3, <1>4 DEF ShutNext

(* The strengthened invariant holds in every reachable state.              *)
THEOREM ShutInvariance == ShutSafety => []SInv
BY InitSInv, NextKeepsSInv, PTL DEF ShutSafety

(* Type correctness: in particular no budget and no time is negative.      *)
THEOREM ShutTypeCorrect == ShutSafety => []ShutTypeOK
<1>1. SInv => ShutTypeOK
  BY DEF SInv
<1> QED BY <1>1, ShutInvariance, PTL

(* The invariant bounds the time of every pair.                            *)
LEMMA SInvBoundsTime == SInv => ClosedInTime
<1> SUFFICES ASSUME SInv, NEW p \in Pair
             PROVE  /\ elapsed[p] <= Promised(p) + CLOSE_GRACE
                    /\ elapsed[p] < NODE_CLOSE_TIMEOUT
  BY DEF ClosedInTime
<1>1. /\ elapsed[p] \in Nat /\ left[p] \in Nat /\ step[p] \in Steps
      /\ Promised(p) \in Nat
  BY BudgetsAreTimes DEF SInv, ShutTypeOK
<1>2. elapsed[p] <= Promised(p) + (IF p \in Companion THEN CLOSE_GRACE ELSE 0)
  BY <1>1, BudgetAssumption DEF SInv, Fresh, Timing, Steps
<1>3. Promised(p) = POSTGRES_CLOSE \/ p \in Companion
  BY DEF Promised
<1>4. p \in Companion => Promised(p) <= GRACEFUL_CLOSE
  BY BudgetAssumption DEF Promised
<1> QED BY <1>1, <1>2, <1>3, <1>4, BudgetAssumption

(* A pair is closed before Node-RED gives up on its node, whatever the     *)
(* datastore does.                                                         *)
THEOREM AlwaysClosedInTime == ShutSafety => []ClosedInTime
BY SInvBoundsTime, ShutInvariance, PTL

(* An owner is not cut off before the time it is promised.                 *)
THEOREM NeverCutShort == ShutSafety => []DrainIsNotCutShort
<1>1. SInv => DrainIsNotCutShort
  BY DEF SInv
<1> QED BY <1>1, ShutInvariance, PTL

(* A closed pair leaves no timer and no open client behind.                *)
THEOREM NothingLeft == ShutSafety => []NothingOutlivesClose
<1>1. SInv => NothingOutlivesClose
  BY DEF SInv, CleanedUp, NothingOutlivesClose
<1> QED BY <1>1, ShutInvariance, PTL
-----------------------------------------------------------------------------
(* The config node. Only resources that were built are tracked, closed or  *)
(* traced, and a runtime node that holds one is past its construction.     *)
OnlyBuilt ==
  /\ resources \cup walked \cup after \cup traced \subseteq born
  /\ \A p \in Pair \ born : step[p] = "open"
  /\ \A p \in Runtime : p \in born <=> host[p] \notin {"new", "bare"}

(* A pair is told to close when it leaves "open", and never again.         *)
ClosesCounted ==
  \A p \in Pair : closes[p] = IF step[p] = "open" THEN 0 ELSE 1

(* Whoever began to close a resource sees it through: the config node, or  *)
(* its runtime node, which is done no sooner than its resource is closed.  *)
Responsible ==
  \A p \in born :
    \/ step[p] = "open"
    \/ p \in walked
    \/ /\ p \in Runtime
       /\ \/ host[p] = "closing"
          \/ host[p] = "closed" /\ step[p] = "closed"

(* The config node takes over all that is in the map; what is in it later  *)
(* was built after that. It is done when what it took over is closed.      *)
TakenOver ==
  /\ config = "up" => walked = {} /\ after = {}
  /\ config # "up" => resources \subseteq after
  /\ config = "closed" => \A p \in walked : step[p] = "closed"

(* Until bullmq-otel was asked for, nothing that needs it was built.       *)
Asked ==
  /\ asked = IF telemetry \in {"off", "unasked"} THEN 0 ELSE 1
  /\ telemetry = "unasked" => born \subseteq Events

CInv ==
  /\ ConfigTypeOK
  /\ SInv
  /\ OnlyBuilt
  /\ ClosesCounted
  /\ NothingUntracked
  /\ Responsible
  /\ TakenOver
  /\ Asked
  /\ OneTelemetryClient

(* A config node starts with nothing built.                                *)
LEMMA InitCInv == ConfigInit => CInv
<1> SUFFICES ASSUME ConfigInit PROVE CInv
  OBVIOUS
<1>1. SInv /\ ShutInit
  BY InitSInv DEF ConfigInit
<1>2. ConfigTypeOK
  BY <1>1, MaxAskedAssumption DEF ConfigInit, ConfigTypeOK, SInv
<1>3. OnlyBuilt /\ ClosesCounted /\ NothingUntracked
  BY <1>1 DEF ConfigInit, ShutInit, OnlyBuilt, ClosesCounted,
              NothingUntracked, Runtime
<1>4. Responsible /\ TakenOver /\ Asked /\ OneTelemetryClient
  BY DEF ConfigInit, Responsible, TakenOver, Asked, OneTelemetryClient
<1> QED BY <1>1, <1>2, <1>3, <1>4 DEF CInv

(* What getTelemetry() makes of the memoized answer, and that it leaves    *)
(* everything else alone.                                                  *)
LEMMA TelemetryAsked ==
  ASSUME CInv, NEW p \in Pair, GetTelemetry(p)
  PROVE  /\ telemetry' \in {"off", "unasked", "absent", "present"}
         /\ asked' = IF telemetry' \in {"off", "unasked"} THEN 0 ELSE 1
         /\ asked' \in 0..MaxAsked /\ asked' <= 1
         /\ telemetry' = "unasked" => telemetry = "unasked" /\ p \in Events
         /\ telemetry' = telemetry \/ telemetry = "unasked"
BY MaxAskedAssumption DEF GetTelemetry, CInv, ConfigTypeOK, Asked

(* The resource p that is tracked was not built before.                    *)
LEMMA TrackKeepsCInv ==
  ASSUME CInv, NEW p \in Pair \ born, Trace(p), Track(p),
         UNCHANGED <<shutVars, postgres, config, walked>>,
         queue' \in Queues \cup {NoQueue},
         host' \in [Runtime -> {"new", "bare", "up", "closing", "closed"}],
         p \in Runtime => host'[p] = "up",
         \A q \in Runtime \ {p} : host'[q] = host[q]
  PROVE  CInv'
<1> USE DEF Track
<1>1. /\ born' = born \cup {p} /\ resources' = resources \cup {p}
      /\ after' = IF config = "up" THEN after ELSE after \cup {p}
      /\ step' = step /\ closes' = closes /\ walked' = walked
      /\ config' = config
  BY DEF shutVars
<1>2. SInv'
  BY NextKeepsSInv DEF CInv
<1>3. /\ telemetry' \in {"off", "unasked", "absent", "present"}
      /\ asked' = IF telemetry' \in {"off", "unasked"} THEN 0 ELSE 1
      /\ asked' \in 0..MaxAsked /\ asked' <= 1
      /\ telemetry' = "unasked" => telemetry = "unasked" /\ p \in Events
      /\ telemetry' = telemetry \/ telemetry = "unasked"
  BY TelemetryAsked DEF Trace
<1>4. traced' = IF telemetry' = "present" /\ p \notin Events
                THEN traced \cup {p} ELSE traced
  BY DEF Trace
<1>5. step[p] = "open" /\ p \notin traced /\ p \notin resources
  BY DEF CInv, OnlyBuilt
<1>6. ConfigTypeOK'
  BY <1>1, <1>2, <1>3, <1>4 DEF CInv, ConfigTypeOK, SInv
<1>7. OnlyBuilt'
  BY <1>1, <1>4 DEF CInv, OnlyBuilt, Runtime
<1>8. ClosesCounted' /\ NothingUntracked'
  BY <1>1, <1>5 DEF CInv, ClosesCounted, NothingUntracked
<1>9. Responsible'
  BY <1>1, <1>5 DEF CInv, Responsible
<1>10. TakenOver'
  BY <1>1 DEF CInv, TakenOver
<1>11. Asked'
  BY <1>1, <1>3 DEF CInv, Asked
<1>12. OneTelemetryClient'
  BY <1>1, <1>3, <1>4, <1>5 DEF CInv, Asked, OneTelemetryClient
<1> QED BY <1>2, <1>6, <1>7, <1>8, <1>9, <1>10, <1>11, <1>12 DEF CInv

(* A constructor that throws leaves nothing but, at most, the answer to    *)
(* the question for bullmq-otel, which the next resource finds.            *)
LEMMA FailedConstructionKeepsCInv ==
  ASSUME CInv, NEW p \in Pair,
         GetTelemetry(p) \/ UNCHANGED <<telemetry, asked>>,
         UNCHANGED <<shutVars, postgres, resources, queue, born, config,
                     walked, after, traced>>,
         \/ host' = host
         \/ /\ p \in Runtime /\ host[p] = "new"
            /\ host' = [host EXCEPT ![p] = "bare"]
  PROVE  CInv'
<1>1. SInv'
  BY NextKeepsSInv DEF CInv
<1>2. step' = step /\ closes' = closes
  BY DEF shutVars
<1>3. /\ telemetry' \in {"off", "unasked", "absent", "present"}
      /\ asked' = IF telemetry' \in {"off", "unasked"} THEN 0 ELSE 1
      /\ asked' \in 0..MaxAsked /\ asked' <= 1
      /\ telemetry' = telemetry \/ telemetry = "unasked"
  <2>1. CASE GetTelemetry(p)
    BY <2>1, TelemetryAsked
  <2>2. CASE UNCHANGED <<telemetry, asked>>
    BY <2>2, MaxAskedAssumption DEF CInv, ConfigTypeOK, Asked
  <2> QED BY <2>1, <2>2
<1>4. ConfigTypeOK'
  BY <1>1, <1>3 DEF CInv, ConfigTypeOK, SInv
<1>5. OnlyBuilt' /\ Responsible'
  BY <1>2 DEF CInv, ConfigTypeOK, OnlyBuilt, Responsible
<1>6. ClosesCounted' /\ NothingUntracked' /\ TakenOver' /\ Asked'
  BY <1>2, <1>3 DEF CInv, ClosesCounted, NothingUntracked, TakenOver, Asked
<1>7. OneTelemetryClient'
  BY <1>3 DEF CInv, Asked, OneTelemetryClient
<1> QED BY <1>1, <1>4, <1>5, <1>6, <1>7 DEF CInv

(* What is in the map is still open, so closing it is a first close.       *)
LEMMA BeginClosesFirst ==
  ASSUME CInv, NEW S \in SUBSET resources, Begin(S)
  PROVE  /\ S \in SUBSET Pair /\ \A p \in S : step[p] = "open"
         /\ SInv'
         /\ \A p \in Pair : step'[p] = IF p \in S THEN "owner" ELSE step[p]
         /\ ClosesCounted'
<1>1. S \in SUBSET Pair /\ \A p \in S : step[p] = "open"
  BY DEF CInv, ConfigTypeOK, OnlyBuilt, NothingUntracked
<1>2. SInv'
  BY <1>1, BeginKeepsSInv DEF CInv
<1>3. \A p \in Pair : step'[p] = IF p \in S THEN "owner" ELSE step[p]
  BY DEF Begin
<1>4. ClosesCounted'
  BY <1>1, <1>3, MaxClosesAssumption DEF Begin, CInv, ClosesCounted
<1> QED BY <1>1, <1>2, <1>3, <1>4

(* A runtime node closes its resource, or leaves it to the config node.    *)
LEMMA NodeClosesKeepsCInv ==
  ASSUME CInv, NEW p \in Runtime, NodeCloses(p)
  PROVE  CInv'
<1> USE DEF NodeCloses, settings, telemetryVars
<1>1. p \in born
  BY DEF CInv, OnlyBuilt
<1>2. CASE p \in resources
  <2>1. /\ step[p] = "open" /\ SInv' /\ ClosesCounted'
        /\ \A q \in Pair : step'[q] = IF q = p THEN "owner" ELSE step[q]
    BY <1>2, BeginClosesFirst
  <2>2. ConfigTypeOK'
    BY <2>1 DEF CInv, ConfigTypeOK, SInv
  <2>3. OnlyBuilt'
    BY <1>1, <1>2, <2>1 DEF CInv, ConfigTypeOK, OnlyBuilt
  <2>4. NothingUntracked'
    BY <1>2, <2>1 DEF CInv, ConfigTypeOK, NothingUntracked
  <2>5. Responsible'
    BY <1>2, <2>1 DEF CInv, ConfigTypeOK, Responsible
  <2>6. TakenOver'
    BY <2>1 DEF CInv, ConfigTypeOK, TakenOver
  <2>7. Asked' /\ OneTelemetryClient'
    BY DEF CInv, Asked, OneTelemetryClient
  <2> QED BY <2>1, <2>2, <2>3, <2>4, <2>5, <2>6, <2>7 DEF CInv
<1>3. CASE p \notin resources
  <2>1. step' = step /\ closes' = closes /\ SInv'
    BY <1>3, NextKeepsSInv DEF shutVars, CInv
  <2>2. p \in walked
    BY <1>1, <1>3 DEF CInv, NothingUntracked, Responsible
  <2>3. ConfigTypeOK'
    BY <2>1 DEF CInv, ConfigTypeOK, SInv
  <2>4. OnlyBuilt' /\ Responsible'
    BY <1>1, <1>3, <2>1, <2>2 DEF CInv, ConfigTypeOK, OnlyBuilt, Responsible
  <2>5. NothingUntracked' /\ ClosesCounted' /\ TakenOver'
    BY <1>3, <2>1 DEF CInv, NothingUntracked, ClosesCounted, TakenOver
  <2>6. Asked' /\ OneTelemetryClient'
    BY DEF CInv, Asked, OneTelemetryClient
  <2> QED BY <2>1, <2>3, <2>4, <2>5, <2>6 DEF CInv
<1> QED BY <1>2, <1>3

(* The config node takes over everything in the map.                       *)
LEMMA ConfigClosesKeepsCInv ==
  ASSUME CInv, ConfigCloses
  PROVE  CInv'
<1> USE DEF ConfigCloses, settings, telemetryVars
<1>1. /\ SInv' /\ ClosesCounted'
      /\ \A q \in Pair : step'[q] = IF q \in resources THEN "owner"
                                     ELSE step[q]
  <2>1. CASE resources = {}
    <3>1. step' = step /\ closes' = closes /\ SInv'
      BY <2>1, NextKeepsSInv DEF shutVars, CInv
    <3> QED BY <2>1, <3>1 DEF CInv, ClosesCounted
  <2>2. CASE resources # {}
    BY <2>2, BeginClosesFirst
  <2> QED BY <2>1, <2>2
<1>2. ConfigTypeOK'
  BY <1>1 DEF CInv, ConfigTypeOK, SInv
<1>3. OnlyBuilt'
  BY <1>1 DEF CInv, ConfigTypeOK, OnlyBuilt
<1>4. NothingUntracked' /\ TakenOver'
  BY <1>1 DEF CInv, ConfigTypeOK, NothingUntracked, TakenOver
<1>5. Responsible'
  BY <1>1 DEF CInv, ConfigTypeOK, NothingUntracked, TakenOver, Responsible
<1>6. Asked' /\ OneTelemetryClient'
  BY DEF CInv, Asked, OneTelemetryClient
<1> QED BY <1>1, <1>2, <1>3, <1>4, <1>5, <1>6 DEF CInv

(* Node-RED is told that a node is done.                                   *)
LEMMA DoneKeepsCInv ==
  ASSUME CInv, (\E p \in Runtime : NodeDone(p)) \/ ConfigDone \/ ConfigFails
  PROVE  CInv'
<1> USE DEF NodeDone, ConfigDone, ConfigFails, settings, telemetryVars
<1>1. step' = step /\ closes' = closes /\ SInv'
  BY NextKeepsSInv DEF shutVars, CInv
<1>2. ConfigTypeOK'
  BY <1>1 DEF CInv, ConfigTypeOK, SInv
<1>3. OnlyBuilt' /\ Responsible'
  BY <1>1 DEF CInv, ConfigTypeOK, OnlyBuilt, Responsible
<1>4. NothingUntracked' /\ ClosesCounted' /\ TakenOver'
  BY <1>1 DEF CInv, NothingUntracked, ClosesCounted, TakenOver
<1>5. Asked' /\ OneTelemetryClient'
  BY DEF CInv, Asked, OneTelemetryClient
<1> QED BY <1>1, <1>2, <1>3, <1>4, <1>5 DEF CInv

(* Closing goes on: no pair becomes open again, nor does a closed one      *)
(* close once more.                                                        *)
LEMMA ClosingOnlyAdvances ==
  ASSUME SInv, Tick \/ \E p \in Pair : CloseStep(p)
  PROVE  /\ closes' = closes
         /\ \A q \in Pair : /\ step'[q] = "open" <=> step[q] = "open"
                            /\ step[q] = "closed" => step'[q] = "closed"
<1>1. CASE Tick
  BY <1>1 DEF Tick
<1>2. ASSUME NEW p \in Pair, CloseStep(p)
      PROVE  /\ closes' = closes
             /\ \A q \in Pair : /\ step'[q] = "open" <=> step[q] = "open"
                                /\ step[q] = "closed" => step'[q] = "closed"
  BY <1>2 DEF CloseStep, OwnerCloses, OwnerRejects, ForceDisconnect,
     ForceStopsTimers, ForceRejects, Quit, QuitSettles, QuitRejects, Cut,
     Reconnect, Disconnect, SInv, ShutTypeOK
<1> QED BY <1>1, <1>2

LEMMA ShutStepKeepsCInv ==
  ASSUME CInv, ShutStep
  PROVE  CInv'
<1> USE DEF nodeVars, ownVars, settings, telemetryVars
<1>1. Tick \/ \E p \in Pair : CloseStep(p)
  BY DEF ShutStep, CInv, ConfigTypeOK
<1>2. UNCHANGED nodeVars
  BY DEF ShutStep
<1>3. SInv'
  BY <1>1, NextKeepsSInv DEF ShutNext, CInv
<1>4. /\ closes' = closes
      /\ \A q \in Pair : /\ step'[q] = "open" <=> step[q] = "open"
                         /\ step[q] = "closed" => step'[q] = "closed"
  BY <1>1, ClosingOnlyAdvances DEF CInv
<1>5. ConfigTypeOK'
  BY <1>2, <1>3 DEF CInv, ConfigTypeOK, SInv
<1>6. OnlyBuilt' /\ Responsible' /\ NothingUntracked'
  BY <1>2, <1>4 DEF CInv, ConfigTypeOK, OnlyBuilt, Responsible,
                    NothingUntracked
<1>7. ClosesCounted' /\ TakenOver'
  BY <1>2, <1>4 DEF CInv, ConfigTypeOK, ClosesCounted, TakenOver
<1>8. Asked' /\ OneTelemetryClient'
  BY <1>2 DEF CInv, Asked, OneTelemetryClient
<1> QED BY <1>3, <1>5, <1>6, <1>7, <1>8 DEF CInv

(* Every step of the config node keeps the invariant.                      *)
LEMMA NextKeepsCInv == CInv /\ [ConfigNext]_configVars => CInv'
<1> SUFFICES ASSUME CInv, [ConfigNext]_configVars PROVE CInv'
  OBVIOUS
<1> USE DEF settings, telemetryVars, ownVars
<1>1. CASE UNCHANGED configVars
  <2>1. UNCHANGED shutVars /\ UNCHANGED nodeVars
    BY <1>1 DEF configVars
  <2>2. step' = step /\ closes' = closes /\ SInv'
    BY <2>1, NextKeepsSInv DEF shutVars, CInv
  <2>3. ConfigTypeOK'
    BY <2>1, <2>2 DEF nodeVars, CInv, ConfigTypeOK, SInv
  <2>4. OnlyBuilt' /\ Responsible' /\ NothingUntracked'
    BY <2>1, <2>2 DEF nodeVars, CInv, OnlyBuilt, Responsible, NothingUntracked
  <2>5. ClosesCounted' /\ TakenOver' /\ Asked' /\ OneTelemetryClient'
    BY <2>1, <2>2 DEF nodeVars, CInv, ClosesCounted, TakenOver, Asked,
                      OneTelemetryClient
  <2> QED BY <2>2, <2>3, <2>4, <2>5 DEF CInv
<1>2. ASSUME NEW p \in Runtime, CreateRuntime(p)
      PROVE  CInv'
  <2>1. p \in Pair \ born
    BY <1>2 DEF CreateRuntime, CInv, OnlyBuilt, Runtime
  <2>2. /\ host' \in [Runtime -> {"new", "bare", "up", "closing", "closed"}]
        /\ host'[p] = "up"
        /\ \A q \in Runtime \ {p} : host'[q] = host[q]
    BY <1>2 DEF CreateRuntime, CInv, ConfigTypeOK
  <2>3. /\ Trace(p) /\ Track(p)
        /\ UNCHANGED <<shutVars, postgres, config, walked>>
        /\ queue' \in Queues \cup {NoQueue}
    BY <1>2 DEF CreateRuntime, CInv, ConfigTypeOK
  <2> QED BY <2>1, <2>2, <2>3, TrackKeepsCInv
<1>3. ASSUME NEW p \in Runtime, CreateFails(p)
      PROVE  CInv'
  BY <1>3, FailedConstructionKeepsCInv DEF CreateFails, Runtime
<1>4. ASSUME NEW q \in Queues, GetQueue(q)
      PROVE  CInv'
  <2>1. q \in Pair \ born /\ q \notin Runtime
    BY <1>4, QueuesAssumption DEF GetQueue, Runtime
  <2>2. /\ host' \in [Runtime -> {"new", "bare", "up", "closing", "closed"}]
        /\ host' = host
    BY <1>4 DEF GetQueue, CInv, ConfigTypeOK
  <2>3. /\ Trace(q) /\ Track(q)
        /\ UNCHANGED <<shutVars, postgres, config, walked>>
        /\ queue' \in Queues \cup {NoQueue}
    BY <1>4 DEF GetQueue
  <2> QED BY <2>1, <2>2, <2>3, TrackKeepsCInv
<1>5. ASSUME NEW q \in Queues, GetQueueFails(q)
      PROVE  CInv'
  BY <1>5, QueuesAssumption, FailedConstructionKeepsCInv DEF GetQueueFails
<1>6. ASSUME NEW p \in Runtime, NodeCloses(p)
      PROVE  CInv'
  BY <1>6, NodeClosesKeepsCInv
<1>7. CASE ConfigCloses
  BY <1>7, ConfigClosesKeepsCInv
<1>8. CASE (\E p \in Runtime : NodeDone(p)) \/ ConfigDone \/ ConfigFails
  BY <1>8, DoneKeepsCInv
<1>9. CASE ShutStep
  BY <1>9, ShutStepKeepsCInv
<1> QED BY <1>1, <1>2, <1>3, <1>4, <1>5, <1>6, <1>7, <1>8, <1>9 DEF ConfigNext

(* The strengthened invariant holds in every reachable state.              *)
THEOREM ConfigInvariance == ConfigSafety => []CInv
BY InitCInv, NextKeepsCInv, PTL DEF ConfigSafety

(* Type correctness of the config node.                                    *)
THEOREM ConfigTypeCorrect == ConfigSafety => []ConfigTypeOK
<1>1. CInv => ConfigTypeOK
  BY DEF CInv
<1> QED BY <1>1, ConfigInvariance, PTL

(* No resource is closed twice, in whatever order Node-RED stops its nodes.*)
THEOREM EachClosedOnce == ConfigSafety => []ClosedOnce
<1>1. CInv => ClosedOnce
  <2> SUFFICES ASSUME CInv, NEW p \in Pair PROVE closes[p] <= 1
    BY DEF ClosedOnce
  <2>1. closes[p] = 0 \/ closes[p] = 1
    BY DEF CInv, ClosesCounted
  <2> QED BY <2>1
<1> QED BY <1>1, ConfigInvariance, PTL

(* Every resource is in the map from its construction to its closing.      *)
THEOREM AllTracked == ConfigSafety => []NothingUntracked
<1>1. CInv => NothingUntracked
  BY DEF CInv
<1> QED BY <1>1, ConfigInvariance, PTL

(* When all nodes have reported that they are done, what they had built is *)
(* closed.                                                                 *)
THEOREM DoneIsClosed == ConfigSafety => []DoneMeansClosed
<1>1. CInv => DoneMeansClosed
  <2> SUFFICES ASSUME CInv, config = "closed",
                      \A p \in Runtime : host[p] \in {"new", "bare", "closed"},
                      NEW p \in born \ after
               PROVE  step[p] = "closed"
    BY DEF DoneMeansClosed
  <2>1. step[p] # "open"
    BY DEF CInv, NothingUntracked, TakenOver
  <2>2. p \in walked \/ step[p] = "closed"
    BY <2>1 DEF CInv, Responsible
  <2> QED BY <2>2 DEF CInv, TakenOver
<1> QED BY <1>1, ConfigInvariance, PTL

(* All resources that can be traced share one client, or none has any.     *)
THEOREM OneClient == ConfigSafety => []OneTelemetryClient
<1>1. CInv => OneTelemetryClient
  BY DEF CInv
<1> QED BY <1>1, ConfigInvariance, PTL
-----------------------------------------------------------------------------
(* The config node and its runtime nodes close pairs as module Shutdown    *)
(* says: they begin with open pairs only, and touch none otherwise.        *)
LEMMA StepOfShutdown == CInv /\ [ConfigNext]_configVars => [ShutNext]_shutVars
<1> SUFFICES ASSUME CInv, ConfigNext PROVE ShutNext \/ UNCHANGED shutVars
  BY DEF configVars
<1>1. ASSUME NEW p \in Runtime, NodeCloses(p)
      PROVE  ShutNext \/ UNCHANGED shutVars
  <2>1. CASE p \in resources
    <3>1. Begin({p}) /\ step[p] = "open" /\ {p} \in SUBSET Pair /\ {p} # {}
      BY <1>1, <2>1 DEF NodeCloses, Runtime, CInv, OnlyBuilt, NothingUntracked
    <3> QED BY <3>1 DEF ShutNext
  <2>2. CASE p \notin resources
    BY <1>1, <2>2 DEF NodeCloses
  <2> QED BY <2>1, <2>2
<1>2. CASE ConfigCloses
  <2>1. CASE resources # {}
    <3>1. /\ Begin(resources) /\ resources \in SUBSET Pair
          /\ \A p \in resources : step[p] = "open"
      BY <1>2, <2>1 DEF ConfigCloses, CInv, ConfigTypeOK, OnlyBuilt,
                        NothingUntracked
    <3> QED BY <2>1, <3>1 DEF ShutNext
  <2>2. CASE resources = {}
    BY <1>2, <2>2 DEF ConfigCloses
  <2> QED BY <2>1, <2>2
<1>3. CASE ShutStep
  BY <1>3 DEF ShutStep, ShutNext, CInv, ConfigTypeOK
<1>4. CASE \/ \E p \in Runtime : CreateRuntime(p) \/ CreateFails(p) \/ NodeDone(p)
           \/ \E q \in Queues : GetQueue(q) \/ GetQueueFails(q)
           \/ ConfigDone \/ ConfigFails
  BY <1>4 DEF CreateRuntime, CreateFails, NodeDone, GetQueue, GetQueueFails,
              ConfigDone, ConfigFails
<1> QED BY <1>1, <1>2, <1>3, <1>4 DEF ConfigNext

(* The composition implements Shutdown, so what is proved of closing holds *)
(* of the resources of a config node, whoever closes them and when.        *)
THEOREM ImplementsShutdown == ConfigSafety => ShutSafety
<1>1. ConfigInit => ShutInit
  BY DEF ConfigInit
<1> QED BY <1>1, StepOfShutdown, ConfigInvariance, PTL
        DEF ConfigSafety, ShutSafety

(* In particular no close handler of the config node or of a runtime node  *)
(* waits for a resource until Node-RED gives up on it.                     *)
COROLLARY ConfigClosesInTime == ConfigSafety => []ClosedInTime
BY ImplementsShutdown, AlwaysClosedInTime, PTL

=============================================================================
