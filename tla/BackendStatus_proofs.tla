------------------------ MODULE BackendStatus_proofs ------------------------
(***************************************************************************)
(* Proofs about the backend status and the failure latch, for any sets of  *)
(* nodes and of failure categories.                                        *)
(***************************************************************************)
EXTENDS BackendStatus, TLAPS

(* The queue exists only if it can be constructed; it is watched from its  *)
(* construction on, and only its backend emits events.                     *)
Watched ==
  /\ queue => constructs = "ok"
  /\ (seed # "none") <=> queue
  /\ lastEvent # "none" => queue

(* A resource that was marked ready has got ready.                         *)
MarkedWasReady == \A n \in marked : startup[n] \in {"ready", "ended"}

(* A resource that exists could be constructed, so all that follow can.    *)
BuiltIsMended == \A n \in Built : constructs = "ok"

(* Until the config node closes, the latch holds what was observed.        *)
LatchIsExact == config = "up" => failures = observed

BInv ==
  /\ StatusTypeOK
  /\ Watched
  /\ MarkedWasReady
  /\ BuiltIsMended
  /\ ReadersAgree
  /\ LiveEventsWin
  /\ LatchIsExact
  /\ ReportedExactlyOnce
-----------------------------------------------------------------------------
(* The histories and the latch have their types and agree.                 *)
LatchOK ==
  /\ failures \subseteq Category
  /\ observed \subseteq Category /\ dropped \subseteq Category
  /\ reports \in [Category -> 0..MaxReports]
  /\ LatchIsExact
  /\ ReportedExactlyOnce

LEMMA BInvHasLatch == BInv => LatchOK
BY DEF BInv, StatusTypeOK, LatchOK

(* The first report of a category is counted, and no other.                *)
LEMMA ReportKeepsLatch ==
  ASSUME LatchOK, NEW c \in Category, Meet(c), Report(c), config' = config
  PROVE  LatchOK'
<1>1. /\ observed' = observed \cup {c} /\ dropped' = dropped
      /\ failures' = failures \cup {c}
  BY DEF Report, Meet
<1>2. \A d \in Category :
        reports'[d] = IF d = c /\ c \notin failures /\ reports[c] < MaxReports
                      THEN reports[d] + 1 ELSE reports[d]
  BY DEF LatchOK, Report
<1>3. reports' \in [Category -> 0..MaxReports]
  BY MaxReportsAssumption DEF LatchOK, Report
<1>4. LatchIsExact'
  BY <1>1 DEF LatchIsExact, LatchOK
<1>5. ReportedExactlyOnce'
  <2> SUFFICES ASSUME config = "up", NEW d \in Category
               PROVE  reports'[d] = IF d \in observed' THEN 1 ELSE 0
    BY <1>1 DEF ReportedExactlyOnce, LatchOK
  <2>1. failures = observed
    BY DEF LatchIsExact, LatchOK
  <2>2. reports[d] = IF d \in observed THEN 1 ELSE 0
    BY DEF ReportedExactlyOnce, LatchOK
  <2>3. CASE d = c /\ c \notin observed
    <3>1. reports[d] = 0 /\ 0 < MaxReports
      BY <2>2, <2>3, MaxReportsAssumption
    <3> QED BY <3>1, <2>1, <2>3, <1>1, <1>2
  <2>4. CASE d # c \/ c \in observed
    <3>1. reports'[d] = reports[d]
      BY <2>4, <2>1, <1>2
    <3>2. (d \in observed') <=> (d \in observed)
      BY <2>4, <1>1
    <3> QED BY <3>1, <3>2, <2>2
  <2> QED BY <2>3, <2>4
<1> QED BY <1>1, <1>3, <1>4, <1>5 DEF LatchOK

(* A latch that is left alone stays exact, also when a failure is dropped. *)
LEMMA UnchangedLatch ==
  ASSUME LatchOK, UNCHANGED latchVars, config' = config \/ config' = "closing",
         UNCHANGED metVars \/ \E c \in Category : Drop(c)
  PROVE  LatchOK'
<1>1. /\ observed' = observed /\ dropped' \subseteq Category
      /\ dropped \subseteq dropped'
  BY DEF LatchOK, metVars, Drop
<1> QED BY <1>1 DEF LatchOK, LatchIsExact, ReportedExactlyOnce, latchVars

(* A published status reaches everyone it is published to.                 *)
LEMMA PublishedIsShown ==
  ASSUME StatusTypeOK, NEW R \in SUBSET (Cmd \cup Runtime), NEW s \in Status,
         PublishTo(R, s)
  PROVE  /\ backendStatus' = s
         /\ shown' \in [Cmd \cup Runtime -> Status \cup {"none"}]
         /\ \A n \in R : shown'[n] = s
BY DEF PublishTo, StatusTypeOK

(* What a runtime node shows does not disturb the readers.                 *)
LEMMA RuntimeShowsItsOwn ==
  ASSUME StatusTypeOK, ReadersAgree,
         NEW n \in Runtime, NEW s \in Status, Show(n, s),
         UNCHANGED <<backendStatus, readers>>
  PROVE  /\ shown' \in [Cmd \cup Runtime -> Status \cup {"none"}]
         /\ ReadersAgree'
<1>1. shown' \in [Cmd \cup Runtime -> Status \cup {"none"}]
  BY DEF StatusTypeOK, Show
<1>2. ASSUME NEW m \in readers
      PROVE  shown'[m] = shown[m]
  BY NodesAssumption DEF StatusTypeOK, Show
<1> QED BY <1>1, <1>2 DEF ReadersAgree

(* A config node starts with no queue and nothing observed.                *)
LEMMA InitBInv == StatusInit => BInv
<1> SUFFICES ASSUME StatusInit PROVE BInv
  OBVIOUS
<1>1. StatusTypeOK
  <2>1. reports \in [Category -> 0..MaxReports]
    BY MaxReportsAssumption DEF StatusInit
  <2>2. constructs \in {"ok"} \cup Category
    BY DEF StatusInit
  <2>3. shown \in [Cmd \cup Runtime -> Status \cup {"none"}]
    BY DEF StatusInit
  <2> QED BY <2>1, <2>2, <2>3 DEF StatusInit, StatusTypeOK, Status
<1>2. /\ Watched /\ MarkedWasReady /\ ReadersAgree /\ LiveEventsWin
      /\ BuiltIsMended
  BY DEF StatusInit, Watched, MarkedWasReady, ReadersAgree, LiveEventsWin,
         BuiltIsMended, Built
<1>3. LatchIsExact /\ ReportedExactlyOnce
  BY DEF StatusInit, LatchIsExact, ReportedExactlyOnce
<1> QED BY <1>1, <1>2, <1>3 DEF BInv
-----------------------------------------------------------------------------
(* getQueue() that finds or constructs the queue changes no status; the    *)
(* new reader, if any, is shown the status there is.                       *)
LEMMA BuildQueueKeepsBInv ==
  ASSUME BInv, BuildQueue, UNCHANGED <<settings, lastEvent, nodeVars, config>>,
         \/ UNCHANGED <<readers, shown>>
         \/ \E n \in Cmd : readers' = readers \cup {n} /\ Show(n, backendStatus)
  PROVE  BInv'
<1>1. /\ constructs = "ok" /\ queue' = TRUE
      /\ seed' \in {"pending", "done"}
      /\ UNCHANGED <<postgres, constructs, lastEvent, startup, marked, closing,
                     config, backendStatus, latchVars, metVars>>
  BY DEF BuildQueue, BInv, Watched, StatusTypeOK, settings, nodeVars
<1>2. LatchOK'
  BY <1>1, BInvHasLatch, UnchangedLatch
<1>3. /\ readers' \subseteq Cmd
      /\ shown' \in [Cmd \cup Runtime -> Status \cup {"none"}]
      /\ ReadersAgree'
  <2>1. CASE UNCHANGED <<readers, shown>>
    BY <1>1, <2>1 DEF BInv, StatusTypeOK, ReadersAgree
  <2>2. ASSUME NEW n \in Cmd, readers' = readers \cup {n},
               Show(n, backendStatus)
        PROVE  /\ readers' \subseteq Cmd
               /\ shown' \in [Cmd \cup Runtime -> Status \cup {"none"}]
               /\ ReadersAgree'
    BY <1>1, <2>2 DEF BInv, StatusTypeOK, ReadersAgree, Show
  <2> QED BY <2>1, <2>2
<1>4. StatusTypeOK'
  BY <1>1, <1>2, <1>3 DEF BInv, StatusTypeOK, LatchOK
<1>5. Watched' /\ MarkedWasReady' /\ BuiltIsMended' /\ LiveEventsWin'
  BY <1>1 DEF BInv, Watched, MarkedWasReady, BuiltIsMended, Built,
              LiveEventsWin
<1> QED BY <1>2, <1>3, <1>4, <1>5 DEF BInv, LatchOK

(* A failure is published and reported only while no event has spoken: a   *)
(* construction that fails, for new and old readers R and for runtime      *)
(* nodes N, or the readiness promise.                                      *)
LEMMA PublishedFailureKeepsBInv ==
  ASSUME BInv, NEW R \in SUBSET Cmd, NEW N \in SUBSET (Cmd \cup Runtime),
         NEW c \in Category,
         PublishTo(readers \cup N, "disconnected"), Meet(c), Report(c),
         lastEvent = "none",
         readers' = readers \cup R, R \subseteq N,
         UNCHANGED <<settings, lastEvent, queue, config, marked, closing>>,
         seed' = seed \/ (seed = "pending" /\ seed' = "done"),
         startup' \in [Runtime -> {"none", "unbuilt", "pending", "ready",
                                   "failed", "ended"}],
         \A n \in Runtime : startup'[n] \in {startup[n], "unbuilt"},
         \A n \in marked : startup'[n] = startup[n]
  PROVE  BInv'
<1>1. readers \cup N \in SUBSET (Cmd \cup Runtime)
  BY DEF BInv, StatusTypeOK
<1>2. /\ backendStatus' = "disconnected"
      /\ shown' \in [Cmd \cup Runtime -> Status \cup {"none"}]
      /\ \A n \in readers \cup N : shown'[n] = "disconnected"
  BY <1>1, PublishedIsShown DEF BInv, Status
<1>3. LatchOK'
  BY BInvHasLatch, ReportKeepsLatch
<1>4. /\ postgres' = postgres /\ constructs' = constructs
      /\ readers' \subseteq Cmd
  BY DEF settings, BInv, StatusTypeOK
<1>5. StatusTypeOK'
  BY <1>2, <1>3, <1>4 DEF BInv, StatusTypeOK, LatchOK, Status
<1>6. Watched' /\ LiveEventsWin' /\ MarkedWasReady'
  BY <1>4 DEF BInv, Watched, LiveEventsWin, MarkedWasReady
<1>7. BuiltIsMended'
  BY <1>4 DEF BInv, BuiltIsMended, Built
<1>8. ReadersAgree'
  BY <1>2 DEF ReadersAgree
<1> QED BY <1>3, <1>5, <1>6, <1>7, <1>8 DEF BInv, LatchOK

(* Nothing is constructed in vain once the backend has emitted an event.   *)
LEMMA NoEventBeforeBuild ==
  BInv /\ constructs # "ok" => lastEvent = "none" /\ constructs \in Category
BY DEF BInv, Watched, StatusTypeOK

(* An event of the backend is what the readers show from then on; the      *)
(* answer of the readiness promise is shown only before any event.         *)
LEMMA PublishedStatusKeepsBInv ==
  ASSUME BInv, NEW s \in {"connected", "disconnected"},
         queue, PublishTo(readers, s),
         UNCHANGED <<settings, queue, readers, nodeVars, config, latchVars,
                     metVars>>,
         \/ lastEvent' = s /\ seed' = seed
         \/ /\ lastEvent' = lastEvent /\ lastEvent = "none"
            /\ seed = "pending" /\ seed' = "done"
  PROVE  BInv'
<1>1. readers \in SUBSET (Cmd \cup Runtime) /\ s \in Status
  BY DEF BInv, StatusTypeOK, Status
<1>2. /\ backendStatus' = s
      /\ shown' \in [Cmd \cup Runtime -> Status \cup {"none"}]
      /\ \A n \in readers : shown'[n] = s
  BY <1>1, PublishedIsShown DEF BInv
<1>3. LatchOK'
  BY BInvHasLatch, UnchangedLatch
<1>4. UNCHANGED <<postgres, constructs, queue, readers, startup, marked,
                  closing, config>>
  BY DEF settings, nodeVars
<1>5. StatusTypeOK'
  BY <1>1, <1>2, <1>3, <1>4 DEF BInv, StatusTypeOK, LatchOK
<1>6. /\ Watched' /\ MarkedWasReady' /\ BuiltIsMended' /\ ReadersAgree'
      /\ LiveEventsWin'
  BY <1>2, <1>4 DEF BInv, Watched, MarkedWasReady, BuiltIsMended, Built,
                    ReadersAgree, LiveEventsWin
<1> QED BY <1>3, <1>5, <1>6 DEF BInv, LatchOK

(* An answer of the readiness promise that is no news changes no status.   *)
LEMMA LateAnswerKeepsBInv ==
  ASSUME BInv, seed = "pending", seed' = "done",
         UNCHANGED <<settings, queue, lastEvent, readers, nodeVars, config,
                     backendStatus, shown, latchVars>>,
         UNCHANGED metVars \/ \E c \in Category : Drop(c)
  PROVE  BInv'
<1>1. UNCHANGED <<postgres, constructs, queue, lastEvent, readers, startup,
                  marked, closing, config, backendStatus, shown>>
  BY DEF settings, nodeVars
<1>2. LatchOK'
  BY BInvHasLatch, UnchangedLatch
<1>3. StatusTypeOK'
  BY <1>1, <1>2 DEF BInv, StatusTypeOK, LatchOK
<1>4. /\ Watched' /\ MarkedWasReady' /\ BuiltIsMended' /\ ReadersAgree'
      /\ LiveEventsWin'
  BY <1>1 DEF BInv, Watched, MarkedWasReady, BuiltIsMended, Built,
              ReadersAgree, LiveEventsWin
<1> QED BY <1>2, <1>3, <1>4 DEF BInv, LatchOK

(* What happens to the resource of a runtime node leaves the shared status *)
(* alone, and reports at most what was met.                                *)
LEMMA RuntimeStepKeepsBInv ==
  ASSUME BInv, NEW n \in Runtime,
         \/ UNCHANGED shown
         \/ \E s \in Status : Show(n, s),
         \/ /\ UNCHANGED latchVars
            /\ UNCHANGED metVars \/ \E c \in Category : Drop(c)
         \/ \E c \in Category : Meet(c) /\ Report(c),
         startup' \in [Runtime -> {"none", "unbuilt", "pending", "ready",
                                   "failed", "ended"}],
         marked' \subseteq Runtime, closing' \subseteq Runtime,
         MarkedWasReady', BuiltIsMended',
         UNCHANGED <<configVars, config>>
  PROVE  BInv'
<1>1. /\ UNCHANGED <<postgres, constructs, queue, seed, backendStatus,
                     lastEvent, readers, config>>
  BY DEF configVars, settings
<1>2. /\ shown' \in [Cmd \cup Runtime -> Status \cup {"none"}]
      /\ ReadersAgree'
  <2>1. CASE UNCHANGED shown
    BY <2>1, <1>1 DEF BInv, StatusTypeOK, ReadersAgree
  <2>2. CASE \E s \in Status : Show(n, s)
    BY <2>2, <1>1, RuntimeShowsItsOwn DEF BInv
  <2> QED BY <2>1, <2>2
<1>3. LatchOK'
  BY <1>1, BInvHasLatch, UnchangedLatch, ReportKeepsLatch
<1>4. StatusTypeOK'
  BY <1>1, <1>2, <1>3 DEF BInv, StatusTypeOK, LatchOK
<1>5. Watched' /\ LiveEventsWin'
  BY <1>1 DEF BInv, Watched, LiveEventsWin
<1> QED BY <1>2, <1>3, <1>4, <1>5 DEF BInv, LatchOK
-----------------------------------------------------------------------------
(* The deployment of a runtime node.                                       *)
LEMMA DeployRuntimeKeepsBInv ==
  ASSUME BInv, NEW n \in Runtime, DeployRuntime(n)
  PROVE  BInv'
<1>0. /\ n \notin marked /\ marked \subseteq Runtime /\ closing \subseteq Runtime
      /\ startup \in [Runtime -> {"none", "unbuilt", "pending", "ready",
                                   "failed", "ended"}]
      /\ startup[n] = "none"
  BY DEF BInv, StatusTypeOK, MarkedWasReady, DeployRuntime
<1>1. CASE /\ constructs = "ok"
           /\ startup' = [startup EXCEPT ![n] = "pending"]
           /\ Show(n, "connecting")
           /\ UNCHANGED <<queue, seed, backendStatus, latchVars, metVars>>
  <2>1. UNCHANGED <<configVars, marked, closing, config>>
    BY <1>1 DEF DeployRuntime, configVars
  <2>2. MarkedWasReady'
    BY <1>0, <1>1, <2>1 DEF MarkedWasReady, BInv
  <2>3. BuiltIsMended'
    BY <1>1, <2>1 DEF BuiltIsMended, configVars, settings
  <2>4. "connecting" \in Status
    BY DEF Status
  <2> QED BY <1>0, <1>1, <2>1, <2>2, <2>3, <2>4, RuntimeStepKeepsBInv
<1>2. CASE /\ startup' = [startup EXCEPT ![n] = "unbuilt"]
           /\ CannotBuild({n})
  <2>1. lastEvent = "none" /\ constructs \in Category
    BY <1>2, NoEventBeforeBuild DEF CannotBuild
  <2>2. /\ PublishTo(readers \cup {n}, "disconnected")
        /\ Meet(constructs) /\ Report(constructs)
        /\ UNCHANGED <<settings, queue, seed, lastEvent, readers, marked,
                       closing, config>>
    BY <1>2 DEF DeployRuntime, CannotBuild
  <2>3. /\ startup' \in [Runtime -> {"none", "unbuilt", "pending", "ready",
                                      "failed", "ended"}]
        /\ \A m \in marked : startup'[m] = startup[m]
        /\ \A m \in Runtime : startup'[m] \in {startup[m], "unbuilt"}
    BY <1>0, <1>2
  <2>4. {} \in SUBSET Cmd /\ readers' = readers \cup {} /\ {} \subseteq {n}
        /\ {n} \in SUBSET (Cmd \cup Runtime)
    BY <2>2
  <2> QED BY <2>1, <2>2, <2>3, <2>4, PublishedFailureKeepsBInv
<1> QED BY <1>1, <1>2 DEF DeployRuntime

(* A cmd node is deployed, or gets a message, and the queue cannot be      *)
(* constructed.                                                            *)
LEMMA CannotBuildKeepsBInv ==
  ASSUME BInv, NEW N \in SUBSET Cmd, CannotBuild(N),
         readers' = readers \cup N,
         UNCHANGED <<settings, lastEvent, nodeVars, config>>
  PROVE  BInv'
<1>1. lastEvent = "none" /\ constructs \in Category
  BY NoEventBeforeBuild DEF CannotBuild
<1>2. /\ PublishTo(readers \cup N, "disconnected")
      /\ Meet(constructs) /\ Report(constructs)
      /\ UNCHANGED <<settings, queue, seed, lastEvent, startup, marked,
                     closing, config>>
  BY DEF CannotBuild, nodeVars
<1>3. /\ startup' \in [Runtime -> {"none", "unbuilt", "pending", "ready",
                                    "failed", "ended"}]
      /\ \A m \in Runtime : startup'[m] \in {startup[m], "unbuilt"}
      /\ \A m \in marked : startup'[m] = startup[m]
  BY <1>2 DEF BInv, StatusTypeOK
<1> QED BY <1>1, <1>2, <1>3, PublishedFailureKeepsBInv
-----------------------------------------------------------------------------
(* Every step preserves the invariant.                                     *)
LEMMA NextKeepsBInv == BInv /\ [StatusNext]_statusVars => BInv'
<1> SUFFICES ASSUME BInv, [StatusNext]_statusVars PROVE BInv'
  OBVIOUS
<1> USE DEF nodeVars
<1>0. /\ startup \in [Runtime -> {"none", "unbuilt", "pending", "ready",
                                  "failed", "ended"}]
      /\ marked \subseteq Runtime /\ closing \subseteq Runtime
      /\ MarkedWasReady /\ BuiltIsMended
  BY DEF BInv, StatusTypeOK
<1>1. CASE UNCHANGED statusVars
  BY <1>1 DEF BInv, StatusTypeOK, Watched, MarkedWasReady, BuiltIsMended,
              Built, ReadersAgree, LiveEventsWin, LatchIsExact,
              ReportedExactlyOnce, statusVars, configVars, settings,
              latchVars, metVars
<1>2. ASSUME NEW n \in Cmd, DeployCmd(n) PROVE BInv'
  <2>1. CASE BuildQueue /\ Show(n, backendStatus)
    BY <1>2, <2>1, BuildQueueKeepsBInv DEF DeployCmd
  <2>2. CASE CannotBuild({n})
    BY <1>2, <2>2, CannotBuildKeepsBInv DEF DeployCmd
  <2> QED BY <1>2, <2>1, <2>2 DEF DeployCmd
<1>3. ASSUME NEW n \in Cmd, CmdInput(n) PROVE BInv'
  <2>1. CASE BuildQueue /\ UNCHANGED shown
    BY <1>3, <2>1, BuildQueueKeepsBInv DEF CmdInput
  <2>2. CASE CannotBuild({})
    <3>1. readers' = readers \cup {} /\ {} \in SUBSET Cmd
      BY <1>3 DEF CmdInput
    <3> QED BY <1>3, <2>2, <3>1, CannotBuildKeepsBInv DEF CmdInput
  <2> QED BY <1>3, <2>1, <2>2 DEF CmdInput
<1>4. ASSUME NEW n \in Run, ManualJob(n) PROVE BInv'
  BY <1>4, BuildQueueKeepsBInv DEF ManualJob
<1>5. ASSUME NEW n \in Cmd, CloseCmd(n) PROVE BInv'
  BY <1>5 DEF CloseCmd, BInv, StatusTypeOK, Watched, MarkedWasReady,
              BuiltIsMended, Built, ReadersAgree, LiveEventsWin,
              LatchIsExact, ReportedExactlyOnce, settings, latchVars, metVars
<1>6. ASSUME NEW s \in {"connected", "disconnected"}, BackendEvent(s)
      PROVE  BInv'
  BY <1>6, PublishedStatusKeepsBInv DEF BackendEvent
<1>7. CASE SeedReady
  <2>1. CASE backendStatus = "connecting"
    <3>1. queue /\ lastEvent = "none"
      BY <1>7, <2>1 DEF SeedReady, BInv, StatusTypeOK, Watched, LiveEventsWin
    <3> QED BY <1>7, <2>1, <3>1, PublishedStatusKeepsBInv DEF SeedReady
  <2>2. CASE backendStatus # "connecting"
    BY <1>7, <2>2, LateAnswerKeepsBInv DEF SeedReady
  <2> QED BY <2>1, <2>2
<1>8. ASSUME NEW c \in Category, SeedRejects(c) PROVE BInv'
  <2>1. CASE backendStatus = "connecting"
    <3>1. lastEvent = "none"
      BY <2>1 DEF BInv, StatusTypeOK, LiveEventsWin
    <3>2. /\ PublishTo(readers \cup {}, "disconnected")
          /\ Meet(c) /\ Report(c)
          /\ seed = "pending" /\ seed' = "done"
          /\ readers' = readers \cup {}
          /\ UNCHANGED <<settings, queue, lastEvent, startup, marked,
                         closing, config>>
      BY <1>8, <2>1 DEF SeedRejects
    <3>3. /\ startup' \in [Runtime -> {"none", "unbuilt", "pending",
                                        "ready", "failed", "ended"}]
          /\ \A m \in Runtime : startup'[m] \in {startup[m], "unbuilt"}
          /\ \A m \in marked : startup'[m] = startup[m]
      BY <1>0, <3>2
    <3>4. {} \in SUBSET Cmd /\ {} \in SUBSET (Cmd \cup Runtime)
      OBVIOUS
    <3> QED BY <3>1, <3>2, <3>3, <3>4, PublishedFailureKeepsBInv
  <2>2. CASE backendStatus # "connecting"
    BY <1>8, <2>2, LateAnswerKeepsBInv DEF SeedRejects
  <2> QED BY <2>1, <2>2
<1>9. ASSUME NEW n \in Runtime, DeployRuntime(n) PROVE BInv'
  BY <1>9, DeployRuntimeKeepsBInv
<1>10. ASSUME NEW n \in Runtime, BecomesReady(n) PROVE BInv'
  <2>1. /\ startup' = [startup EXCEPT ![n] = "ready"]
        /\ startup[n] \in {"pending", "ready"}
        /\ marked' = marked \/ marked' = marked \cup {n}
        /\ UNCHANGED shown \/ Show(n, "connected")
        /\ UNCHANGED <<configVars, closing, config, latchVars, metVars>>
    BY <1>10 DEF BecomesReady
  <2>2. MarkedWasReady'
    BY <1>0, <2>1 DEF MarkedWasReady
  <2>3. BuiltIsMended'
    BY <1>0, <2>1 DEF BuiltIsMended, Built, configVars, settings
  <2>4. "connected" \in Status
    BY DEF Status
  <2> QED BY <1>0, <2>1, <2>2, <2>3, <2>4, RuntimeStepKeepsBInv
<1>11. ASSUME NEW n \in Runtime, NEW c \in Category, StartupRejects(n, c)
       PROVE  BInv'
  <2>1. /\ startup[n] = "pending"
        /\ startup' = [startup EXCEPT ![n] = "failed"]
        /\ UNCHANGED shown \/ Show(n, "disconnected")
        /\ \/ UNCHANGED latchVars /\ (UNCHANGED metVars \/ Drop(c))
           \/ Meet(c) /\ Report(c)
        /\ UNCHANGED <<configVars, marked, closing, config>>
    BY <1>11 DEF StartupRejects, Fails
  <2>2. MarkedWasReady'
    BY <1>0, <2>1 DEF MarkedWasReady
  <2>3. BuiltIsMended'
    BY <1>0, <2>1 DEF BuiltIsMended, Built, configVars, settings
  <2>4. "disconnected" \in Status
    BY DEF Status
  <2> QED BY <1>0, <2>1, <2>2, <2>3, <2>4, RuntimeStepKeepsBInv
<1>12. ASSUME NEW n \in Runtime, NEW c \in Category, ErrorEvent(n, c)
       PROVE  BInv'
  <2>1. /\ Show(n, "disconnected")
        /\ \/ UNCHANGED latchVars /\ UNCHANGED metVars
           \/ Meet(c) /\ Report(c)
        /\ UNCHANGED <<configVars, startup, marked, closing, config>>
    BY <1>12 DEF ErrorEvent, Fails
  <2>2. MarkedWasReady'
    BY <1>0, <2>1 DEF MarkedWasReady
  <2>3. BuiltIsMended'
    BY <1>0, <2>1 DEF BuiltIsMended, Built, configVars, settings
  <2>4. "disconnected" \in Status
    BY DEF Status
  <2> QED BY <1>0, <2>1, <2>2, <2>3, <2>4, RuntimeStepKeepsBInv
<1>13. ASSUME NEW n \in Run, RunRejects(n) PROVE BInv'
  <2>1. /\ startup[n] = "ready"
        /\ startup' = [startup EXCEPT ![n] = "ended"]
        /\ UNCHANGED shown \/ Show(n, "disconnected")
        /\ UNCHANGED <<configVars, marked, closing, config, latchVars,
                       metVars>>
    BY <1>13 DEF RunRejects
  <2>2. MarkedWasReady'
    BY <1>0, <2>1 DEF MarkedWasReady
  <2>3. n \in Runtime /\ "disconnected" \in Status
    BY DEF Status, Runtime
  <2>4. BuiltIsMended'
    BY <1>0, <2>1, <2>3 DEF BuiltIsMended, Built, configVars, settings
  <2> QED BY <1>0, <2>1, <2>2, <2>3, <2>4, RuntimeStepKeepsBInv
<1>14. ASSUME NEW n \in Runtime, CloseRuntime(n) PROVE BInv'
  <2>1. MarkedWasReady'
    BY <1>0, <1>14 DEF MarkedWasReady, CloseRuntime
  <2>2. BuiltIsMended'
    BY <1>0, <1>14 DEF CloseRuntime, BuiltIsMended, Built, configVars,
                       settings
  <2> QED BY <1>0, <1>14, <2>1, <2>2, RuntimeStepKeepsBInv DEF CloseRuntime
<1>15. ASSUME NEW n \in Run, WorkerClosed(n) PROVE BInv'
  <2>1. MarkedWasReady'
    BY <1>0, <1>15 DEF MarkedWasReady, WorkerClosed
  <2>2. BuiltIsMended'
    BY <1>0, <1>15 DEF WorkerClosed, BuiltIsMended, Built, configVars,
                       settings
  <2>3. "disconnected" \in Status /\ n \in Runtime
    BY DEF Status, Runtime
  <2> QED BY <1>0, <1>15, <2>1, <2>2, <2>3, RuntimeStepKeepsBInv
          DEF WorkerClosed
<1>16. CASE CloseConfig
  BY <1>16 DEF CloseConfig, BInv, StatusTypeOK, Watched, MarkedWasReady,
               BuiltIsMended, Built, ReadersAgree, LiveEventsWin,
               LatchIsExact, ReportedExactlyOnce, configVars, settings,
               metVars
<1>17. CASE Repair
  BY <1>17 DEF Repair, BInv, StatusTypeOK, Watched, MarkedWasReady,
               BuiltIsMended, Built, ReadersAgree, LiveEventsWin,
               LatchIsExact, ReportedExactlyOnce, latchVars, metVars
<1> QED BY <1>1, <1>2, <1>3, <1>4, <1>5, <1>6, <1>7, <1>8, <1>9, <1>10,
           <1>11, <1>12, <1>13, <1>14, <1>15, <1>16, <1>17 DEF StatusNext

(* The strengthened invariant holds in every reachable state.              *)
THEOREM StatusInvariance == StatusSafety => []BInv
BY InitBInv, NextKeepsBInv, PTL DEF StatusSafety

(* Type correctness of the status model.                                   *)
THEOREM StatusTypeCorrect == StatusSafety => []StatusTypeOK
<1>1. BInv => StatusTypeOK
  BY DEF BInv
<1> QED BY <1>1, StatusInvariance, PTL

(* Every cmd node shows the status of the shared backend, whenever it was  *)
(* deployed.                                                               *)
THEOREM ReadersShowTheBackend == StatusSafety => []ReadersAgree
<1>1. BInv => ReadersAgree
  BY DEF BInv
<1> QED BY <1>1, StatusInvariance, PTL

(* No answer of the readiness promise overwrites a live event.             *)
THEOREM LiveEventsPrevail == StatusSafety => []LiveEventsWin
<1>1. BInv => LiveEventsWin
  BY DEF BInv
<1> QED BY <1>1, StatusInvariance, PTL

(* Each category of failure that a resource met was reported exactly once, *)
(* except one met only by a readiness answer that came too late or by a    *)
(* closing run node, which was not reported.                               *)
THEOREM OneReportPerCategory == StatusSafety => []ReportedExactlyOnce
<1>1. BInv => ReportedExactlyOnce
  BY DEF BInv
<1> QED BY <1>1, StatusInvariance, PTL

(* What goes out through the latch is a failed construction, a rejected    *)
(* readiness promise of the queue, or the failure of a runtime node's own  *)
(* resource that was never marked ready.                                   *)
LEMMA OnlyStartupIsLatched ==
  ASSUME BInv, [StatusNext]_statusVars, reports' # reports
  PROVE  \/ constructs # "ok"
         \/ seed = "pending" /\ seed' = "done"
         \/ \E n \in Built \ marked : shown'[n] = "disconnected"
<1>1. ASSUME NEW n \in Runtime, Show(n, "disconnected")
      PROVE  shown'[n] = "disconnected"
  BY <1>1 DEF Show, BInv, StatusTypeOK
<1>2. ASSUME NEW n \in Runtime, NEW c \in Category, ErrorEvent(n, c)
      PROVE  \E m \in Built \ marked : shown'[m] = "disconnected"
  BY <1>1, <1>2 DEF ErrorEvent, Fails, latchVars
<1>3. ASSUME NEW n \in Runtime, NEW c \in Category, StartupRejects(n, c)
      PROVE  \E m \in Built \ marked : shown'[m] = "disconnected"
  <2>1. n \in Built \ marked
    BY <1>3 DEF StartupRejects, Built, BInv, MarkedWasReady
  <2>2. Show(n, "disconnected")
    BY <1>3 DEF StartupRejects, Fails, latchVars
  <2> QED BY <1>1, <2>1, <2>2
<1>4. ASSUME NEW n \in Cmd, DeployCmd(n) \/ CmdInput(n)
      PROVE  constructs # "ok"
  BY <1>4 DEF DeployCmd, CmdInput, BuildQueue, CannotBuild, latchVars
<1>5. ASSUME NEW n \in Runtime, DeployRuntime(n)
      PROVE  constructs # "ok"
  BY <1>5 DEF DeployRuntime, CannotBuild, latchVars
<1>6. ASSUME NEW c \in Category, SeedRejects(c)
      PROVE  seed = "pending" /\ seed' = "done"
  BY <1>6 DEF SeedRejects
<1>7. ASSUME \/ UNCHANGED statusVars \/ Repair \/ SeedReady \/ CloseConfig
             \/ \E n \in Cmd : CloseCmd(n)
             \/ \E s \in {"connected", "disconnected"} : BackendEvent(s)
             \/ \E n \in Run : ManualJob(n) \/ RunRejects(n) \/ WorkerClosed(n)
             \/ \E n \in Runtime : BecomesReady(n) \/ CloseRuntime(n)
      PROVE  FALSE
  BY <1>7 DEF statusVars, Repair, SeedReady, CloseConfig, CloseCmd,
              BackendEvent, ManualJob, BuildQueue, RunRejects, WorkerClosed,
              BecomesReady, CloseRuntime, latchVars
<1> QED BY <1>2, <1>3, <1>4, <1>5, <1>6, <1>7 DEF StatusNext

(* An error of a resource that has been ready is a runtime error.          *)
THEOREM ReadyErrorsStayRuntimeErrors ==
  StatusSafety => ReadyErrorsAreRuntimeErrors
<1>1. BInv /\ [StatusNext]_statusVars =>
        [reports' # reports =>
           \/ constructs # "ok"
           \/ seed = "pending" /\ seed' = "done"
           \/ \E n \in Built \ marked : shown'[n] = "disconnected"]_statusVars
  BY OnlyStartupIsLatched
<1> QED BY <1>1, StatusInvariance, PTL
        DEF StatusSafety, ReadyErrorsAreRuntimeErrors
=============================================================================
