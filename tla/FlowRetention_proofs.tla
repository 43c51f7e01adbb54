------------------------ MODULE FlowRetention_proofs ------------------------
(***************************************************************************)
(* For every tree, every assignment of queues and every setting, the walk  *)
(* ends with the documented precedence. No induction over the tree is      *)
(* needed: what is visited is closed under Children up to what is pending. *)
(***************************************************************************)
EXTENDS FlowRetention, TLAPS

(* Either there is nothing to stamp, or the walk has not lost a job.       *)
Frontier ==
  \/ Retention = None /\ pending = {} /\ visited = {}
  \/ /\ Root \in visited \cup pending
     /\ \A j \in visited : Children[j] \subseteq visited \cup pending

(* Exactly the queues of visited jobs have the retention below their own   *)
(* defaults, on the path of a single tree ...                              *)
QueuesSoFar ==
  \A q \in Queue :
    JobDefaults(queuesOptions, q) =
      IF path = "single" /\ \E j \in visited : QueueOf[j] = q
      THEN Merge(Retention, JobDefaults(flowopts, q))
      ELSE JobDefaults(flowopts, q)

(* ... and exactly the visited jobs themselves on the path of an array.    *)
OptsSoFar ==
  \A j \in Job : opts[j] = IF path = "bulk" /\ j \in visited
                           THEN Merge(Retention, own[j]) ELSE own[j]

FlowInv == FlowTypeOK /\ Frontier /\ QueuesSoFar /\ OptsSoFar

(* Options are merged into options.                                        *)
LEMMA MergeIsOptions ==
  ASSUME NEW a \in Options, NEW b \in Options
  PROVE  Merge(a, b) \in Options
<1>1. PICK A \in SUBSET Field : a \in [A -> Count]
  BY DEF Options
<1>2. PICK B \in SUBSET Field : b \in [B -> Count]
  BY DEF Options
<1>3. Merge(a, b) \in [A \cup B -> Count]
  BY <1>1, <1>2 DEF Merge
<1> QED BY <1>3 DEF Options

(* No options are neutral on either side.                                  *)
LEMMA MergeNone ==
  ASSUME NEW a \in Options
  PROVE  Merge(None, a) = a /\ Merge(a, None) = a
<1>1. PICK A \in SUBSET Field : a \in [A -> Count]
  BY DEF Options
<1>2. DOMAIN Merge(None, a) = A /\ DOMAIN Merge(a, None) = A
  BY <1>1 DEF Merge, None
<1>3. \A f \in A : Merge(None, a)[f] = a[f] /\ Merge(a, None)[f] = a[f]
  BY <1>1 DEF Merge, None
<1>4. Merge(None, a) \in [A -> Count] /\ Merge(a, None) \in [A -> Count]
  BY <1>1, <1>2, <1>3 DEF Merge, None
<1> QED BY <1>1, <1>3, <1>4

(* Putting the same defaults below twice is putting them there once.       *)
LEMMA MergeTwice ==
  ASSUME NEW a \in Options, NEW b \in Options
  PROVE  Merge(a, Merge(a, b)) = Merge(a, b)
<1>1. PICK A \in SUBSET Field : a \in [A -> Count]
  BY DEF Options
<1>2. PICK B \in SUBSET Field : b \in [B -> Count]
  BY DEF Options
<1>3. /\ Merge(a, b) \in [A \cup B -> Count]
      /\ \A f \in A : f \notin B => Merge(a, b)[f] = a[f]
  BY <1>1, <1>2 DEF Merge
<1>4. ASSUME NEW c \in [A \cup B -> Count]
      PROVE  /\ Merge(a, c) \in [A \cup B -> Count]
             /\ \A f \in A \cup B : Merge(a, c)[f] = c[f]
  BY <1>1, <1>4 DEF Merge
<1> QED BY <1>3, <1>4

(* What the settings, the message and the walk hold are options.           *)
LEMMA SettingsAreOptions ==
  ASSUME FlowTypeOK
  PROVE  /\ Retention \in Options /\ None \in Options
         /\ \A q \in Queue : JobDefaults(flowopts, q) \in Options
         /\ \A q \in Queue : JobDefaults(queuesOptions, q) \in Options
<1>1. None \in Options
  BY DEF None, Options
<1>2. Retention \in Options
  <2> DEFINE S == {f \in Field : config[f] # Blank}
  <2>1. S \in SUBSET Field /\ Retention \in [S -> Count]
    BY DEF FlowTypeOK, Inputs, Settings, Retention, BuildDefaultJobOptions
  <2> QED BY <2>1 DEF Options
<1>3. ASSUME NEW o \in PerQueue, NEW q \in Queue
      PROVE  JobDefaults(o, q) \in Options
  BY <1>1, <1>3 DEF PerQueue, JobDefaults
<1> QED BY <1>1, <1>2, <1>3 DEF FlowTypeOK, Inputs

(* The walk starts with the invariant.                                     *)
LEMMA InitFlowInv == Inputs /\ FlowInit => FlowInv
<1> SUFFICES ASSUME Inputs, FlowInit PROVE FlowInv
  OBVIOUS
<1>1. FlowTypeOK
  BY TreeAssumption DEF Inputs, FlowInit, FlowTypeOK
<1>2. Frontier
  BY DEF FlowInit, Frontier
<1>3. QueuesSoFar /\ OptsSoFar
  BY DEF FlowInit, QueuesSoFar, OptsSoFar
<1> QED BY <1>1, <1>2, <1>3 DEF FlowInv

(* Walking on loses no job.                                                *)
LEMMA WalkKeepsFrontier ==
  ASSUME FlowInv, NEW j \in pending, Walk(j)
  PROVE  /\ Frontier' /\ Inputs' /\ Retention' = Retention
         /\ pending' \subseteq Job /\ visited' \subseteq Job
<1>1. Inputs' /\ Retention' = Retention
  BY DEF FlowInv, FlowTypeOK, Walk, inputs, Inputs, Retention
<1>2. pending' \subseteq Job /\ visited' \subseteq Job
  BY TreeAssumption DEF FlowInv, FlowTypeOK, Walk
<1>3. Frontier'
  BY <1>1 DEF FlowInv, Frontier, Walk
<1> QED BY <1>1, <1>2, <1>3

(* A step on the path of a single tree.                                    *)
LEMMA SingleKeepsFlowInv ==
  ASSUME FlowInv, NEW j \in Job, VisitSingle(j)
  PROVE  FlowInv'
<1> DEFINE q == QueueOf[j]
           merged == Merge(Retention, JobDefaults(queuesOptions, q))
<1>1. /\ j \in pending /\ path = "single" /\ Walk(j) /\ opts' = opts
      /\ q \in Queue
  BY QueueAssumption DEF VisitSingle
<1>2. /\ Frontier' /\ Inputs' /\ Retention' = Retention
      /\ pending' \subseteq Job /\ visited' = visited \cup {j}
      /\ visited' \subseteq Job
      /\ path' = path /\ flowopts' = flowopts /\ own' = own
  BY <1>1, WalkKeepsFrontier DEF Walk, inputs
<1>3. merged \in Options
  BY <1>1, SettingsAreOptions, MergeIsOptions DEF FlowInv
<1>4. merged = Merge(Retention, JobDefaults(flowopts, q))
  <2>1. CASE \E i \in visited : QueueOf[i] = q
    <3>1. JobDefaults(queuesOptions, q) =
            Merge(Retention, JobDefaults(flowopts, q))
      BY <1>1, <2>1 DEF FlowInv, QueuesSoFar
    <3> QED BY <1>1, <3>1, SettingsAreOptions, MergeTwice DEF FlowInv
  <2>2. CASE ~ \E i \in visited : QueueOf[i] = q
    BY <1>1, <2>2 DEF FlowInv, QueuesSoFar
  <2> QED BY <2>1, <2>2
<1>5. queuesOptions' = [r \in DOMAIN queuesOptions \cup {q} |->
                          IF r = q THEN merged ELSE queuesOptions[r]]
  BY DEF VisitSingle
<1>6. queuesOptions' \in PerQueue
  <2>1. PICK Q \in SUBSET Queue : queuesOptions \in [Q -> Options]
    BY DEF FlowInv, FlowTypeOK, PerQueue
  <2>2. queuesOptions' \in [Q \cup {q} -> Options]
    <3> HIDE DEF merged, q
    <3> QED BY <1>3, <1>5, <2>1
  <2> QED BY <1>1, <2>1, <2>2 DEF PerQueue
<1>7. \A r \in Queue : JobDefaults(queuesOptions', r) =
        IF r = q THEN merged ELSE JobDefaults(queuesOptions, r)
  <2> HIDE DEF merged, q
  <2> QED BY <1>5 DEF JobDefaults
<1>8. QueuesSoFar'
  <2> SUFFICES ASSUME NEW r \in Queue
               PROVE  JobDefaults(queuesOptions', r) =
                        IF \E i \in visited' : QueueOf[i] = r
                        THEN Merge(Retention, JobDefaults(flowopts, r))
                        ELSE JobDefaults(flowopts, r)
    BY <1>1, <1>2 DEF QueuesSoFar, JobDefaults
  <2>1. CASE r = q
    BY <1>2, <1>4, <1>7, <2>1
  <2>2. CASE r # q
    BY <1>1, <1>2, <1>7, <2>2 DEF FlowInv, QueuesSoFar
  <2> QED BY <2>1, <2>2
<1>9. OptsSoFar'
  BY <1>1, <1>2 DEF FlowInv, OptsSoFar
<1>10. FlowTypeOK'
  BY <1>1, <1>2, <1>6 DEF FlowInv, FlowTypeOK
<1> QED BY <1>2, <1>8, <1>9, <1>10 DEF FlowInv

(* A step on the path of an array.                                         *)
LEMMA BulkKeepsFlowInv ==
  ASSUME FlowInv, NEW j \in Job, VisitBulk(j)
  PROVE  FlowInv'
<1>1. /\ j \in pending /\ path = "bulk" /\ Walk(j)
      /\ queuesOptions' = queuesOptions
      /\ opts' = [opts EXCEPT ![j] = Merge(Retention, opts[j])]
  BY DEF VisitBulk
<1>2. /\ Frontier' /\ Inputs' /\ Retention' = Retention
      /\ pending' \subseteq Job /\ visited' = visited \cup {j}
      /\ visited' \subseteq Job
      /\ path' = path /\ flowopts' = flowopts /\ own' = own
  BY <1>1, WalkKeepsFrontier DEF Walk, inputs
<1>3. opts \in [Job -> Options] /\ own \in [Job -> Options]
  BY DEF FlowInv, FlowTypeOK, Inputs
<1>4. Merge(Retention, opts[j]) \in Options
  BY <1>3, SettingsAreOptions, MergeIsOptions DEF FlowInv
<1>5. Merge(Retention, opts[j]) = Merge(Retention, own[j])
  <2>1. opts[j] = own[j] \/ opts[j] = Merge(Retention, own[j])
    BY DEF FlowInv, OptsSoFar
  <2> QED BY <1>3, <2>1, SettingsAreOptions, MergeTwice DEF FlowInv
<1>6. OptsSoFar'
  <2> SUFFICES ASSUME NEW i \in Job
               PROVE  opts'[i] = IF i \in visited'
                                 THEN Merge(Retention, own[i]) ELSE own[i]
    BY <1>1, <1>2 DEF OptsSoFar
  <2>1. CASE i = j
    BY <1>1, <1>2, <1>3, <1>5, <2>1
  <2>2. CASE i # j
    BY <1>1, <1>2, <1>3, <2>2 DEF FlowInv, OptsSoFar
  <2> QED BY <2>1, <2>2
<1>7. QueuesSoFar'
  BY <1>1, <1>2 DEF FlowInv, QueuesSoFar
<1>8. FlowTypeOK'
  BY <1>1, <1>2, <1>3, <1>4 DEF FlowInv, FlowTypeOK
<1> QED BY <1>2, <1>6, <1>7, <1>8 DEF FlowInv

(* The strengthened invariant holds throughout.                            *)
THEOREM FlowInvariance == FlowSpec => []FlowInv
<1>1. FlowInv /\ [FlowNext]_flowVars => FlowInv'
  <2> SUFFICES ASSUME FlowInv, [FlowNext]_flowVars PROVE FlowInv'
    OBVIOUS
  <2>1. CASE FlowNext
    BY <2>1, SingleKeepsFlowInv, BulkKeepsFlowInv DEF FlowNext
  <2>2. CASE UNCHANGED flowVars
    BY <2>2 DEF flowVars, inputs, FlowInv, FlowTypeOK, Inputs, Frontier,
       QueuesSoFar, OptsSoFar, Retention
  <2> QED BY <2>1, <2>2
<1> QED BY InitFlowInv, <1>1, PTL DEF FlowSpec

(* Once nothing is pending, the whole tree has been visited.               *)
LEMMA WalkIsComplete ==
  ASSUME FlowInv, pending = {}
  PROVE  visited = Job \/ (visited = {} /\ Retention = None)
BY TreeAssumption DEF FlowInv, FlowTypeOK, Frontier

(* When the flow is handed over, every job of every tree has the options   *)
(* NODE_GUIDE.md promises, on both paths.                                  *)
THEOREM RetentionReachesEveryJob == FlowSpec => []RetentionInOrder
<1>1. FlowInv => RetentionInOrder
  <2> SUFFICES
        ASSUME FlowInv, pending = {}, NEW j \in Job
        PROVE  Effective(j) =
                 Merge(Merge(Retention,
                             IF path = "single"
                             THEN JobDefaults(flowopts, QueueOf[j]) ELSE None),
                       own[j])
    BY DEF RetentionInOrder
  <2>1. /\ QueueOf[j] \in Queue /\ own[j] \in Options
        /\ path \in {"single", "bulk"} /\ Retention \in Options
        /\ JobDefaults(flowopts, QueueOf[j]) \in Options
    BY QueueAssumption, SettingsAreOptions DEF FlowInv, FlowTypeOK, Inputs
  <2>2. CASE path = "single"
    <3>1. opts[j] = own[j]
      BY <2>2 DEF FlowInv, OptsSoFar
    <3>2. JobDefaults(queuesOptions, QueueOf[j]) =
            Merge(Retention, JobDefaults(flowopts, QueueOf[j]))
      <4>1. CASE visited = Job
        BY <2>1, <2>2, <4>1 DEF FlowInv, QueuesSoFar
      <4>2. CASE visited = {} /\ Retention = None
        BY <2>1, <2>2, <4>2, MergeNone DEF FlowInv, QueuesSoFar
      <4> QED BY <4>1, <4>2, WalkIsComplete
    <3> QED BY <2>2, <3>1, <3>2 DEF Effective
  <2>3. CASE path = "bulk"
    <3>1. Merge(Retention, None) = Retention
      BY <2>1, MergeNone
    <3>2. opts[j] = Merge(Retention, own[j])
      <4>1. CASE visited = Job
        BY <2>3, <4>1 DEF FlowInv, OptsSoFar
      <4>2. CASE visited = {} /\ Retention = None
        BY <2>1, <2>3, <4>2, MergeNone DEF FlowInv, OptsSoFar
      <4> QED BY <4>1, <4>2, WalkIsComplete
    <3> QED BY <2>3, <3>1, <3>2 DEF Effective
  <2> QED BY <2>1, <2>2, <2>3
<1> QED BY <1>1, FlowInvariance, PTL

(* The walk only ever makes options out of options.                        *)
THEOREM FlowTypeCorrect == FlowSpec => []FlowTypeOK
<1>1. FlowInv => FlowTypeOK
  BY DEF FlowInv
<1> QED BY <1>1, FlowInvariance, PTL
=============================================================================
