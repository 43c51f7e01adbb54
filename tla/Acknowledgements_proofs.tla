----------------------- MODULE Acknowledgements_proofs -----------------------
(***************************************************************************)
(* Proofs about the acknowledgement registry, for any sets of entries, run *)
(* nodes and results.                                                      *)
(***************************************************************************)
EXTENDS Acknowledgements, TLAPS

(* How the bookkeeping of one entry hangs together: an id that was not     *)
(* created is untouched, and the processor has been told something exactly *)
(* when it has finished, namely the settlement of its entry.               *)
Coherent ==
  \A a \in Ack :
    /\ (processor[a] = "idle") <=> (a \notin created)
    /\ a \notin created => settlement[a] = Pending
    /\ processor[a] = "finished" => settlement[a] # Pending
    /\ result[a] = IF processor[a] = "finished" THEN settlement[a] ELSE Pending

IInv ==
  /\ TypeOK
  /\ Coherent
  /\ RegistryIsExact
  /\ HandlesFollowSettlement
  /\ NoLostWakeup

(* No settlement is the pending one.                                       *)
LEMMA SettlementsDiffer ==
  /\ Pending \notin Settlement
  /\ \A v \in Value : Resolve(v) \in Settlement
  /\ \A e \in Error : Reject(e) \in Settlement
<1>1. \A v \in Value : Resolve(v).type # Pending.type
  BY DEF Resolve, Pending
<1>2. \A e \in Error : Reject(e).type # Pending.type
  BY DEF Reject, Pending
<1> QED BY <1>1, <1>2 DEF Settlement

(* The effect of a settlement on entries that were created and are still   *)
(* pending keeps the invariant.                                            *)
LEMMA SettlingKeepsIInv ==
  ASSUME IInv, NEW fresh \in SUBSET created, NEW s \in Settlement,
         \A a \in fresh : settlement[a] = Pending,
         Settling(fresh, s)
  PROVE  IInv'
<1>1. created' = created /\ owner' = owner
  BY DEF Settling, created
<1>2. \A a \in Ack : settlement'[a] = IF a \in fresh THEN s ELSE settlement[a]
  BY DEF Settling
<1>3. s # Pending
  BY SettlementsDiffer
<1>4. fresh \subseteq Ack
  BY DEF created
<1>5. \A a \in Ack :
        /\ processor'[a] = IF a \in fresh /\ processor[a] = "subscribed"
                           THEN "finished" ELSE processor[a]
        /\ result'[a] = IF a \in fresh /\ processor[a] = "subscribed"
                        THEN s ELSE result[a]
  BY <1>4 DEF Settling
<1>6. TypeOK'
  BY <1>4 DEF IInv, TypeOK, Settling
<1>7. Coherent'
  BY <1>1, <1>2, <1>3, <1>4, <1>5 DEF IInv, TypeOK, Coherent
<1>8. RegistryIsExact'
  BY <1>1, <1>2, <1>3, <1>4 DEF IInv, RegistryIsExact, Settling, created
<1>9. HandlesFollowSettlement'
  BY <1>1, <1>4 DEF IInv, HandlesFollowSettlement, Settling
<1>10. NoLostWakeup'
  BY <1>2, <1>3, <1>4, <1>5 DEF IInv, NoLostWakeup
<1> QED BY <1>6, <1>7, <1>8, <1>9, <1>10 DEF IInv

(* settle() keeps the invariant, whatever has settled before.              *)
LEMMA SettleKeepsIInv ==
  ASSUME IInv, NEW S \in SUBSET created, NEW s \in Settlement, Settle(S, s)
  PROVE  IInv'
<1> DEFINE fresh == {a \in S : settlement[a] = Pending}
<1>1. fresh \in SUBSET created /\ \A a \in fresh : settlement[a] = Pending
  OBVIOUS
<1>2. Settling(fresh, s)
  BY DEF Settle
<1> QED BY <1>1, <1>2, SettlingKeepsIInv

(* The initial state satisfies the invariant.                              *)
LEMMA InitIInv == Init => IInv
<1> SUFFICES ASSUME Init PROVE IInv
  OBVIOUS
<1>1. created = {}
  BY DEF Init, created
<1>2. TypeOK
  BY DEF Init, TypeOK
<1> QED BY <1>1, <1>2 DEF IInv, Init, Coherent, RegistryIsExact,
                        HandlesFollowSettlement, NoLostWakeup

(* create() keeps the invariant.                                           *)
LEMMA CreateKeepsIInv ==
  ASSUME IInv, NEW a \in Ack, NEW r \in RunNode, Create(a, r)
  PROVE  IInv'
<1>1. r # NoNode
  BY NoNodeAssumption
<1>2. created' = created \cup {a}
  BY <1>1 DEF IInv, TypeOK, Create, created
<1>3. a \notin created /\ settlement[a] = Pending /\ a \notin entries
  BY DEF IInv, Create, Coherent, RegistryIsExact
<1>4. TypeOK'
  BY DEF IInv, TypeOK, Create
<1>5. Coherent'
  BY <1>2, <1>3 DEF IInv, TypeOK, Coherent, Create
<1>6. RegistryIsExact'
  BY <1>2, <1>3 DEF IInv, RegistryIsExact, Create, created
<1>7. HandlesFollowSettlement'
  BY <1>3 DEF IInv, TypeOK, HandlesFollowSettlement, Create
<1>8. NoLostWakeup'
  BY <1>3 DEF IInv, TypeOK, NoLostWakeup, Create
<1> QED BY <1>4, <1>5, <1>6, <1>7, <1>8 DEF IInv

(* wait() keeps the invariant.                                             *)
LEMMA WaitKeepsIInv ==
  ASSUME IInv, NEW a \in Ack, Wait(a)
  PROVE  IInv'
<1>1. created' = created
  BY DEF Wait, created
<1>2. TypeOK'
  BY DEF IInv, TypeOK, Wait
<1>3. Coherent'
  BY <1>1 DEF IInv, TypeOK, Coherent, Wait
<1>4. RegistryIsExact' /\ HandlesFollowSettlement'
  BY <1>1 DEF IInv, RegistryIsExact, HandlesFollowSettlement, Wait
<1>5. NoLostWakeup'
  BY DEF IInv, TypeOK, NoLostWakeup, Wait
<1> QED BY <1>2, <1>3, <1>4, <1>5 DEF IInv

(* The five ways to settle, each on created entries.                       *)
LEMMA EveryOtherStepSettles ==
  ASSUME IInv, Next,
         ~ \E a \in Ack, r \in RunNode : Create(a, r),
         ~ \E a \in Ack : Wait(a)
  PROVE  \E S \in SUBSET created, s \in Settlement : Settle(S, s)
<1>1. CASE \E a \in Ack, v \in Value : Complete(a, v)
  BY <1>1, SettlementsDiffer DEF Complete
<1>2. CASE \E a \in Ack, e \in {"failed", "unrecoverable", "rateLimit",
                                "waiting", "delayed"} : Fail(a, e)
  BY <1>2, SettlementsDiffer DEF Fail, Error
<1>3. CASE \E a \in Ack : Timeout(a)
  BY <1>3, SettlementsDiffer
     DEF Timeout, Error, IInv, HandlesFollowSettlement, RegistryIsExact
<1>4. CASE \E S \in SUBSET Ack : Abort(S)
  BY <1>4, SettlementsDiffer
     DEF Abort, Error, IInv, HandlesFollowSettlement, RegistryIsExact
<1>5. CASE \E r \in RunNode : RejectByRunNode(r)
  <2>1. PICK r \in RunNode : RejectByRunNode(r)
    BY <1>5
  <2>2. {a \in entries : owner[a] = r} \in SUBSET created
    BY DEF IInv, RegistryIsExact
  <2> QED BY <2>1, <2>2, SettlementsDiffer DEF RejectByRunNode, Error
<1> QED BY <1>1, <1>2, <1>3, <1>4, <1>5 DEF Next

(* Every step keeps the invariant.                                         *)
LEMMA NextKeepsIInv == IInv /\ [Next]_vars => IInv'
<1> SUFFICES ASSUME IInv, [Next]_vars PROVE IInv'
  OBVIOUS
<1>1. CASE UNCHANGED vars
  BY <1>1 DEF vars, IInv, TypeOK, Coherent, RegistryIsExact,
              HandlesFollowSettlement, NoLostWakeup, created
<1>2. CASE \E a \in Ack, r \in RunNode : Create(a, r)
  BY <1>2, CreateKeepsIInv
<1>3. CASE \E a \in Ack : Wait(a)
  BY <1>3, WaitKeepsIInv
<1>4. CASE /\ Next
           /\ ~ \E a \in Ack, r \in RunNode : Create(a, r)
           /\ ~ \E a \in Ack : Wait(a)
  BY <1>4, EveryOtherStepSettles, SettleKeepsIInv
<1> QED BY <1>1, <1>2, <1>3, <1>4

(* The strengthened invariant holds in every reachable state.              *)
THEOREM Invariance == Spec => []IInv
BY InitIInv, NextKeepsIInv, PTL DEF Spec

(* Type correctness of the registry and its entries.                       *)
THEOREM TypeCorrect == Spec => []TypeOK
<1>1. IInv => TypeOK
  BY DEF IInv
<1> QED BY Invariance, <1>1, PTL

(* The registry never leaks a settled entry nor loses a pending one.       *)
THEOREM RegistryExact == Spec => []RegistryIsExact
<1>1. IInv => RegistryIsExact
  BY DEF IInv
<1> QED BY Invariance, <1>1, PTL

(* Timers and abort listeners live exactly as long as their entry waits.   *)
THEOREM HandlesExact == Spec => []HandlesFollowSettlement
<1>1. IInv => HandlesFollowSettlement
  BY DEF IInv
<1> QED BY Invariance, <1>1, PTL

(* No processor sleeps on an event that has already been emitted.          *)
THEOREM WakeupsKept == Spec => []NoLostWakeup
<1>1. IInv => NoLostWakeup
  BY DEF IInv
<1> QED BY Invariance, <1>1, PTL
-----------------------------------------------------------------------------
(* The outcome of a closing run node is like no other, nor is it pending.  *)
LEMMA ClosedIsItsOwn ==
  /\ \A v \in Value : Resolve(v) # Reject("closed")
  /\ \A e \in Error \ {"closed"} : Reject(e) # Reject("closed")
  /\ Pending # Reject("closed")
<1>1. \A v \in Value : Resolve(v).type # Reject("closed").type
  BY DEF Resolve, Reject
<1>2. \A e \in Error \ {"closed"} : Reject(e).error # Reject("closed").error
  BY DEF Reject
<1>3. Pending.type # Reject("closed").type
  BY DEF Pending, Reject
<1> QED BY <1>1, <1>2, <1>3

(* A step other than the closing of a run node fails nothing as "closed".  *)
LEMMA OnlyClosingRejectsAsClosed ==
  ASSUME IInv, [Next]_vars, ~ \E r \in RunNode : RejectByRunNode(r)
  PROVE  \A a \in entries : settlement'[a] # Reject("closed")
<1>1. \A a \in entries : a \in Ack /\ settlement[a] # Reject("closed")
  BY ClosedIsItsOwn DEF IInv, RegistryIsExact, created
<1>2. CASE settlement' = settlement
  BY <1>1, <1>2
<1>3. ASSUME NEW S, NEW s, s # Reject("closed"), Settle(S, s)
      PROVE  \A a \in entries : settlement'[a] # Reject("closed")
  BY <1>1, <1>3 DEF Settle, Settling
<1>4. CASE \E a \in Ack, v \in Value : Complete(a, v)
  BY <1>3, <1>4, ClosedIsItsOwn DEF Complete
<1>5. CASE \E a \in Ack, e \in {"failed", "unrecoverable", "rateLimit",
                                "waiting", "delayed"} : Fail(a, e)
  BY <1>3, <1>5, ClosedIsItsOwn DEF Fail, Error
<1>6. CASE \E a \in Ack : Timeout(a)
  BY <1>3, <1>6, ClosedIsItsOwn DEF Timeout, Error
<1>7. CASE \E S \in SUBSET Ack : Abort(S)
  BY <1>3, <1>7, ClosedIsItsOwn DEF Abort, Error
<1>8. CASE \/ UNCHANGED vars
           \/ \E a \in Ack, r \in RunNode : Create(a, r)
           \/ \E a \in Ack : Wait(a)
  BY <1>2, <1>8 DEF vars, Create, Wait
<1> QED BY <1>4, <1>5, <1>6, <1>7, <1>8 DEF Next

(* A closing run node fails every entry of its own that is registered, and *)
(* no other, and takes exactly those out of the registry.                  *)
LEMMA ClosingRejectsItsOwn ==
  ASSUME IInv, NEW r \in RunNode, RejectByRunNode(r)
  PROVE  /\ \A a \in entries :
              (settlement'[a] = Reject("closed")) <=> (owner[a] = r)
         /\ entries' = {a \in entries : owner[a] # r}
<1>1. \A a \in entries : a \in Ack /\ settlement[a] = Pending
  BY DEF IInv, RegistryIsExact, created
<1>2. \A a \in entries : settlement'[a] = IF owner[a] = r THEN Reject("closed")
                                          ELSE Pending
  BY <1>1 DEF RejectByRunNode, Settle, Settling
<1>3. entries' = {a \in entries : owner[a] # r}
  BY <1>1 DEF RejectByRunNode, Settle, Settling
<1> QED BY <1>2, <1>3, ClosedIsItsOwn

(* The step that closes a run node fails all that waits for it and nothing *)
(* else, takes exactly that out of the registry, and no step fails a part  *)
(* of what waits for a node, or what waits for two, as "closed".           *)
THEOREM ClosesPerNode == Spec => CloseIsPerNode
<1> DEFINE Mine(r) == {a \in entries : owner[a] = r}
           Closed == {a \in entries : settlement'[a] = Reject("closed")}
           PerNode == \A r \in RunNode :
             /\ RejectByRunNode(r) =>
                  Closed = Mine(r) /\ entries' = entries \ Mine(r)
             /\ Mine(r) \cap Closed # {} => Closed = Mine(r)
<1>1. IInv /\ [Next]_vars => [PerNode]_vars
  <2> SUFFICES ASSUME IInv, [Next]_vars, NEW r \in RunNode
               PROVE  /\ RejectByRunNode(r) => /\ Closed = Mine(r)
                                               /\ entries' = entries \ Mine(r)
                      /\ Mine(r) \cap Closed # {} => Closed = Mine(r)
    OBVIOUS
  <2>1. \A q \in RunNode : RejectByRunNode(q) => Closed = Mine(q)
    BY ClosingRejectsItsOwn
  <2>2. RejectByRunNode(r) => entries' = entries \ Mine(r)
    BY ClosingRejectsItsOwn
  <2>3. CASE \E q \in RunNode : RejectByRunNode(q)
    <3>1. PICK q \in RunNode : RejectByRunNode(q)
      BY <2>3
    <3>2. Closed = Mine(q)
      BY <2>1, <3>1
    <3>3. Mine(r) \cap Closed # {} => r = q
      BY <3>2
    <3> QED BY <2>1, <2>2, <3>2, <3>3
  <2>4. CASE ~ \E q \in RunNode : RejectByRunNode(q)
    <3>1. Closed = {}
      BY <2>4, OnlyClosingRejectsAsClosed
    <3> QED BY <2>4, <3>1
  <2> QED BY <2>3, <2>4
<1> QED BY <1>1, Invariance, PTL DEF Spec, CloseIsPerNode
-----------------------------------------------------------------------------
(* A settlement that is there is left alone by all that comes later, and   *)
(* so is what a processor was told.                                        *)
LEMMA SettledStaysSettled ==
  ASSUME IInv, [Next]_vars, NEW a \in Ack
  PROVE  /\ settlement[a] # Pending => settlement'[a] = settlement[a]
         /\ result[a] # Pending => result'[a] = result[a]
<1>1. CASE UNCHANGED vars \/ \E b \in Ack, r \in RunNode : Create(b, r)
  BY <1>1 DEF vars, Create
<1>2. ASSUME NEW b \in Ack, Wait(b)
      PROVE  /\ settlement'[a] = settlement[a]
             /\ result[a] # Pending => result'[a] = result[a]
  <2>1. result[b] = Pending
    BY <1>2 DEF Wait, IInv, Coherent
  <2> QED BY <1>2, <2>1 DEF Wait, IInv, TypeOK
<1>3. ASSUME NEW S \in SUBSET created, NEW s \in Settlement, Settle(S, s)
      PROVE  /\ settlement[a] # Pending => settlement'[a] = settlement[a]
             /\ result[a] # Pending => result'[a] = result[a]
  <2>1. result[a] # Pending => processor[a] = "finished"
    BY DEF IInv, Coherent
  <2> QED BY <1>3, <2>1 DEF Settle, Settling
<1> QED BY <1>1, <1>2, <1>3, EveryOtherStepSettles

(* The first settlement wins: whichever of the flow, the timer, the abort  *)
(* signal and a closing node comes first, no later one changes what the    *)
(* processor is told.                                                      *)
THEOREM FirstSettlementWins ==
  Spec => [][\A a \in Ack :
               /\ settlement[a] # Pending => settlement'[a] = settlement[a]
               /\ result[a] # Pending => result'[a] = result[a]]_vars
<1> DEFINE Final == \A a \in Ack :
             /\ settlement[a] # Pending => settlement'[a] = settlement[a]
             /\ result[a] # Pending => result'[a] = result[a]
<1>1. IInv /\ [Next]_vars => [Final]_vars
  BY SettledStaysSettled
<1> QED BY <1>1, Invariance, PTL DEF Spec
-----------------------------------------------------------------------------
(* settle() decides the promises that are still open and tells the         *)
(* processors that already listen.                                         *)
LEMMA SettleDecides ==
  ASSUME IInv, NEW S \in SUBSET created, NEW s \in Settlement, Settle(S, s)
  PROVE  \E T \in SUBSET Ack : \E D \in SUBSET T : P!Decide(T, D, s)
<1> DEFINE T == {a \in S : settlement[a] = Pending}
           D == {a \in T : processor[a] = "subscribed"}
<1>1. T \in SUBSET Ack /\ D \in SUBSET T
  BY DEF created
<1>2. \A a \in T : a \in created /\ settlement[a] = Pending
  OBVIOUS
<1>3. created' = created
  BY DEF Settle, Settling, created
<1>4. /\ settlement' = [a \in Ack |-> IF a \in T THEN s ELSE settlement[a]]
      /\ result' = [a \in Ack |-> IF a \in D THEN s ELSE result[a]]
  BY DEF Settle, Settling
<1>5. P!Decide(T, D, s)
  BY <1>2, <1>3, <1>4 DEF P!Decide
<1> QED BY <1>1, <1>5

(* Every step of the registry is a step of the promises, or a stutter.     *)
LEMMA StepRefines == IInv /\ [Next]_vars => [P!Next]_(P!vars)
<1> SUFFICES ASSUME IInv, [Next]_vars PROVE [P!Next]_(P!vars)
  OBVIOUS
<1>1. CASE UNCHANGED vars
  BY <1>1 DEF vars, P!vars, created
<1>2. ASSUME NEW a \in Ack, NEW r \in RunNode, Create(a, r)
      PROVE  P!Next
  <2>1. created' = created \cup {a}
    BY <1>2, NoNodeAssumption DEF IInv, TypeOK, Create, created
  <2>2. P!Open(a)
    BY <1>2, <2>1 DEF Create, P!Open
  <2> QED BY <2>2 DEF P!Next
<1>3. ASSUME NEW a \in Ack, Wait(a)
      PROVE  P!Next \/ UNCHANGED P!vars
  <2>1. created' = created
    BY <1>3 DEF Wait, created
  <2>2. CASE settlement[a] = Pending
    BY <1>3, <2>1, <2>2 DEF Wait, P!vars
  <2>3. CASE settlement[a] # Pending
    <3>1. result[a] = Pending
      BY <1>3 DEF Wait, IInv, Coherent
    <3>2. P!Tell(a)
      BY <1>3, <2>1, <2>3, <3>1 DEF Wait, P!Tell
    <3> QED BY <3>2 DEF P!Next
  <2> QED BY <2>2, <2>3
<1>4. CASE /\ Next
           /\ ~ \E a \in Ack, r \in RunNode : Create(a, r)
           /\ ~ \E a \in Ack : Wait(a)
  <2>1. PICK S \in SUBSET created, s \in Settlement : Settle(S, s)
    BY <1>4, EveryOtherStepSettles
  <2>2. \E T \in SUBSET Ack : \E D \in SUBSET T : P!Decide(T, D, s)
    BY <2>1, SettleDecides
  <2> QED BY <2>2 DEF P!Next
<1> QED BY <1>1, <1>2, <1>3, <1>4

(* The registry implements the one-shot promise: an acknowledgement is     *)
(* decided at most once and its processor is told exactly that decision.   *)
THEOREM RefinesPromises == Spec => ImplementsPromises
<1>1. Init => P!Init
  BY DEF Init, P!Init, created
<1> QED BY <1>1, Invariance, StepRefines, PTL
        DEF Spec, ImplementsPromises, P!Spec
=============================================================================
