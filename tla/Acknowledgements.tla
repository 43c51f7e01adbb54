-------------------------- MODULE Acknowledgements --------------------------
(***************************************************************************)
(* lib/acknowledgements.js: the registry of manual-mode jobs that wait for *)
(* a bullmq job node to acknowledge them, and its entries.                 *)
(*                                                                         *)
(* JavaScript runs one piece of code at a time, so a method is one atomic  *)
(* action; what interleaves are the callers: worker processors, job nodes, *)
(* acknowledgement timers, BullMQ's abort signals and closing run nodes.   *)
(*                                                                         *)
(* An element of Ack stands for the random ackId of one create() call and  *)
(* for the entry registered under it.                                      *)
(***************************************************************************)
EXTENDS Naturals, FiniteSets

CONSTANTS Ack,     \* acknowledgement ids
          RunNode, \* bullmq run nodes
          Timed,   \* the run nodes whose ackTimeout is greater than 0
          NoNode,  \* the owner of an id that was not created yet
          Value    \* results a flow completes a job with

ASSUME TimedAssumption == Timed \subseteq RunNode
ASSUME NoNodeAssumption == NoNode \notin RunNode

(* The errors an entry is failed with, named after who fails it.           *)
Error == {"failed", "unrecoverable", "rateLimit", "waiting", "delayed",
          "timeout", "aborted", "closed"}

Resolve(v) == [type |-> "resolve", value |-> v]
Reject(e) == [type |-> "reject", error |-> e]
Settlement == {Resolve(v) : v \in Value} \cup {Reject(e) : e \in Error}
Pending == [type |-> "pending"]

VARIABLES
  owner,      \* runNodeId of every entry
  entries,    \* the keys of the registry's Map
  settlement, \* entry.settlement
  timer,      \* entries whose setTimeout is pending
  listener,   \* entries subscribed to their abort signal
  processor,  \* where the processor that created the entry stands
  result      \* what its wait() returned or threw

vars == <<owner, entries, settlement, timer, listener, processor, result>>

created == {a \in Ack : owner[a] # NoNode}

Init ==
  /\ owner = [a \in Ack |-> NoNode]
  /\ entries = {}
  /\ settlement = [a \in Ack |-> Pending]
  /\ timer = {}
  /\ listener = {}
  /\ processor = [a \in Ack |-> "idle"]
  /\ result = [a \in Ack |-> Pending]
-----------------------------------------------------------------------------
(* The settlement s takes effect on the entries of fresh: their timers are *)
(* cleared, their abort listeners dropped, and "settled" is emitted, whose *)
(* two subscribers remove the entry from the registry and hand s to the    *)
(* processor, if wait() has subscribed it.                                 *)
Settling(fresh, s) ==
  LET woken == {a \in fresh : processor[a] = "subscribed"}
  IN /\ settlement' = [a \in Ack |-> IF a \in fresh THEN s ELSE settlement[a]]
     /\ entries' = entries \ fresh
     /\ timer' = timer \ fresh
     /\ listener' = listener \ fresh
     /\ processor' = [a \in Ack |-> IF a \in woken THEN "finished"
                                    ELSE processor[a]]
     /\ result' = [a \in Ack |-> IF a \in woken THEN s ELSE result[a]]
     /\ UNCHANGED owner

(* Defect: no guard, the last settlement wins.                             *)
SettleAgain(S, s) == Settling(S, s)

(* settle(s) of every entry of S: only the first settlement counts.        *)
Settle(S, s) == Settling({a \in S : settlement[a] = Pending}, s)
-----------------------------------------------------------------------------
(* Defect: an entry with a timer does not listen to the abort signal.      *)
CreateTimerOrListener(a, r) ==
  /\ a \notin created
  /\ owner' = [owner EXCEPT ![a] = r]
  /\ entries' = entries \cup {a}
  /\ listener' = IF r \in Timed THEN listener ELSE listener \cup {a}
  /\ timer' = IF r \in Timed THEN timer \cup {a} ELSE timer
  /\ processor' = [processor EXCEPT ![a] = "sending"]
  /\ UNCHANGED <<settlement, result>>

(* create(): a processor of run node r registers entry a, which listens to *)
(* the job's abort signal and, when the node has a timeout, arms a timer.  *)
(* The processor then sends the message that carries the ackId.            *)
Create(a, r) ==
  /\ a \notin created
  /\ owner' = [owner EXCEPT ![a] = r]
  /\ entries' = entries \cup {a}
  /\ listener' = listener \cup {a}
  /\ timer' = IF r \in Timed THEN timer \cup {a} ELSE timer
  /\ processor' = [processor EXCEPT ![a] = "sending"]
  /\ UNCHANGED <<settlement, result>>

(* Defect: wait() subscribes even when the entry is settled already.       *)
WaitAlwaysSubscribes(a) ==
  /\ processor[a] = "sending"
  /\ processor' = [processor EXCEPT ![a] = "subscribed"]
  /\ UNCHANGED <<owner, entries, settlement, timer, listener, result>>

(* wait(): with synchronous message delivery the flow may settle the entry *)
(* while the processor is still inside node.send(), so a settlement that   *)
(* is there already is returned and only its absence subscribes.           *)
Wait(a) ==
  /\ processor[a] = "sending"
  /\ IF settlement[a] = Pending
       THEN /\ processor' = [processor EXCEPT ![a] = "subscribed"]
            /\ UNCHANGED result
       ELSE /\ processor' = [processor EXCEPT ![a] = "finished"]
            /\ result' = [result EXCEPT ![a] = settlement[a]]
  /\ UNCHANGED <<owner, entries, settlement, timer, listener>>

(* Defect: complete() loses its value.                                     *)
CompleteWithoutValue(a, v) ==
  a \in created /\ Settle({a}, [type |-> "resolve"])

(* complete(v) and fail(e), on an entry the caller may have looked up      *)
(* before an await: it need no longer be registered.                       *)
Complete(a, v) == a \in created /\ Settle({a}, Resolve(v))
Fail(a, e) == a \in created /\ Settle({a}, Reject(e))

(* The acknowledgement timer fires.                                        *)
Timeout(a) == a \in timer /\ Settle({a}, Reject("timeout"))

(* BullMQ aborts the signals of the jobs S; those that listen fail.        *)
Abort(S) == S \subseteq listener /\ Settle(S, Reject("aborted"))

(* Defect: a closing run node fails the entries of all run nodes.          *)
RejectEverything(r) == Settle(entries, Reject("closed"))

(* Defect: a closing run node forgets its entries instead of failing them. *)
ForgetByRunNode(r) ==
  /\ entries' = {a \in entries : owner[a] # r}
  /\ UNCHANGED <<owner, settlement, timer, listener, processor, result>>

(* rejectByRunNode(): fail every registered entry of one run node.         *)
RejectByRunNode(r) ==
  Settle({a \in entries : owner[a] = r}, Reject("closed"))

Next ==
  \/ \E a \in Ack, r \in RunNode : Create(a, r)
  \/ \E a \in Ack : Wait(a)
  \/ \E a \in Ack, v \in Value : Complete(a, v)
  \/ \E a \in Ack, e \in {"failed", "unrecoverable", "rateLimit",
                          "waiting", "delayed"} : Fail(a, e)
  \/ \E a \in Ack : Timeout(a)
  \/ \E S \in SUBSET Ack : Abort(S)
  \/ \E r \in RunNode : RejectByRunNode(r)

Spec == Init /\ [][Next]_vars
-----------------------------------------------------------------------------
(* Every variable stays in its range.                                      *)
TypeOK ==
  /\ owner \in [Ack -> RunNode \cup {NoNode}]
  /\ entries \subseteq Ack
  /\ settlement \in [Ack -> Settlement \cup {Pending}]
  /\ timer \subseteq Ack
  /\ listener \subseteq Ack
  /\ processor \in [Ack -> {"idle", "sending", "subscribed", "finished"}]
  /\ result \in [Ack -> Settlement \cup {Pending}]

(* The registry holds exactly the entries nobody has settled: a finished   *)
(* job never accumulates in it ("so the registry never accumulates         *)
(* finished jobs") and an unfinished one can always be acknowledged.       *)
RegistryIsExact == entries = {a \in created : settlement[a] = Pending}

(* A settled entry leaves no timer and no abort listener behind; an        *)
(* unsettled one can always be reached by its abort signal, and by its     *)
(* timer when its run node has a timeout.                                  *)
HandlesFollowSettlement ==
  /\ listener = entries
  /\ timer = {a \in entries : owner[a] \in Timed}

(* No wake-up is lost: a processor sleeps on the "settled" event only      *)
(* while that event is still to come, whatever settled the entry first.    *)
NoLostWakeup ==
  \A a \in Ack : processor[a] = "subscribed" => settlement[a] = Pending

(* Closing is per run node. The step that closes run node r fails exactly  *)
(* the registered entries of r, all of them and none of another node, and  *)
(* exactly those leave the registry; and whatever step fails an entry as   *)
(* "closed" fails all of its run node's with it and no other's.            *)
CloseIsPerNode ==
  [][\A r \in RunNode :
       LET mine == {a \in entries : owner[a] = r}
           closed == {a \in entries : settlement'[a] = Reject("closed")}
       IN /\ RejectByRunNode(r) => closed = mine /\ entries' = entries \ mine
          /\ mine \cap closed # {} => closed = mine]_vars

(* The registry implements the one-shot promise of module Promises.        *)
P == INSTANCE Promises WITH opened <- created, outcome <- settlement
ImplementsPromises == P!Spec
=============================================================================
