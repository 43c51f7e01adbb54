------------------------------ MODULE Promises ------------------------------
(***************************************************************************)
(* What a manual acknowledgement promises to the rest of the package, with *)
(* no registry, timer, listener or event emitter in sight: every           *)
(* acknowledgement is opened once, decided at most once, and whoever waits *)
(* for it is told that one decision and nothing else.                      *)
(***************************************************************************)
CONSTANTS Ack,       \* acknowledgement identifiers
          Settlement,\* the decisions an acknowledgement may get
          Pending    \* stands for "no decision yet"

VARIABLES opened,    \* the acknowledgements handed out so far
          outcome,   \* the decision of each acknowledgement
          result     \* what the waiter of each acknowledgement was told

vars == <<opened, outcome, result>>

Init ==
  /\ opened = {}
  /\ outcome = [a \in Ack |-> Pending]
  /\ result = [a \in Ack |-> Pending]

Open(a) ==
  /\ a \notin opened
  /\ opened' = opened \cup {a}
  /\ UNCHANGED <<outcome, result>>

(* One decision s for the undecided acknowledgements of S; the waiters D   *)
(* that were already listening are told at once.                           *)
Decide(S, D, s) ==
  /\ \A a \in S : a \in opened /\ outcome[a] = Pending
  /\ outcome' = [a \in Ack |-> IF a \in S THEN s ELSE outcome[a]]
  /\ result' = [a \in Ack |-> IF a \in D THEN s ELSE result[a]]
  /\ UNCHANGED opened

(* A waiter that starts to listen after the decision is told it then.      *)
Tell(a) ==
  /\ outcome[a] # Pending
  /\ result[a] = Pending
  /\ result' = [result EXCEPT ![a] = outcome[a]]
  /\ UNCHANGED <<opened, outcome>>

Next ==
  \/ \E a \in Ack : Open(a) \/ Tell(a)
  \/ \E S \in SUBSET Ack, s \in Settlement :
       \E D \in SUBSET S : Decide(S, D, s)

Spec == Init /\ [][Next]_vars
=============================================================================
