---------------------------- MODULE AckDeadlines ----------------------------
(***************************************************************************)
(* The acknowledgement registry with a clock: which delay the Ack Timeout  *)
(* setting of a run node becomes, and when its timer fires.                *)
(*                                                                         *)
(* Time is counted in a unit of which TIMEOUT_MAX is the longest delay a   *)
(* timer of Node.js takes (2^31 - 1 ms); it never passes a timer that is   *)
(* due.                                                                    *)
(***************************************************************************)
EXTENDS Acknowledgements, Integers

CONSTANTS AckTimeout,  \* the Ack Timeout setting of every run node
          Blank, Text, \* a setting that is empty, or not a number
          DefaultMs,   \* defaultMs
          TIMEOUT_MAX, \* the longest delay setTimeout() takes
          MaxWaited    \* bound: the time one acknowledgement may wait

VARIABLES
  armed,  \* the delay the timer of an entry was armed with
  waited  \* how long an entry has been waiting to be settled

clockVars == <<armed, waited>>
deadlineVars == <<vars, clockVars>>

(* parseAckTimeoutMs(): any finite number is taken as it is.               *)
ParseAckTimeoutMs(v) ==
  IF v \in {Blank, Text} THEN DefaultMs ELSE IF v < 0 THEN DefaultMs ELSE v

(* setTimeout() warns of a delay it cannot hold and takes 1 ms instead.    *)
Delay(ms) == IF ms > TIMEOUT_MAX THEN 1 ELSE ms

DeadlineInit ==
  /\ Init
  /\ armed = [a \in Ack |-> 0]
  /\ waited = [a \in Ack |-> 0]

(* A processor registers an acknowledgement with the parsed timeout.       *)
Register(a, r) ==
  /\ Create(a, r)
  /\ armed' = [armed EXCEPT ![a] = Delay(ParseAckTimeoutMs(AckTimeout[r]))]
  /\ UNCHANGED waited

TimerFires(a) ==
  /\ waited[a] >= armed[a]
  /\ Timeout(a)
  /\ UNCHANGED clockVars

Pass ==
  /\ \A a \in timer : waited[a] < armed[a]
  /\ \A a \in entries : waited[a] < MaxWaited
  /\ waited' = [a \in Ack |-> IF a \in entries THEN waited[a] + 1
                              ELSE waited[a]]
  /\ UNCHANGED <<vars, armed>>

Others ==
  /\ \/ \E a \in Ack : Wait(a)
     \/ \E a \in Ack, v \in Value : Complete(a, v)
     \/ \E a \in Ack : Fail(a, "failed")
     \/ \E S \in SUBSET Ack : Abort(S)
     \/ \E r \in RunNode : RejectByRunNode(r)
  /\ UNCHANGED clockVars

DeadlineNext ==
  \/ \E a \in Ack, r \in RunNode : Register(a, r)
  \/ \E a \in Ack : TimerFires(a)
  \/ Pass
  \/ Others

DeadlineSpec == DeadlineInit /\ [][DeadlineNext]_deadlineVars
-----------------------------------------------------------------------------
(* A run node fails a job for want of an acknowledgement no sooner than    *)
(* its Ack Timeout says: "Maximum time in milliseconds to wait for manual  *)
(* acknowledgement before the node fails the active job".                  *)
NotBeforeItsTime ==
  \A a \in created :
    settlement[a] = Reject("timeout") =>
      waited[a] >= ParseAckTimeoutMs(AckTimeout[owner[a]])
=============================================================================
