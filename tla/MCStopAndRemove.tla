--------------------------- MODULE MCStopAndRemove ---------------------------
(* A job of a producer and two iterations of one of two schedulers.        *)
EXTENDS StopAndRemove

CONSTANTS order, tick, tock, clock, idler

MCSchedulerOf == [j \in Job |-> IF j = order THEN None ELSE clock]
=============================================================================
