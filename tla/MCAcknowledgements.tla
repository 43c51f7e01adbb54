------------------------- MODULE MCAcknowledgements -------------------------
(* Two run nodes, one of them without a timeout, and two acknowledgements. *)
EXTENDS Acknowledgements, TLC
CONSTANTS a1, a2, r1, r2, v1, v2
MCAck == {a1, a2}
MCRunNode == {r1, r2}
MCTimed == {r1}
MCValue == {v1, v2}
=============================================================================
