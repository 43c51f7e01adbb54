--------------------------- MODULE MCAckDeadlines ---------------------------
(* A run node for every kind of setting; those that parse to 0 never time  *)
(* out.                                                                    *)
EXTENDS AckDeadlines
CONSTANTS a1, unset, words, negative, never, shortest, longest, longer, v1
MCAck == {a1}
MCRunNode == {unset, words, negative, never, shortest, longest, longer}
MCAckTimeout ==
  [r \in MCRunNode |->
     CASE r = unset -> Blank
       [] r = words -> Text
       [] r = negative -> -1
       [] r = never -> 0
       [] r = shortest -> 1
       [] r = longest -> TIMEOUT_MAX
       [] r = longer -> TIMEOUT_MAX + 1]
MCTimed == {r \in MCRunNode : ParseAckTimeoutMs(MCAckTimeout[r]) > 0}
MCValue == {v1}
=============================================================================
