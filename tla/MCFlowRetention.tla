--------------------------- MODULE MCFlowRetention ---------------------------
(* A tree of four jobs, three levels deep, over two queues of which one is *)
(* named twice, with every mix of settings for two fields.                 *)
EXTENDS FlowRetention, Naturals

CONSTANTS root, left, right, leaf, orders, emails, idle,
          removeOnComplete, removeOnFail

MCChildren == [j \in Job |-> CASE j = root -> {left, right}
                               [] j = left -> {leaf}
                               [] OTHER -> {}]
MCQueueOf == [j \in Job |-> IF j \in {root, leaf} THEN orders ELSE emails]

MCOptions == {None, [f \in {removeOnComplete} |-> 1],
              [f \in {removeOnComplete, removeOnFail} |-> 2]}

MCInit ==
  /\ config \in [Field -> {Blank, 0, 3}] /\ path \in {"single", "bulk"}
  /\ flowopts \in UNION {[Q -> MCOptions] :
                           Q \in {{}, {orders}, {orders, idle}}}
  /\ own \in [Job -> MCOptions]
  /\ FlowInit

MCSpec == MCInit /\ [][FlowNext]_flowVars
=============================================================================
