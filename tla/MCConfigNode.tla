---------------------------- MODULE MCConfigNode ----------------------------
(* On Redis a worker and the shared queue, on PostgreSQL an events node    *)
(* besides. The budgets keep their order but not their length.             *)
EXTENDS ConfigNode
CONSTANTS redisWorker, redisQueue, pgWorker, pgEvents, pgQueue
MCPair == {redisWorker, redisQueue, pgWorker, pgEvents, pgQueue}
MCCompanion == {redisWorker, redisQueue}
MCWorkerPair == {redisWorker, pgWorker}
MCQueues == {redisQueue, pgQueue}
MCEvents == {pgEvents}
=============================================================================
