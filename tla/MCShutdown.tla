----------------------------- MODULE MCShutdown -----------------------------
(* A worker on Redis and an owner on PostgreSQL, with the real budgets.    *)
EXTENDS Shutdown
CONSTANTS w, q
MCPair == {w, q}
MCCompanion == {w}
MCWorkerPair == {w, q}
=============================================================================
