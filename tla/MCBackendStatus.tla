--------------------------- MODULE MCBackendStatus ---------------------------
(* Two cmd nodes, a run node and an events node, two failure categories.   *)
EXTENDS BackendStatus
CONSTANTS c1, c2, run, ev, generic, schema
MCCmd == {c1, c2}
MCRun == {run}
MCOnce == {ev}
MCCategory == {generic, schema}
=============================================================================
