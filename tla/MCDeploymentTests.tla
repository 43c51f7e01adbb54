-------------------------- MODULE MCDeploymentTests --------------------------
(* A Redis stack, a PostgreSQL stack and another Redis stack after it; the *)
(* script runs twice.                                                      *)
EXTENDS DeploymentTests
CONSTANTS single, postgres, cluster
MCDeployments == <<single, postgres, cluster>>
MCPostgres == {postgres}
=============================================================================
