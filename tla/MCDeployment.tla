---------------------------- MODULE MCDeployment -----------------------------
(***************************************************************************)
(* Small instances: runs of `kate new` for one target, and the processes   *)
(* of the service of a project, with one request to each of its servers.   *)
(***************************************************************************)
EXTENDS Deployment

CONSTANTS c1, c2, k1

MCTo == [c \in Calls |-> IF c = c1 THEN "http" ELSE "grpc"]
MCInstalled == {{}, Components}
MCSelections == [k \in Runs |-> IF k = k1 THEN SUBSET Components ELSE MCInstalled]
==============================================================================
