----------------------------- MODULE Deployment ------------------------------
(***************************************************************************)
(* From `kate new` to a running service: a project is generated, and the   *)
(* service whose start command is the one of the project is started,       *)
(* upgraded and stopped.                                                   *)
(***************************************************************************)
EXTENDS Scaffold, Service

CONSTANT Installed      \* bound: the selections whose project is also started

VARIABLE deployed

vars == <<target, staging, run, code, proc, pidfile, call, signals, deployed>>

Init ==
    /\ ScaffoldInit
    /\ ServiceInit(<<>>)
    /\ deployed = FALSE

\* Once the service is installed the project and the runs are of no interest.
Deploys(k) ==
    /\ ~deployed
    /\ \A j \in Runs : run[j].pc \in Ended
    /\ run[k].pc = "done" /\ run[k].components \in Installed
    /\ deployed' = TRUE
    /\ code' = StartSteps(target.files)
    /\ target' = Absent
    /\ staging' = [j \in Runs |-> Absent]
    /\ run' = [j \in Runs |-> NotBegun]
    /\ UNCHANGED <<proc, pidfile, call, signals>>

Next ==
    \/ ~deployed /\ ScaffoldNext /\ UNCHANGED serviceVars /\ UNCHANGED deployed
    \/ \E k \in Runs : Deploys(k)
    \/ deployed /\ ServiceNext /\ UNCHANGED scaffoldVars /\ UNCHANGED deployed

Spec == Init /\ [][Next]_vars

FairSpec == Spec /\ ServiceFairness

TypeOK ==
    /\ ServiceTypeOK
    /\ \A k \in Runs : run[k].components \subseteq Components
    /\ target.kind \in {"absent", "dir", "file"}

\* Until the project is installed, a directory at the target with something in
\* it stays as it is, whoever made it (new.go removes empty directories only).
DirectoriesStay ==
    [][target.kind = "dir" /\ ~IsEmptyDir(target) /\ ~deployed' => target' = target]_vars
==============================================================================
