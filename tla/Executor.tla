------------------------------ MODULE Executor -------------------------------
(***************************************************************************)
(* What the task engine is to those who use it: a pool that runs at most   *)
(* `level' jobs at a time, refuses jobs once a shutdown was begun, and     *)
(* whose shutdown waits for the jobs that run.  A job that was offered     *)
(* before the shutdown and still waits may slip past it: then it runs      *)
(* late, or is lost with a panic, or makes the shutdown itself panic.      *)
(* TaskEngine.tla is shown to implement this module, and TimerEngine.tla   *)
(* is built on it.                                                         *)
(***************************************************************************)
EXTENDS Integers, FiniteSets

CONSTANTS
    Jobs,
    Levels      \* the concurrency levels; 0 is no bound

VARIABLES
    level,
    pool,       \* "up", "stopping", "drained", or "failed"
    job         \* job[j]: where j is

vars == <<level, pool, job>>

Are(stages) == {j \in Jobs : job[j] \in stages}

Init ==
    /\ level \in Levels
    /\ pool = "up"
    /\ job = [j \in Jobs |-> "new"]

Moves(j, from, to) ==
    /\ job[j] = from
    /\ job' = [job EXCEPT ![j] = to]
    /\ UNCHANGED <<level, pool>>

Offer(j) == Moves(j, "new", IF pool = "up" THEN "waiting" ELSE "refused")

Start(j) ==
    /\ level > 0 => Cardinality(Are({"running"})) < level
    /\ Moves(j, "waiting", "running")

\* The channel of tokens was closed under a job that waited for one.
Lose(j) ==
    /\ level > 0
    /\ pool = "drained"
    /\ Moves(j, "waiting", "lost")

Finish(j) == Moves(j, "running", "leaving")
Leave(j) == Moves(j, "leaving", "finished")

PoolGoes(from, to) ==
    /\ pool \in from
    /\ pool' = to
    /\ UNCHANGED <<level, job>>

Shutdown == PoolGoes({"up"}, "stopping")

\* The shutdown goes on when no job runs ...
Drain ==
    /\ Are({"running", "leaving"}) = {}
    /\ PoolGoes({"stopping", "failed"}, "drained")

\* ... but panics on a job that came just then.
Fail ==
    /\ Are({"waiting", "running", "leaving"}) # {}
    /\ PoolGoes({"stopping"}, "failed")

Proceed(j) == Start(j) \/ Lose(j) \/ Finish(j) \/ Leave(j)

Next ==
    \/ \E j \in Jobs : Offer(j) \/ Proceed(j)
    \/ Shutdown \/ Drain \/ Fail

Spec == Init /\ [][Next]_vars
==============================================================================
