---------------------------- MODULE MCTaskEngine -----------------------------
(***************************************************************************)
(* Small instances of TaskEngine for TLC: a task that schedules another    *)
(* one on its own engine, and tasks scheduled from outside.                *)
(***************************************************************************)
EXTENDS TaskEngine, TLC

CONSTANTS parent, child, t1, t2

Parents == [t \in Tasks |-> IF t = child THEN parent ELSE Outside]
==============================================================================
