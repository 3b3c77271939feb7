----------------------------- MODULE MCRedsync -------------------------------
(***************************************************************************)
(* Small instances of Redsync for TLC.                                     *)
(***************************************************************************)
EXTENDS Redsync, TLC

CONSTANTS a, b, m

\* Every caller has a Mutex object of its own; the caller names the object.
OwnMutex == a :> a @@ b :> b

\* Both callers call the methods of one Mutex object.
SharedMutex == a :> m @@ b :> m

\* Callers with objects of their own are interchangeable (the pools are not:
\* every method visits them in the same order).
Symmetry == Permutations({a, b})
==============================================================================
