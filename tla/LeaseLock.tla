------------------------------ MODULE LeaseLock ------------------------------
(***************************************************************************)
(* What a distributed lock with expiring leases promises its users: at any *)
(* time at most one client holds a lease that has not run out.  A client   *)
(* is given a lease only while no other client has a valid one, it may     *)
(* renew the lease it has on the same terms, and it may give it up.        *)
(* Redsync.tla is shown to implement this module.                          *)
(***************************************************************************)
EXTENDS Integers

CONSTANTS
    Clients,    \* the users of the lock
    MaxLease    \* the longest lease that is ever granted

VARIABLES
    now,        \* real time
    lease       \* lease[c]: the time until which c may act as the holder

vars == <<now, lease>>

Holds(c) == now < lease[c]

Init ==
    /\ now = 0
    /\ lease = [c \in Clients |-> 0]

\* The lease of c becomes until, which excludes everybody else's.
Lease(c, until) ==
    /\ now < until => \A d \in Clients \ {c} : ~ Holds(d)
    /\ lease' = [lease EXCEPT ![c] = until]
    /\ UNCHANGED now

\* c is given the lock: the lease has begun and is not over.
Acquire(c) ==
    /\ lease[c] = 0
    /\ \E until \in (now + 1)..(now + MaxLease) : Lease(c, until)

\* c is told that its lease is renewed; the news may come too late.
Renew(c) ==
    /\ lease[c] > 0
    /\ \E until \in 0..(now + MaxLease) : Lease(c, until)

Drop(c) ==
    /\ lease' = [lease EXCEPT ![c] = 0]
    /\ UNCHANGED now

Tick ==
    /\ now' = now + 1
    /\ UNCHANGED lease

Next == Tick \/ \E c \in Clients : Acquire(c) \/ Renew(c) \/ Drop(c)

Spec == Init /\ [][Next]_vars

\* At most one client holds a valid lease: the mutual exclusion that a lock
\* whose leases run out can give.
Exclusive ==
    \A c, d \in Clients : Holds(c) /\ Holds(d) => c = d
==============================================================================
