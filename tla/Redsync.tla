------------------------------- MODULE Redsync -------------------------------
(***************************************************************************)
(* The distributed lock of src/redsync: Mutex.Lock, Unlock and Extend over *)
(* a list of Redis pools, one key with an expiry in each pool.             *)
(*                                                                         *)
(* A caller is a goroutine that calls the methods of one Mutex object; the *)
(* callers that share an object are serialised by its nodeMutex for the    *)
(* length of a method, not for the time the lock is held.  A method visits *)
(* the pools one after the other; each visit is one step, between which    *)
(* the other callers run and time passes.                                  *)
(*                                                                         *)
(* Redis is modelled from the commands the code sends: SET NX PX, and two  *)
(* scripts that run atomically in the server.  A visit can be answered, or *)
(* carried out without an answer the client counts (a lost reply, also an  *)
(* internal retry of the driver that then finds the work done), or not     *)
(* carried out, or carried out after the client has given up on it.        *)
(***************************************************************************)
EXTENDS Integers, FiniteSets

CONSTANTS
    Callers,    \* goroutines that use the lock
    MutexOf,    \* MutexOf[c]: the Mutex object that c calls
    Free,       \* not a token: the key does not exist
    NumPools,   \* len(r.pools)
    Tries,      \* m.tries
    Expiry,     \* m.expiry, the PX of the keys
    Drift,      \* int64(float64(m.expiry) * m.factor)
    Slack,      \* the 2 ms that Lock adds to the validity
    ClockErr,   \* how far a Redis clock may be off over one expiry
    Delayable,  \* the commands that may be carried out late
    MaxLate,    \* bound: commands under way whose clients have given up
    MaxTime     \* bound: the clock stops here

Pools == 1..NumPools

\* Tokens are 32 random bytes that are drawn once per Mutex and then kept for
\* all its Lock calls, so the object itself can stand for its token.
Tokens == {MutexOf[c] : c \in Callers}

ASSUME CallersAssumption == MutexOf \in [Callers -> Tokens] /\ Free \notin Tokens
ASSUME NumbersAssumption ==
    /\ NumPools \in Nat \ {0}
    /\ Tries \in Nat /\ MaxLate \in Nat /\ MaxTime \in Nat
    /\ Expiry \in Nat /\ Drift \in Nat /\ Slack \in Nat /\ ClockErr \in Nat
    /\ Drift <= Expiry
    /\ ClockErr < Expiry
ASSUME DelayableAssumption == Delayable \subseteq {"setnx", "delete", "touch"}

VARIABLES
    now,    \* real time
    key,    \* key[p]: token and expiry of the lock's key in pool p
    call,   \* call[c]: the method c is in and how far it got
    lease,  \* lease[c]: until when c may believe it holds the lock
    late    \* commands still to be carried out, although their clients left

vars == <<now, key, call, lease, late>>

Absent == [tok |-> Free, exp |-> 0]
Idle == [op |-> "idle", at |-> 1, got |-> {}, start |-> 0, try |-> 0]

\* The loops over the pools: the one in which Lock acquires, the one in which
\* it undoes a failed attempt, Unlock's, Extend's, and the one in which Extend
\* undoes a failed extension.
Loops == {"acquire", "undo", "unlock", "extend", "giveup"}

Command(op) ==
    CASE op = "acquire" -> "setnx"
      [] op = "extend"  -> "touch"
      [] OTHER          -> "delete"

(***************************************************************************)
(* The server side of a command: the key afterwards, and the answer.       *)
(***************************************************************************)
Fresh(tok) == [tok |-> tok, exp |-> now + Expiry]

KeyAfter_delete_unconditional(cmd, tok, k) ==
    CASE cmd = "setnx" /\ k.tok = Free          -> Fresh(tok)
      [] cmd = "touch" /\ k.tok \in {Free, tok} -> Fresh(tok)
      [] cmd = "delete"                         -> Absent
      [] OTHER                                  -> k

KeyAfter(cmd, tok, k) ==
    CASE cmd = "setnx" /\ k.tok = Free          -> Fresh(tok)
      [] cmd = "touch" /\ k.tok \in {Free, tok} -> Fresh(tok)
      [] cmd = "delete" /\ k.tok = tok          -> Absent
      [] OTHER                                  -> k

Answer(cmd, tok, k) ==
    CASE cmd = "setnx"  -> k.tok = Free
      [] cmd = "touch"  -> k.tok \in {Free, tok}
      [] cmd = "delete" -> k.tok = tok

Quorum_half == NumPools \div 2
Quorum == NumPools \div 2 + 1
HasQuorum(got) == Cardinality(got) >= Quorum

\* The validity of a lease for which the first pool was visited at start.
LeaseFrom_no_drift(start) == start + Expiry + Slack
LeaseFrom(start) == start + Expiry - Drift + Slack

Init ==
    /\ now = 0
    /\ key = [p \in Pools |-> Absent]
    /\ call = [c \in Callers |-> Idle]
    /\ lease = [c \in Callers |-> 0]
    /\ late = {}

(***************************************************************************)
(* Visiting a pool                                                         *)
(***************************************************************************)
InLoop(c) == call[c].op \in Loops /\ call[c].at \in Pools
LoopDone(c) == call[c].op \in Loops /\ call[c].at \notin Pools

Cmd(c) == Command(call[c].op)
Token(c) == MutexOf[c]
\* The pools that said yes are counted where the count decides something; the
\* count of Unlock is only its return value.
Counts(c) == call[c].op \in {"acquire", "extend"}
NextPool(c, got) == call' = [call EXCEPT ![c] = [@ EXCEPT !.at = call[c].at + 1, !.got = got]]

\* The command is carried out and the client gets the answer.
Answered(c) ==
    LET p == call[c].at IN
    /\ InLoop(c)
    /\ key' = [key EXCEPT ![p] = KeyAfter(Cmd(c), Token(c), @)]
    /\ NextPool(c, IF Counts(c) /\ Answer(Cmd(c), Token(c), key[p])
                   THEN call[c].got \cup {p} ELSE call[c].got)
    /\ UNCHANGED <<now, lease, late>>

\* The command is carried out, but the client sees an error.
AnswerLost(c) ==
    /\ InLoop(c)
    /\ key' = [key EXCEPT ![call[c].at] = KeyAfter(Cmd(c), Token(c), @)]
    /\ NextPool(c, call[c].got)
    /\ UNCHANGED <<now, lease, late>>

\* The command never reaches the server.
NotSent(c) ==
    /\ InLoop(c)
    /\ NextPool(c, call[c].got)
    /\ UNCHANGED <<now, key, lease, late>>

\* The client times out on a command that the server will carry out later.
GivenUp(c) ==
    /\ InLoop(c)
    /\ Cmd(c) \in Delayable
    /\ Cardinality(late) < MaxLate
    /\ late' = late \cup {[cmd |-> Cmd(c), pool |-> call[c].at, tok |-> Token(c)]}
    /\ NextPool(c, call[c].got)
    /\ UNCHANGED <<now, key, lease>>

CarriedOutLate(l) ==
    /\ l \in late
    /\ key' = [key EXCEPT ![l.pool] = KeyAfter(l.cmd, l.tok, @)]
    /\ late' = late \ {l}
    /\ UNCHANGED <<now, call, lease>>

(***************************************************************************)
(* The methods.  nodeMutex: a method starts only when no other caller of   *)
(* the same object is inside one.                                          *)
(***************************************************************************)
NodeMutexFree(c) ==
    \A d \in Callers : MutexOf[d] = MutexOf[c] => call[d].op = "idle"

Begin(c, op, try, start) ==
    call' = [call EXCEPT ![c] =
               [op |-> op, at |-> 1, got |-> {}, start |-> start, try |-> try]]
Enter(c, op, try) == Begin(c, op, try, 0)
Leave(c) == call' = [call EXCEPT ![c] = Idle]

\* A caller that does not hold the lock, or whose lease is over, locks.  (If
\* no token can be drawn Lock returns at once and nothing changes.)
LockCalled(c) ==
    /\ NodeMutexFree(c)
    /\ now >= lease[c]
    /\ Tries > 0
    /\ Begin(c, "acquire", 1, now)
    /\ lease' = [lease EXCEPT ![c] = 0]
    /\ UNCHANGED <<now, key, late>>

Acquired_quorum_only(c) == HasQuorum(call[c].got)
Acquired(c) == HasQuorum(call[c].got) /\ now < LeaseFrom(call[c].start)

LockSucceeds(c) ==
    /\ call[c].op = "acquire" /\ LoopDone(c)
    /\ Acquired(c)
    /\ Leave(c)
    /\ lease' = [lease EXCEPT ![c] = LeaseFrom(call[c].start)]
    /\ UNCHANGED <<now, key, late>>

AttemptFails(c) ==
    /\ call[c].op = "acquire" /\ LoopDone(c)
    /\ ~ Acquired(c)
    /\ Enter(c, "undo", call[c].try)
    /\ UNCHANGED <<now, key, lease, late>>

\* time.Sleep(m.getDelay()), also after the last attempt.  The remainder that
\* getDelay takes may be negative, so the delay has no lower bound.
Sleeps(c) ==
    /\ call[c].op = "undo" /\ LoopDone(c)
    /\ Enter(c, "sleep", call[c].try)
    /\ UNCHANGED <<now, key, lease, late>>

Retries_not_counted(c) ==
    /\ call[c].op = "sleep"
    /\ call[c].try < Tries
    /\ Begin(c, "acquire", call[c].try, now)
    /\ UNCHANGED <<now, key, lease, late>>

Retries_once_more(c) ==
    /\ call[c].op = "sleep"
    /\ call[c].try <= Tries
    /\ Begin(c, "acquire", call[c].try + 1, now)
    /\ UNCHANGED <<now, key, lease, late>>

Retries(c) ==
    /\ call[c].op = "sleep"
    /\ call[c].try < Tries
    /\ Begin(c, "acquire", call[c].try + 1, now)
    /\ UNCHANGED <<now, key, lease, late>>

LockFails(c) ==
    /\ call[c].op = "sleep"
    /\ call[c].try >= Tries
    /\ Leave(c)
    /\ UNCHANGED <<now, key, lease, late>>

\* Unlock and Extend are for a caller that was given the lock ("It is a
\* run-time error if m is not locked"); its lease may have run out meanwhile.
UnlockCalled(c) ==
    /\ NodeMutexFree(c)
    /\ lease[c] > 0
    /\ Enter(c, "unlock", 0)
    /\ lease' = [lease EXCEPT ![c] = 0]
    /\ UNCHANGED <<now, key, late>>

ExtendCalled(c) ==
    /\ NodeMutexFree(c)
    /\ lease[c] > 0
    /\ Begin(c, "extend", 0, now)
    /\ UNCHANGED <<now, key, lease, late>>

\* Extend returns true.  It keeps no time of its own and does not look at the
\* clock; what the caller may count on is what Lock would have promised from
\* the start of the call.
ExtendSucceeds(c) ==
    /\ call[c].op = "extend" /\ LoopDone(c)
    /\ HasQuorum(call[c].got)
    /\ Leave(c)
    /\ lease' = [lease EXCEPT ![c] = LeaseFrom(call[c].start)]
    /\ UNCHANGED <<now, key, late>>

\* A failed extension gives the lock up: it deletes the keys it still has.
ExtendFails(c) ==
    /\ call[c].op = "extend" /\ LoopDone(c)
    /\ ~ HasQuorum(call[c].got)
    /\ Enter(c, "giveup", 0)
    /\ lease' = [lease EXCEPT ![c] = 0]
    /\ UNCHANGED <<now, key, late>>

\* Unlock returns, or Extend returns false.
Returns(c) ==
    /\ call[c].op \in {"unlock", "giveup"} /\ LoopDone(c)
    /\ Leave(c)
    /\ UNCHANGED <<now, key, lease, late>>

(***************************************************************************)
(* Time and expiry.  A pool drops a key when its own clock says so: not    *)
(* before the key's expiry less ClockErr, and not after its expiry plus    *)
(* ClockErr.                                                               *)
(***************************************************************************)
Expires(p) ==
    /\ key[p].tok # Free
    /\ now >= key[p].exp - ClockErr
    /\ key' = [key EXCEPT ![p] = Absent]
    /\ UNCHANGED <<now, call, lease, late>>

Tick ==
    /\ now < MaxTime
    /\ \A p \in Pools : key[p].tok # Free => now < key[p].exp + ClockErr
    /\ now' = now + 1
    /\ UNCHANGED <<key, call, lease, late>>

Visit(c) == Answered(c) \/ AnswerLost(c) \/ NotSent(c) \/ GivenUp(c)

Proceed(c) ==
    \/ Visit(c)
    \/ LockSucceeds(c) \/ AttemptFails(c) \/ Sleeps(c) \/ Retries(c) \/ LockFails(c)
    \/ ExtendSucceeds(c) \/ ExtendFails(c)
    \/ Returns(c)

Call(c) == LockCalled(c) \/ UnlockCalled(c) \/ ExtendCalled(c)

Next ==
    \/ \E c \in Callers : Call(c) \/ Proceed(c)
    \/ \E l \in late : CarriedOutLate(l)
    \/ \E p \in Pools : Expires(p)
    \/ Tick

Spec == Init /\ [][Next]_vars

\* Every call of the Redis client returns (with an answer or an error) and
\* every sleep ends, so a method that has begun goes on.  Nothing obliges a
\* caller to call.
Fairness == \A c \in Callers : WF_vars(Proceed(c))
FairSpec == Spec /\ Fairness

(***************************************************************************)
(* Properties                                                              *)
(***************************************************************************)
Holds(c) == now < lease[c]

\* Type invariant of the clock, the keys in Redis, the calls under way, the
\* leases and the delayed commands.
TypeOK ==
    /\ now \in 0..MaxTime
    /\ key \in [Pools -> [tok : Tokens \cup {Free}, exp : 0..(MaxTime + Expiry)]]
    /\ call \in [Callers -> [op : Loops \cup {"idle", "sleep"}, at : 1..(NumPools + 1),
                             got : SUBSET Pools, start : 0..MaxTime, try : 0..Tries]]
    /\ lease \in [Callers -> 0..(MaxTime + Expiry + Slack)]
    /\ late \subseteq [cmd : Delayable, pool : Pools, tok : Tokens]

\* Mutex is "a distributed mutual exclusion lock" (mutex.go:16): two callers
\* are never both inside the validity of their leases, whatever is lost,
\* retried or late, and wherever time passes during Lock, Unlock and Extend.
MutualExclusion == \A c, d \in Callers : Holds(c) /\ Holds(d) => c = d

\* Why two leases never overlap.  The pools counted in a call under way still
\* hold the caller's key, with the whole expiry ahead of the start of the call,
\* and a valid lease is backed by such keys in a quorum of the pools, none of
\* which a pool's clock can drop before the lease is over.
Quorums == {Q \in SUBSET Pools : HasQuorum(Q)}
Backs(p, c, until) ==
    key[p].tok = Token(c) /\ until <= key[p].exp - ClockErr

CountedBack ==
    \A c \in Callers :
        Counts(c) /\ now < LeaseFrom(call[c].start) =>
            \A p \in call[c].got : p < call[c].at /\ Backs(p, c, LeaseFrom(call[c].start))

LeaseBacked ==
    \A c \in Callers :
        Holds(c) => \E Q \in Quorums : \A p \in Q : Backs(p, c, lease[c])

QuorumBacksLease == CountedBack /\ LeaseBacked

\* A key that has not run out leaves its pool only by the hand of the mutex
\* whose token it carries: neither the undo of a failed attempt nor a late
\* command takes the key of another mutex away (the compare-and-delete script).
NoForeignDelete ==
    [][\A p \in Pools :
          /\ key[p].tok # Free
          /\ now < key[p].exp - ClockErr
          /\ key'[p].tok # key[p].tok
          => \/ \E c \in Callers : Token(c) = key[p].tok /\ call[c] # call'[c]
             \/ \E l \in late \ late' : l.tok = key[p].tok]_vars

\* Lock does not go on for ever: it returns after at most Tries attempts.
LockReturns ==
    \A c \in Callers :
        call[c].op = "acquire" ~> call[c].op = "idle"

\* When Extend reports that it renewed the lease, no other caller is inside the
\* validity of its own (mutex.go:97 promises "the status of expiry extension").
ExtendTrueIsExclusive ==
    [][\A c \in Callers :
          ExtendSucceeds(c) => \A d \in Callers \ {c} : ~ Holds(d)]_vars

\* The users of the lock see what LeaseLock promises.
LL == INSTANCE LeaseLock WITH Clients <- Callers, MaxLease <- Expiry + Slack
ImplementsLeaseLock == LL!Spec
==============================================================================
