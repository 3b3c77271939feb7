---------------------------- MODULE RedsyncProofs ----------------------------
(***************************************************************************)
(* Redsync excludes, for every number of callers and pools, every expiry   *)
(* and every bound, under three conditions: each caller has a Mutex object *)
(* of its own, the drift that Lock subtracts covers the 2 ms it adds and   *)
(* the error of the pools' clocks, and no delete is carried out after its  *)
(* client has given it up.  TLC shows that the first one cannot be dropped *)
(* (RedsyncShared.cfg).                                                    *)
(***************************************************************************)
EXTENDS Redsync, FiniteSetTheorems, TLAPS

OwnMutexes == \A c, d \in Callers : MutexOf[c] = MutexOf[d] => c = d
DriftCoversClocks == Drift >= Slack + ClockErr
NoLateDelete == "delete" \notin Delayable

\* A call started in the past; a key runs out within one expiry from now; the
\* caller of Lock has no lease, and gave it up before it deletes its keys, and
\* the caller of Extend was given one.
InThePast == \A c \in Callers : call[c].start <= now
ExpirySoon == \A p \in Pools : key[p].exp <= now + Expiry
LeaseByLoop ==
    \A c \in Callers :
        /\ call[c].op \in {"acquire", "undo", "sleep", "unlock", "giveup"} => lease[c] = 0
        /\ call[c].op = "extend" => lease[c] > 0

\* Redis holds a caller's key for as long as a counted pool or a valid lease
\* needs it: the inductive invariant.
IInv ==
    /\ TypeOK
    /\ InThePast
    /\ ExpirySoon
    /\ LeaseByLoop
    /\ QuorumBacksLease

(***************************************************************************)
(* Any two quorums of pools have a pool in common.                         *)
(***************************************************************************)
LEMMA QuorumsMeet ==
    ASSUME NEW Q \in Quorums, NEW R \in Quorums
    PROVE  Q \cap R # {}
<1>1. IsFiniteSet(Pools) /\ Cardinality(Pools) = NumPools
  BY FS_Interval, NumbersAssumption DEF Pools
<1>2. Q \subseteq Pools /\ R \subseteq Pools
  BY DEF Quorums
<1>3. Cardinality(Q) \in Nat /\ Cardinality(R) \in Nat
  BY <1>1, <1>2, FS_Subset, FS_CardinalityType
<1>4. Cardinality(Q) + Cardinality(R) > Cardinality(Pools)
  BY <1>1, <1>3, NumbersAssumption DEF Quorums, HasQuorum, Quorum
<1> QED
  BY <1>1, <1>2, <1>4, FS_MajoritiesIntersect

(***************************************************************************)
(* What a command does to a key, from the answers in the scripts: it keeps *)
(* the type, and it keeps a key that backs a lease of c unless it is a     *)
(* delete with c's own token.                                              *)
(***************************************************************************)
Keys == [tok : Tokens \cup {Free}, exp : 0..(MaxTime + Expiry)]

LEMMA CommandType ==
    ASSUME NEW k \in Keys, NEW cmd \in {"setnx", "touch", "delete"}, NEW tok \in Tokens,
           now \in 0..MaxTime, k.exp <= now + Expiry
    PROVE  /\ KeyAfter(cmd, tok, k) \in Keys
           /\ KeyAfter(cmd, tok, k).exp <= now + Expiry
<1>1. Fresh(tok) \in Keys /\ Fresh(tok).exp = now + Expiry /\ Fresh(tok).tok = tok
  BY NumbersAssumption DEF Fresh, Keys
<1>2. Absent \in Keys /\ Absent.exp = 0
  BY NumbersAssumption DEF Absent, Keys
<1>3. KeyAfter(cmd, tok, k) \in {Fresh(tok), Absent, k}
  BY DEF KeyAfter
<1> QED
  BY <1>1, <1>2, <1>3, NumbersAssumption

LEMMA CommandKeeps ==
    ASSUME NEW k \in Keys, NEW cmd \in {"setnx", "touch", "delete"},
           NEW tok \in Tokens, NEW own \in Tokens,
           now \in 0..MaxTime, k.exp <= now + Expiry, k.tok = own,
           cmd = "delete" => tok # own
    PROVE  /\ KeyAfter(cmd, tok, k).tok = own
           /\ KeyAfter(cmd, tok, k).exp >= k.exp
<1>1. own # Free
  BY CallersAssumption
<1>2. Fresh(tok).exp = now + Expiry /\ Fresh(tok).tok = tok
  BY DEF Fresh
<1> QED
  BY <1>1, <1>2, NumbersAssumption DEF KeyAfter, Keys

(***************************************************************************)
(* How the pools change in a step, whatever the step is.                   *)
(***************************************************************************)
KeyStep(p) ==
    \/ key'[p] = key[p]
    \/ key'[p] = Absent /\ key[p].tok # Free /\ now >= key[p].exp - ClockErr
    \/ \E c \in Callers :
          /\ call[c].op \in Loops
          /\ key'[p] = KeyAfter(Cmd(c), Token(c), key[p])
    \/ \E l \in late : key'[p] = KeyAfter(l.cmd, l.tok, key[p])

LEMMA Commands ==
    ASSUME NEW op \in Loops
    PROVE  Command(op) \in {"setnx", "touch", "delete"}
BY DEF Command, Loops

LEMMA KeySteps ==
    ASSUME TypeOK, [Next]_vars
    PROVE  \A p \in Pools : KeyStep(p)
<1>1. ASSUME NEW c \in Callers, Answered(c) \/ AnswerLost(c)
      PROVE  \A p \in Pools : KeyStep(p)
  BY <1>1 DEF Answered, AnswerLost, InLoop, KeyStep, TypeOK, Loops
<1>2. ASSUME NEW l \in late, CarriedOutLate(l)
      PROVE  \A p \in Pools : KeyStep(p)
  BY <1>2 DEF CarriedOutLate, KeyStep, TypeOK
<1>3. ASSUME NEW q \in Pools, Expires(q)
      PROVE  \A p \in Pools : KeyStep(p)
  BY <1>3 DEF Expires, KeyStep, TypeOK
<1>4. CASE key' = key
  BY <1>4 DEF KeyStep
<1>5. \/ \E c \in Callers : Answered(c) \/ AnswerLost(c)
      \/ \E l \in late : CarriedOutLate(l)
      \/ \E p \in Pools : Expires(p)
      \/ key' = key
  BY DEF Next, vars, Call, Proceed, Visit, Tick, NotSent, GivenUp, LockCalled, UnlockCalled,
         ExtendCalled, LockSucceeds, AttemptFails, Sleeps, Retries, LockFails, ExtendSucceeds,
         ExtendFails, Returns
<1> QED
  BY <1>1, <1>2, <1>3, <1>4, <1>5

(***************************************************************************)
(* The conjuncts of the invariant that do not need the quorums.            *)
(***************************************************************************)
LEMMA KeysStep ==
    ASSUME TypeOK, ExpirySoon, [Next]_vars
    PROVE  \A p \in Pools : key'[p] \in Keys /\ key'[p].exp <= now + Expiry
<1> SUFFICES ASSUME NEW p \in Pools
             PROVE  key'[p] \in Keys /\ key'[p].exp <= now + Expiry
  OBVIOUS
<1>1. key[p] \in Keys /\ key[p].exp <= now + Expiry /\ now \in 0..MaxTime
  BY DEF TypeOK, Keys, ExpirySoon
<1>2. Absent \in Keys /\ Absent.exp <= now + Expiry
  BY <1>1, NumbersAssumption DEF Absent, Keys
<1>3. ASSUME NEW c \in Callers, call[c].op \in Loops, key'[p] = KeyAfter(Cmd(c), Token(c), key[p])
      PROVE  key'[p] \in Keys /\ key'[p].exp <= now + Expiry
  BY <1>1, <1>3, Commands, CommandType DEF Cmd, Token, Tokens
<1>4. ASSUME NEW l \in late, key'[p] = KeyAfter(l.cmd, l.tok, key[p])
      PROVE  key'[p] \in Keys /\ key'[p].exp <= now + Expiry
  <2>1. l.cmd \in {"setnx", "touch", "delete"} /\ l.tok \in Tokens
    BY DelayableAssumption DEF TypeOK
  <2> QED
    BY <1>1, <1>4, <2>1, CommandType
<1> QED
  BY <1>1, <1>2, <1>3, <1>4, KeySteps DEF KeyStep

LEMMA NowStep ==
    ASSUME TypeOK, [Next]_vars
    PROVE  now' \in 0..MaxTime /\ now <= now'
<1>1. now' = now \/ (now < MaxTime /\ now' = now + 1)
  BY DEF Next, vars, Call, Proceed, Visit, Tick, Expires, CarriedOutLate, Answered,
         AnswerLost, NotSent, GivenUp, LockCalled, UnlockCalled, ExtendCalled, LockSucceeds,
         AttemptFails, Sleeps, Retries, LockFails, ExtendSucceeds, ExtendFails, Returns
<1>2. now \in 0..MaxTime
  BY DEF TypeOK
<1> QED
  BY <1>1, <1>2, NumbersAssumption

\* The records of the calls, with what the rest of the proof needs of them.
Calls == [op : Loops \cup {"idle", "sleep"}, at : 1..(NumPools + 1),
          got : SUBSET Pools, start : 0..MaxTime, try : 0..Tries]

LEMMA CallStep ==
    ASSUME TypeOK, InThePast, [Next]_vars
    PROVE  call' \in [Callers -> Calls] /\ \A c \in Callers : call'[c].start <= now
<1> USE NumbersAssumption
<1> DEFINE Good(f) == f \in [Callers -> Calls] /\ \A c \in Callers : f[c].start <= now
<1>1. Good(call) /\ now \in 0..MaxTime
  BY DEF TypeOK, Calls, InThePast
<1>2. ASSUME NEW c \in Callers, InLoop(c), NEW got \in SUBSET Pools, NextPool(c, got)
      PROVE  Good(call')
  <2> DEFINE r == [call[c] EXCEPT !.at = call[c].at + 1, !.got = got]
  <2>1. call[c] \in Calls /\ call[c].at \in 1..NumPools
    BY <1>1, <1>2 DEF InLoop, Pools
  <2>2. call[c].at + 1 \in 1..(NumPools + 1)
    BY <2>1
  <2>3. r \in Calls /\ r.start = call[c].start
    BY <2>1, <2>2, <1>2 DEF Calls
  <2>4. call' = [call EXCEPT ![c] = r]
    BY <1>2 DEF NextPool
  <2> HIDE DEF r
  <2> QED
    BY <1>1, <2>1, <2>3, <2>4
<1>3. ASSUME NEW c \in Callers, NEW op \in Loops \cup {"sleep"}, NEW try \in 0..Tries,
             NEW start \in 0..MaxTime, start <= now, Begin(c, op, try, start)
      PROVE  Good(call')
  BY <1>1, <1>3 DEF Begin, Calls
<1>4. ASSUME NEW c \in Callers, Leave(c)
      PROVE  Good(call')
  BY <1>1, <1>4 DEF Leave, Idle, Calls
<1>5. CASE UNCHANGED call
  BY <1>1, <1>5
<1>6. ASSUME NEW c \in Callers, Visit(c)
      PROVE  Good(call')
  <2>1. InLoop(c) /\ \E got \in SUBSET Pools : NextPool(c, got)
    <3>1. call[c].got \subseteq Pools
      BY <1>1 DEF Calls
    <3>2. InLoop(c) /\ (\/ NextPool(c, call[c].got)
                        \/ call[c].at \in Pools /\ NextPool(c, call[c].got \cup {call[c].at}))
      BY <1>6 DEF Visit, Answered, AnswerLost, NotSent, GivenUp, InLoop
    <3> QED
      BY <3>1, <3>2
  <2> QED
    BY <1>2, <2>1
<1>7. ASSUME NEW c \in Callers, Proceed(c), ~ Visit(c)
      PROVE  Good(call')
  <2>1. call[c].try \in 0..Tries /\ (call[c].try < Tries => call[c].try + 1 \in 0..Tries)
    BY <1>1 DEF Calls
  <2>2. CASE AttemptFails(c) \/ Sleeps(c) \/ ExtendFails(c)
    BY <1>1, <1>3, <2>1, <2>2 DEF AttemptFails, Sleeps, ExtendFails, Enter, Loops
  <2>3. CASE Retries(c)
    BY <1>1, <1>3, <2>1, <2>3 DEF Retries, Loops
  <2>4. CASE LockSucceeds(c) \/ LockFails(c) \/ ExtendSucceeds(c) \/ Returns(c)
    BY <1>4, <2>4 DEF LockSucceeds, LockFails, ExtendSucceeds, Returns
  <2> QED
    BY <1>7, <2>2, <2>3, <2>4 DEF Proceed
<1>8. ASSUME NEW c \in Callers, Call(c)
      PROVE  Good(call')
  BY <1>1, <1>3, <1>8 DEF Call, LockCalled, UnlockCalled, ExtendCalled, Enter, Loops
<1>9. ASSUME Tick \/ (\E l \in late : CarriedOutLate(l)) \/ (\E p \in Pools : Expires(p))
             \/ UNCHANGED vars
      PROVE  Good(call')
  BY <1>5, <1>9 DEF Tick, CarriedOutLate, Expires, vars
<1> QED
  BY <1>6, <1>7, <1>8, <1>9 DEF Next

\* What a step of the spec can do to the leases.
LEMMA LeaseStep ==
    ASSUME TypeOK, LeaseByLoop, InThePast, [Next]_vars
    PROVE  lease' \in [Callers -> 0..(MaxTime + Expiry + Slack)] /\ LeaseByLoop'
<1> USE NumbersAssumption
<1>1. /\ lease \in [Callers -> 0..(MaxTime + Expiry + Slack)]
      /\ call \in [Callers -> Calls]
      /\ now \in 0..MaxTime
  BY DEF TypeOK, Calls
<1>2. ASSUME NEW c \in Callers
      PROVE  LeaseFrom(call[c].start) \in 0..(MaxTime + Expiry + Slack)
  <2>1. call[c].start \in 0..MaxTime
    BY <1>1 DEF Calls
  <2> QED
    BY <2>1 DEF LeaseFrom
<1>3. ASSUME NEW c \in Callers, Visit(c)
      PROVE  lease' = lease /\ \A d \in Callers : call'[d].op = call[d].op
  <2>1. lease' = lease /\ \E got : NextPool(c, got)
    BY <1>3 DEF Visit, Answered, AnswerLost, NotSent, GivenUp
  <2>2. PICK got : NextPool(c, got)
    BY <2>1
  <2>3. call[c] \in Calls
    BY <1>1
  <2>4. [call[c] EXCEPT !.at = call[c].at + 1, !.got = got].op = call[c].op
    BY <2>3 DEF Calls
  <2> QED
    BY <1>1, <2>1, <2>2, <2>4 DEF NextPool
<1>4. ASSUME NEW c \in Callers, Visit(c)
      PROVE  lease' \in [Callers -> 0..(MaxTime + Expiry + Slack)] /\ LeaseByLoop'
  BY <1>1, <1>3, <1>4 DEF LeaseByLoop
<1>5. ASSUME NEW c \in Callers, Call(c)
      PROVE  lease' \in [Callers -> 0..(MaxTime + Expiry + Slack)] /\ LeaseByLoop'
  BY <1>1, <1>5 DEF LeaseByLoop, Call, LockCalled, UnlockCalled, ExtendCalled, Enter, Begin, Calls
<1>6. ASSUME NEW c \in Callers, Proceed(c), ~ Visit(c)
      PROVE  lease' \in [Callers -> 0..(MaxTime + Expiry + Slack)] /\ LeaseByLoop'
  <2>1. CASE AttemptFails(c)
    BY <1>1, <2>1 DEF LeaseByLoop, AttemptFails, Enter, Begin, Calls
  <2>2. CASE Sleeps(c)
    BY <1>1, <2>2 DEF LeaseByLoop, Sleeps, Enter, Begin, Calls
  <2>3. CASE Retries(c)
    BY <1>1, <2>3 DEF LeaseByLoop, Retries, Begin, Calls
  <2>4. CASE ExtendFails(c)
    BY <1>1, <2>4 DEF LeaseByLoop, ExtendFails, Enter, Begin, Calls
  <2>5. CASE LockFails(c) \/ Returns(c)
    BY <1>1, <2>5 DEF LeaseByLoop, LockFails, Returns, Leave, Idle, Calls
  <2>6. CASE LockSucceeds(c) \/ ExtendSucceeds(c)
    BY <1>1, <1>2, <2>6 DEF LeaseByLoop, LockSucceeds, ExtendSucceeds, Leave, Idle, Calls
  <2> QED
    BY <1>6, <2>1, <2>2, <2>3, <2>4, <2>5, <2>6 DEF Proceed
<1>7. ASSUME Tick \/ (\E l \in late : CarriedOutLate(l)) \/ (\E p \in Pools : Expires(p))
             \/ UNCHANGED vars
      PROVE  lease' \in [Callers -> 0..(MaxTime + Expiry + Slack)] /\ LeaseByLoop'
  BY <1>1, <1>7 DEF LeaseByLoop, Tick, CarriedOutLate, Expires, vars
<1> QED
  BY <1>4, <1>5, <1>6, <1>7 DEF Next

LEMMA TypeStep ==
    ASSUME TypeOK, InThePast, ExpirySoon, LeaseByLoop, [Next]_vars
    PROVE  TypeOK' /\ InThePast' /\ ExpirySoon' /\ LeaseByLoop'
<1>1. key' \in [Pools -> Keys]
  <2>1. key' = key \/ \E p, k : key' = [key EXCEPT ![p] = k]
    BY DEF Next, vars, Call, Proceed, Visit, Tick, Expires, CarriedOutLate, Answered,
           AnswerLost, NotSent, GivenUp, LockCalled, UnlockCalled, ExtendCalled, LockSucceeds,
           AttemptFails, Sleeps, Retries, LockFails, ExtendSucceeds, ExtendFails, Returns
  <2>2. key' = [p \in Pools |-> key'[p]]
    BY <2>1 DEF TypeOK
  <2> QED
    BY <2>2, KeysStep
<1>2. late' \subseteq [cmd : Delayable, pool : Pools, tok : Tokens]
  <2>1. ASSUME NEW c \in Callers, GivenUp(c)
        PROVE  late' \subseteq [cmd : Delayable, pool : Pools, tok : Tokens]
    BY <2>1 DEF TypeOK, GivenUp, InLoop, Token, Tokens
  <2>2. (\E c \in Callers : GivenUp(c)) \/ late' \subseteq late
    BY DEF Next, vars, Call, Proceed, Visit, Tick, Expires, CarriedOutLate, Answered,
           AnswerLost, NotSent, LockCalled, UnlockCalled, ExtendCalled, LockSucceeds,
           AttemptFails, Sleeps, Retries, LockFails, ExtendSucceeds, ExtendFails, Returns
  <2> QED
    BY <2>1, <2>2 DEF TypeOK
<1>3. TypeOK'
  BY <1>1, <1>2, NowStep, CallStep, LeaseStep DEF TypeOK, Calls, Keys
<1>4. now \in Nat /\ now' \in Nat /\ now <= now'
  BY NowStep, NumbersAssumption DEF TypeOK
<1>5. InThePast'
  BY <1>4, CallStep DEF InThePast, Calls
<1>6. ExpirySoon'
  BY <1>4, KeysStep, NumbersAssumption DEF ExpirySoon, Keys
<1> QED
  BY <1>3, <1>5, <1>6, LeaseStep

(***************************************************************************)
(* A key that backs a lease of c still does after any step, as long as the *)
(* lease runs and c is not deleting its keys.                              *)
(***************************************************************************)
LEMMA BacksKept ==
    ASSUME TypeOK, ExpirySoon, [Next]_vars, OwnMutexes, NoLateDelete,
           NEW c \in Callers, NEW p \in Pools, NEW u \in Int,
           call[c].op \notin {"undo", "unlock", "giveup"},
           Backs(p, c, u), now < u
    PROVE  Backs(p, c, u)'
<1> USE NumbersAssumption
<1>1. /\ key[p] \in Keys /\ key[p].exp <= now + Expiry /\ now \in 0..MaxTime
      /\ key[p].tok = MutexOf[c] /\ u <= key[p].exp - ClockErr
  BY DEF TypeOK, Keys, ExpirySoon, Backs, Token
<1>2. key'[p] \in Keys
  BY KeysStep
<1>3. CASE key'[p] = key[p]
  BY <1>1, <1>3 DEF Backs, Token
<1>4. CASE now >= key[p].exp - ClockErr
  BY <1>1, <1>4 DEF Keys
<1>5. ASSUME NEW d \in Callers, call[d].op \in Loops,
             key'[p] = KeyAfter(Cmd(d), Token(d), key[p])
      PROVE  Backs(p, c, u)'
  <2>1. Cmd(d) = "delete" => MutexOf[d] # MutexOf[c]
    BY <1>5 DEF Cmd, Command, Loops, OwnMutexes
  <2>2. MutexOf[d] \in Tokens /\ MutexOf[c] \in Tokens /\ Cmd(d) \in {"setnx", "touch", "delete"}
    BY <1>5, Commands DEF Tokens, Cmd
  <2>3. key'[p].tok = MutexOf[c] /\ key'[p].exp >= key[p].exp
    BY <1>1, <1>5, <2>1, <2>2, CommandKeeps DEF Token
  <2> QED
    BY <1>1, <1>2, <2>3 DEF Backs, Token, Keys
<1>6. ASSUME NEW l \in late, key'[p] = KeyAfter(l.cmd, l.tok, key[p])
      PROVE  Backs(p, c, u)'
  <2>1. l.cmd \in {"setnx", "touch"} /\ l.tok \in Tokens /\ MutexOf[c] \in Tokens
    BY DelayableAssumption DEF TypeOK, NoLateDelete, Tokens
  <2>2. key'[p].tok = MutexOf[c] /\ key'[p].exp >= key[p].exp
    BY <1>1, <1>6, <2>1, CommandKeeps
  <2> QED
    BY <1>1, <1>2, <2>2 DEF Backs, Token, Keys
<1> QED
  BY <1>3, <1>4, <1>5, <1>6, KeySteps DEF KeyStep

(***************************************************************************)
(* How the call of one caller changes in a step.                           *)
(***************************************************************************)
Advanced(c, got) ==
    /\ InLoop(c)
    /\ call'[c] = [call[c] EXCEPT !.at = call[c].at + 1, !.got = got]

CallChange(c) ==
    \/ call'[c] = call[c]
    \/ call'[c].got = {}
    \/ Advanced(c, call[c].got)
    \/ LET p == call[c].at IN
       /\ Advanced(c, call[c].got \cup {p})
       /\ Answer(Cmd(c), Token(c), key[p])
       /\ key'[p] = KeyAfter(Cmd(c), Token(c), key[p])

LEMMA CallChanges ==
    ASSUME TypeOK, [Next]_vars, NEW c \in Callers
    PROVE  CallChange(c)
<1>1. call \in [Callers -> Calls]
  BY DEF TypeOK, Calls
<1>2. ASSUME NEW d \in Callers, AnswerLost(d) \/ NotSent(d) \/ GivenUp(d)
      PROVE  CallChange(c)
  BY <1>1, <1>2 DEF CallChange, Advanced, AnswerLost, NotSent, GivenUp, NextPool, InLoop
<1>3. ASSUME NEW d \in Callers, Answered(d)
      PROVE  CallChange(c)
  <2>1. CASE c # d
    BY <1>1, <1>3, <2>1 DEF CallChange, Answered, NextPool
  <2>2. CASE c = d
    <3>1. InLoop(c) /\ key'[call[c].at] = KeyAfter(Cmd(c), Token(c), key[call[c].at])
      BY <1>3, <2>2 DEF Answered, InLoop, TypeOK
    <3>2. CASE Answer(Cmd(c), Token(c), key[call[c].at]) /\ Counts(c)
      BY <1>1, <1>3, <2>2, <3>1, <3>2 DEF CallChange, Answered, NextPool, Advanced
    <3>3. CASE ~ (Answer(Cmd(c), Token(c), key[call[c].at]) /\ Counts(c))
      BY <1>1, <1>3, <2>2, <3>1, <3>3 DEF CallChange, Answered, NextPool, Advanced
    <3> QED
      BY <3>2, <3>3
  <2> QED
    BY <2>1, <2>2
<1>4. ASSUME NEW d \in Callers, Call(d) \/ (Proceed(d) /\ ~ Visit(d))
      PROVE  CallChange(c)
  BY <1>1, <1>4
  DEF CallChange, Call, Proceed, LockCalled, UnlockCalled, ExtendCalled, LockSucceeds,
      AttemptFails, Sleeps, Retries, LockFails, ExtendSucceeds, ExtendFails, Returns, Enter,
      Begin, Leave, Idle
<1>5. ASSUME Tick \/ (\E l \in late : CarriedOutLate(l)) \/ (\E p \in Pools : Expires(p))
             \/ UNCHANGED vars
      PROVE  CallChange(c)
  BY <1>5 DEF CallChange, Tick, CarriedOutLate, Expires, vars
<1> QED
  BY <1>2, <1>3, <1>4, <1>5 DEF Next, Visit

\* The counted pools keep the caller's keys.
LEMMA CountedBackStep ==
    ASSUME IInv, [Next]_vars, OwnMutexes, DriftCoversClocks, NoLateDelete
    PROVE  CountedBack'
<1> USE NumbersAssumption
<1> SUFFICES ASSUME NEW c \in Callers, Counts(c)', now' < LeaseFrom(call'[c].start),
                    NEW p \in call'[c].got
             PROVE  p < call'[c].at /\ Backs(p, c, LeaseFrom(call[c].start))'
  BY DEF CountedBack, LeaseFrom
<1>1. /\ call[c] \in Calls /\ call'[c] \in Calls /\ now \in Nat /\ now' \in Nat /\ now <= now'
      /\ call[c].start \in Nat /\ call[c].start <= now
  BY NowStep, CallStep DEF IInv, TypeOK, Calls, InThePast
<1>2. LeaseFrom(call[c].start) \in Int
  BY <1>1 DEF LeaseFrom
<1> DEFINE u == LeaseFrom(call[c].start)
<1>3. ASSUME call'[c].start = call[c].start, call'[c].op = call[c].op, p \in call[c].got
      PROVE  p < call[c].at /\ Backs(p, c, LeaseFrom(call[c].start))'
  <2>1. Counts(c) /\ now < u
    BY <1>1, <1>2, <1>3 DEF Counts
  <2>2. p < call[c].at /\ Backs(p, c, u) /\ p \in Pools
    BY <1>1, <1>3, <2>1 DEF IInv, QuorumBacksLease, CountedBack, Calls
  <2>3. call[c].op \notin {"undo", "unlock", "giveup"}
    BY <2>1 DEF Counts
  <2>4. Backs(p, c, u)'
    BY <1>2, <2>1, <2>2, <2>3, BacksKept, <1>3 DEF IInv, u
  <2> QED
    BY <2>2, <2>4
<1>4. CASE call'[c] = call[c]
  BY <1>3, <1>4
<1>5. ASSUME NEW got, Advanced(c, got)
      PROVE  /\ call'[c].start = call[c].start /\ call'[c].op = call[c].op
             /\ call'[c].got = got /\ call'[c].at = call[c].at + 1
             /\ call[c].at \in Int /\ call[c].at \in Pools
  BY <1>1, <1>5 DEF Advanced, Calls, InLoop
<1>6. CASE Advanced(c, call[c].got)
  BY <1>1, <1>3, <1>5, <1>6 DEF Calls, Pools
<1>7. ASSUME Advanced(c, call[c].got \cup {call[c].at}),
             Answer(Cmd(c), Token(c), key[call[c].at]),
             key'[call[c].at] = KeyAfter(Cmd(c), Token(c), key[call[c].at])
      PROVE  p < call'[c].at /\ Backs(p, c, LeaseFrom(call[c].start))'
  <2>1. CASE p \in call[c].got
    BY <1>1, <1>3, <1>5, <1>7, <2>1 DEF Calls, Pools
  <2>2. CASE p = call[c].at
    <3>1. Cmd(c) \in {"setnx", "touch"}
      BY <1>5, <1>7 DEF Counts, Cmd, Command
    <3>2. key'[p] = Fresh(Token(c))
      BY <1>7, <2>2, <3>1 DEF Answer, KeyAfter
    <3>3. key'[p].tok = Token(c) /\ key'[p].exp = now + Expiry
      BY <3>2 DEF Fresh
    <3>4. u <= now + Expiry - ClockErr
      BY <1>1 DEF LeaseFrom, DriftCoversClocks
    <3> QED
      BY <1>1, <1>5, <1>7, <2>2, <3>3, <3>4 DEF Backs, Token, LeaseFrom
  <2> QED
    BY <1>5, <1>7, <2>1, <2>2
<1> QED
  BY <1>4, <1>6, <1>7, CallChanges DEF CallChange, IInv

(***************************************************************************)
(* How the lease of one caller changes in a step: a new lease is the one   *)
(* its call has earned from a quorum of pools.                             *)
(***************************************************************************)
Earns(c) ==
    /\ Counts(c)
    /\ HasQuorum(call[c].got)
    /\ lease'[c] = LeaseFrom(call[c].start)
    /\ UNCHANGED <<now, key>>

LEMMA LeaseChanges ==
    ASSUME TypeOK, [Next]_vars, NEW c \in Callers
    PROVE  lease'[c] \in {lease[c], 0} \/ Earns(c)
<1>1. lease \in [Callers -> 0..(MaxTime + Expiry + Slack)]
  BY DEF TypeOK
<1>2. ASSUME NEW d \in Callers, Call(d) \/ ExtendFails(d)
      PROVE  lease'[c] \in {lease[c], 0}
  BY <1>1, <1>2 DEF Call, LockCalled, UnlockCalled, ExtendCalled, ExtendFails
<1>3. ASSUME NEW d \in Callers, LockSucceeds(d) \/ ExtendSucceeds(d)
      PROVE  lease'[c] = lease[c] \/ Earns(c)
  BY <1>1, <1>3 DEF LockSucceeds, ExtendSucceeds, Earns, Counts, Acquired
<1> QED
  BY <1>2, <1>3
  DEF Next, vars, Proceed, Visit, Tick, Expires, CarriedOutLate, Answered, AnswerLost, NotSent,
      GivenUp, AttemptFails, Sleeps, Retries, LockFails, Returns

LEMMA LeaseBackedStep ==
    ASSUME IInv, [Next]_vars, OwnMutexes, NoLateDelete
    PROVE  LeaseBacked'
<1> USE NumbersAssumption
<1> SUFFICES ASSUME NEW c \in Callers, now' < lease'[c]
             PROVE  \E Q \in Quorums : \A p \in Q : Backs(p, c, lease[c])'
  BY DEF LeaseBacked, Holds, Quorums, Pools, HasQuorum, Quorum
<1>1. /\ now \in Nat /\ now' \in Nat /\ now <= now' /\ lease[c] \in Int
      /\ call[c] \in Calls
  BY NowStep DEF IInv, TypeOK, Calls
<1>2. CASE lease'[c] = lease[c]
  <2>1. now < lease[c]
    BY <1>1, <1>2
  <2>2. call[c].op \notin {"undo", "unlock", "giveup"}
    BY <1>1, <2>1 DEF IInv, LeaseByLoop
  <2>3. PICK Q \in Quorums : \A p \in Q : Backs(p, c, lease[c])
    BY <2>1 DEF IInv, QuorumBacksLease, LeaseBacked, Holds
  <2>4. ASSUME NEW p \in Q
        PROVE  Backs(p, c, lease[c])'
    <3>1. p \in Pools /\ Backs(p, c, lease[c])
      BY <2>3 DEF Quorums
    <3>2. (key'[p].tok = Token(c) /\ lease[c] <= key'[p].exp - ClockErr)
      BY <1>1, <2>1, <2>2, <3>1, BacksKept DEF IInv, Backs, Token
    <3> QED
      BY <1>2, <3>2 DEF Backs, Token
  <2> QED
    BY <2>4
<1>3. CASE lease'[c] = 0
  BY <1>1, <1>3
<1>4. CASE Earns(c)
  <2>1. call[c].got \in Quorums
    BY <1>1, <1>4 DEF Earns, Quorums, Calls
  <2>2. now < LeaseFrom(call[c].start)
    BY <1>4 DEF Earns
  <2>3. \A p \in call[c].got : Backs(p, c, LeaseFrom(call[c].start))
    BY <1>4, <2>2 DEF Earns, IInv, QuorumBacksLease, CountedBack
  <2>4. \A p \in call[c].got : Backs(p, c, lease[c])'
    BY <1>4, <2>3 DEF Earns, Backs, Token
  <2> QED
    BY <2>1, <2>4
<1> QED
  BY <1>2, <1>3, <1>4, LeaseChanges DEF IInv

LEMMA Inductive ==
    ASSUME IInv, [Next]_vars, OwnMutexes, DriftCoversClocks, NoLateDelete
    PROVE  IInv'
BY TypeStep, CountedBackStep, LeaseBackedStep DEF IInv, QuorumBacksLease

LEMMA Initial == Init => IInv
<1> USE NumbersAssumption
<1> SUFFICES ASSUME Init PROVE IInv
  OBVIOUS
<1>1. TypeOK
  BY DEF Init, TypeOK, Absent, Idle, Loops, Pools
<1>2. InThePast /\ ExpirySoon /\ LeaseByLoop
  BY DEF Init, InThePast, ExpirySoon, LeaseByLoop, Absent, Idle
<1>3. QuorumBacksLease
  BY DEF Init, QuorumBacksLease, CountedBack, LeaseBacked, Holds, Counts, Idle
<1> QED
  BY <1>1, <1>2, <1>3 DEF IInv

\* Keys in a quorum exclude: no pool has the keys of two callers.
LEMMA BackedExcludes ==
    ASSUME IInv, OwnMutexes
    PROVE  MutualExclusion
<1> SUFFICES ASSUME NEW c \in Callers, NEW d \in Callers, Holds(c), Holds(d)
             PROVE  c = d
  BY DEF MutualExclusion
<1>1. PICK Q \in Quorums : \A p \in Q : Backs(p, c, lease[c])
  BY DEF IInv, QuorumBacksLease, LeaseBacked
<1>2. PICK R \in Quorums : \A p \in R : Backs(p, d, lease[d])
  BY DEF IInv, QuorumBacksLease, LeaseBacked
<1>3. PICK p \in Q : p \in R
  BY QuorumsMeet
<1>4. MutexOf[c] = MutexOf[d]
  BY <1>1, <1>2, <1>3 DEF Backs, Token
<1> QED
  BY <1>4 DEF OwnMutexes

(***************************************************************************)
(* The keys in Redis back every lease: the invariant that carries the      *)
(* exclusion through lost answers, retries, late SETs and expiry.          *)
(***************************************************************************)
THEOREM KeysBackLeases ==
    ASSUME OwnMutexes, DriftCoversClocks, NoLateDelete
    PROVE  Spec => [](TypeOK /\ QuorumBacksLease)
<1>1. IInv /\ [Next]_vars => IInv'
  BY Inductive
<1>2. IInv => TypeOK /\ QuorumBacksLease
  BY DEF IInv
<1> QED
  BY <1>1, <1>2, Initial, PTL DEF Spec

(***************************************************************************)
(* No two callers of Lock (and Extend) are ever inside the validity of     *)
(* their leases.                                                           *)
(***************************************************************************)
THEOREM LockExcludes ==
    ASSUME OwnMutexes, DriftCoversClocks, NoLateDelete
    PROVE  Spec => []MutualExclusion
<1>1. IInv /\ [Next]_vars => IInv'
  BY Inductive
<1>2. IInv => MutualExclusion
  BY BackedExcludes
<1> QED
  BY <1>1, <1>2, Initial, PTL DEF Spec

(***************************************************************************)
(* Without any of the three conditions: types, and who may take a key.     *)
(***************************************************************************)
THEOREM TypeCorrect == Spec => []TypeOK
<1> DEFINE TInv == TypeOK /\ InThePast /\ ExpirySoon /\ LeaseByLoop
<1>1. Init => TInv
  BY Initial DEF IInv
<1>2. TInv /\ [Next]_vars => TInv'
  BY TypeStep
<1>3. TInv => TypeOK
  OBVIOUS
<1> QED
  BY <1>1, <1>2, <1>3, PTL DEF Spec

\* A command takes away only the key that carries its token.
LEMMA CommandTakesOwn ==
    ASSUME NEW k, NEW cmd, NEW tok, k.tok # Free, KeyAfter(cmd, tok, k).tok # k.tok
    PROVE  tok = k.tok
<1>1. cmd = "delete" /\ k.tok = tok
  BY DEF KeyAfter, Fresh
<1> QED
  BY <1>1

LEMMA TakenByOwner ==
    ASSUME TypeOK, [Next]_vars, NEW p \in Pools,
           key[p].tok # Free, now < key[p].exp - ClockErr, key'[p].tok # key[p].tok
    PROVE  \/ \E c \in Callers : Token(c) = key[p].tok /\ call[c] # call'[c]
           \/ \E l \in late \ late' : l.tok = key[p].tok
<1>1. ASSUME NEW c \in Callers, Answered(c) \/ AnswerLost(c)
      PROVE  Token(c) = key[p].tok /\ call[c] # call'[c]
  <2>1. /\ call[c].at \in Pools
        /\ key' = [key EXCEPT ![call[c].at] = KeyAfter(Cmd(c), Token(c), @)]
        /\ \E got : NextPool(c, got)
    BY <1>1 DEF Answered, AnswerLost, InLoop
  <2>2. call[c].at = p /\ key'[p] = KeyAfter(Cmd(c), Token(c), key[p])
    BY <2>1 DEF TypeOK
  <2>3. Token(c) = key[p].tok
    BY <2>2, CommandTakesOwn
  <2>4. call[c].at \in Int /\ call \in [Callers -> Calls]
    BY <2>1 DEF TypeOK, Pools, Calls
  <2>5. call'[c].at = call[c].at + 1
    BY <2>1, <2>4 DEF NextPool, Calls
  <2> QED
    BY <2>3, <2>4, <2>5
<1>2. ASSUME NEW l \in late, CarriedOutLate(l)
      PROVE  l \in late \ late' /\ l.tok = key[p].tok
  <2>1. key'[p] = KeyAfter(l.cmd, l.tok, key[p]) /\ l \notin late'
    BY <1>2 DEF CarriedOutLate, TypeOK
  <2> QED
    BY <2>1, CommandTakesOwn
<1>3. ASSUME NEW q \in Pools, Expires(q)
      PROVE  FALSE
  <2>1. DOMAIN key = Pools /\ key' = [key EXCEPT ![q] = Absent]
    BY <1>3 DEF Expires, TypeOK
  <2>2. q = p
    BY <2>1
  <2>3. now < key[q].exp - ClockErr /\ now >= key[q].exp - ClockErr
    BY <1>3, <2>2 DEF Expires
  <2>4. key[q].exp \in Int /\ now \in Int
    BY <2>2, NumbersAssumption DEF TypeOK
  <2> QED
    BY <2>3, <2>4, NumbersAssumption
<1>4. \/ \E c \in Callers : Answered(c) \/ AnswerLost(c)
      \/ \E l \in late : CarriedOutLate(l)
      \/ \E q \in Pools : Expires(q)
      \/ key' = key
  BY DEF Next, vars, Call, Proceed, Visit, Tick, NotSent, GivenUp, LockCalled, UnlockCalled,
         ExtendCalled, LockSucceeds, AttemptFails, Sleeps, Retries, LockFails, ExtendSucceeds,
         ExtendFails, Returns
<1> QED
  BY <1>1, <1>2, <1>3, <1>4

(***************************************************************************)
(* A key that has not run out is taken from its pool only by a call of its *)
(* own mutex, or by a late command of it (mutex.go:141, the script).       *)
(***************************************************************************)
THEOREM OnlyTheOwnerDeletes == Spec => NoForeignDelete
<1>1. TypeOK /\ [Next]_vars =>
        [\A p \in Pools :
            /\ key[p].tok # Free
            /\ now < key[p].exp - ClockErr
            /\ key'[p].tok # key[p].tok
            => \/ \E c \in Callers : Token(c) = key[p].tok /\ call[c] # call'[c]
               \/ \E l \in late \ late' : l.tok = key[p].tok]_vars
  BY TakenByOwner
<1> QED
  BY <1>1, TypeCorrect, PTL DEF Spec, NoForeignDelete

(***************************************************************************)
(* Refinement: the clock and the leases move as LeaseLock allows.          *)
(***************************************************************************)
LEMMA EarnedLease ==
    ASSUME IInv, MutualExclusion', NEW c \in Callers,
           NEW u, u \in 0..(now + Expiry + Slack), UNCHANGED now,
           lease' = [lease EXCEPT ![c] = u]
    PROVE  LL!Lease(c, u)
<1> SUFFICES ASSUME now < u, NEW d \in Callers \ {c}, Holds(d)
             PROVE  FALSE
  BY DEF LL!Lease, LL!Holds, Holds
<1>1. lease'[c] = u /\ lease'[d] = lease[d]
  BY DEF IInv, TypeOK
<1>2. Holds(c)' /\ Holds(d)'
  BY <1>1 DEF Holds
<1> QED
  BY <1>2 DEF MutualExclusion

LEMMA RefinementStep ==
    ASSUME IInv, MutualExclusion', [Next]_vars
    PROVE  [LL!Next]_(LL!vars)
<1> USE NumbersAssumption
<1>1. ASSUME NEW c \in Callers
      PROVE  /\ LeaseFrom(call[c].start) \in 0..(now + Expiry + Slack)
             /\ now \in Nat
  BY DEF IInv, TypeOK, InThePast, LeaseFrom
<1>2. ASSUME NEW c \in Callers, LockSucceeds(c)
      PROVE  LL!Acquire(c)
  <2>1. lease[c] = 0
    BY <1>2 DEF LockSucceeds, IInv, LeaseByLoop
  <2>2. LL!Lease(c, LeaseFrom(call[c].start))
    BY <1>1, <1>2, EarnedLease DEF LockSucceeds
  <2>3. LeaseFrom(call[c].start) \in (now + 1)..(now + (Expiry + Slack))
    BY <1>1, <1>2 DEF LockSucceeds, Acquired
  <2> QED
    BY <2>1, <2>2, <2>3 DEF LL!Acquire
<1>3. ASSUME NEW c \in Callers, ExtendSucceeds(c)
      PROVE  LL!Renew(c)
  <2>1. lease[c] > 0
    BY <1>3 DEF ExtendSucceeds, IInv, LeaseByLoop
  <2>2. LL!Lease(c, LeaseFrom(call[c].start))
    BY <1>1, <1>3, EarnedLease DEF ExtendSucceeds
  <2>3. LeaseFrom(call[c].start) \in 0..(now + (Expiry + Slack))
    BY <1>1
  <2> QED
    BY <2>1, <2>2, <2>3 DEF LL!Renew
<1>4. ASSUME NEW c \in Callers, Call(c) \/ ExtendFails(c)
      PROVE  LL!Drop(c) \/ UNCHANGED <<now, lease>>
  BY <1>4 DEF Call, LockCalled, UnlockCalled, ExtendCalled, ExtendFails, LL!Drop
<1>5. CASE Tick
  BY <1>5 DEF Tick, LL!Next, LL!Tick
<1>6. \/ \E c \in Callers : \/ LockSucceeds(c) \/ ExtendSucceeds(c) \/ ExtendFails(c)
                              \/ Call(c)
      \/ Tick
      \/ UNCHANGED <<now, lease>>
  BY DEF Next, vars, Proceed, Visit, Expires, CarriedOutLate, Answered, AnswerLost, NotSent,
         GivenUp, AttemptFails, Sleeps, Retries, LockFails, Returns
<1> QED
  BY <1>2, <1>3, <1>4, <1>5, <1>6 DEF LL!Next, LL!vars

(***************************************************************************)
(* Redsync implements the lease lock: a lease is granted only while nobody *)
(* else has a valid one, and Lock never returns a lease that is over.      *)
(***************************************************************************)
THEOREM RedsyncIsALeaseLock ==
    ASSUME OwnMutexes, DriftCoversClocks, NoLateDelete
    PROVE  Spec => ImplementsLeaseLock
<1>1. Init => LL!Init
  BY DEF Init, LL!Init
<1>2. IInv /\ MutualExclusion' /\ [Next]_vars => [LL!Next]_(LL!vars)
  BY RefinementStep
<1>3. IInv /\ [Next]_vars => IInv'
  BY Inductive
<1>4. IInv => MutualExclusion
  BY BackedExcludes
<1> QED
  BY <1>1, <1>2, <1>3, <1>4, Initial, PTL DEF Spec, ImplementsLeaseLock, LL!Spec
==============================================================================
