-------------------------- MODULE TimerEngineProofs --------------------------
(***************************************************************************)
(* For any number of timers, any ring, any delays and any levels of the    *)
(* task engine: a timer is executed once at most, Cancel is honest, and    *)
(* when all the delays are Exact each timer is executed at its tick, and   *)
(* the engine takes its process down only after a Stop.                    *)
(*                                                                         *)
(* The invariant says where a timer is: in the queue, at one place of one  *)
(* bucket, or in neither.  A walk holds on to elements of its bucket, and  *)
(* the only started timer in a bucket is the one that its walk is about to *)
(* remove: so no walk comes upon a timer that was executed, provided that  *)
(* walks of one bucket do not overlap, which is where RingAssumption       *)
(* (MaxLag < RingSize) is needed.  With Exact delays the timers of a       *)
(* bucket are all due at its next tick, no request is ever placed in a     *)
(* bucket that is being walked, and a walk always stands at its head.      *)
(***************************************************************************)
EXTENDS TimerEngine, SequenceTheorems, TLAPS

Request == [timer : Timers, secs : Nat]
Walking == [phase : Phases, cur : Timers \cup {None}, next : Timers \cup {None}, tick : Nat]
TimerTask == [cycle : Int, started : BOOLEAN, cancelled : BOOLEAN, execs : Nat, due : Nat,
              fired : {"not", "early", "due", "late"}]

Types ==
    /\ ticks \in 0..MaxTick
    /\ done \in BOOLEAN /\ exact \in BOOLEAN /\ crashed \in BOOLEAN
    /\ requests \in Seq(Request) /\ Len(requests) <= QueueCap
    /\ bucket \in [Ring -> Seq(Timers)]
    /\ broken \in [Ring -> {"no", "length", "links"}]
    /\ walk \in [Ring -> Walking]
    /\ timer \in [Timers -> TimerTask]
    /\ caller \in [Timers -> {"new", "executing", "requested", "has", "nil", "panicked"}]
    /\ cancel \in [Timers -> {"none", "true", "false"}]
    /\ loop \in {"running", "leaving", "ended"}
    /\ level \in Levels
    /\ pool \in {"up", "stopping", "drained", "failed"}
    /\ job \in [Timers -> {"new", "waiting", "refused", "running", "lost", "leaving", "finished"}]

\* The walks of one bucket do not overlap: one that is under way is recent.
Recent ==
    \A i \in Ring : walk[i].phase # "none" =>
        /\ walk[i].tick \in 1..ticks
        /\ walk[i].tick % RingSize = i
        /\ ticks - walk[i].tick <= MaxLag

\* A timer is queued once at most, or it is at one place of one bucket.
Places ==
    /\ \A m, n \in 1..Len(requests) : requests[m].timer = requests[n].timer => m = n
    /\ \A i, j \in Ring : \A p \in 1..Len(bucket[i]), q \in 1..Len(bucket[j]) :
          bucket[i][p] = bucket[j][q] => i = j /\ p = q
    /\ \A n \in 1..Len(requests), i \in Ring : \A p \in 1..Len(bucket[i]) :
          requests[n].timer # bucket[i][p]
    /\ \A n \in 1..Len(requests) : caller[requests[n].timer] \in {"requested", "nil"}
    /\ \A i \in Ring : \A p \in 1..Len(bucket[i]) :
          caller[bucket[i][p]] \notin {"new", "executing"}

\* What has happened to a timer so far.
Pasts ==
    /\ \A t \in Timers :
          /\ timer[t].execs = IF timer[t].started THEN 1 ELSE 0
          /\ timer[t].started <=> job[t] # "new"
          /\ timer[t].started => ~ timer[t].cancelled /\ timer[t].due = 0
          /\ cancel[t] = "true" => timer[t].cancelled
          /\ cancel[t] = "false" => timer[t].started
          /\ caller[t] = "new" =>
                ~ timer[t].started /\ ~ timer[t].cancelled /\ cancel[t] = "none"
    /\ \A n \in 1..Len(requests) :
          ~ timer[requests[n].timer].started /\ cancel[requests[n].timer] = "none"

Active == {"ready", "dispose", "wait", "remove"}
Holds(i, t) == \E p \in 1..Len(bucket[i]) : bucket[i][p] = t
Before(i, t, u) ==
    \E p, q \in 1..Len(bucket[i]) : p < q /\ bucket[i][p] = t /\ bucket[i][q] = u

\* What a walk holds on to, and what it has left behind.
Cursors ==
    \A i \in Ring :
        /\ walk[i].phase \in Active =>
              /\ Holds(i, walk[i].cur)
              /\ walk[i].next # None => Before(i, walk[i].cur, walk[i].next)
        /\ walk[i].phase = "wait" => timer[walk[i].cur].started
        /\ walk[i].phase = "remove" =>
              timer[walk[i].cur].started \/ timer[walk[i].cur].cancelled
        /\ \A p \in 1..Len(bucket[i]) : timer[bucket[i][p]].started =>
              walk[i].phase \in {"wait", "remove"} /\ walk[i].cur = bucket[i][p]

\* As long as every delay was Exact, a bucket holds the timers of one tick.
DueAt(i, k) ==
    /\ k % RingSize = i
    /\ IF walk[i].phase = "none" THEN k \in (ticks + 1)..(ticks + RingSize - 1)
                                 ELSE k = walk[i].tick

AtHead(i) ==
    /\ walk[i].cur = bucket[i][1]
    /\ walk[i].next = IF Len(bucket[i]) = 1 THEN None ELSE bucket[i][2]

Timely ==
    exact =>
        /\ \A i \in Ring :
              /\ broken[i] = "no"
              /\ walk[i].phase \in Active => AtHead(i)
              /\ \A p \in 1..Len(bucket[i]) :
                    /\ timer[bucket[i][p]].cycle <= 1
                    /\ ~ timer[bucket[i][p]].started => DueAt(i, timer[bucket[i][p]].due)
        /\ \A t \in Timers :
              /\ timer[t].fired \in {"not", "due"}
              /\ timer[t].due > 0 /\ ~ timer[t].cancelled =>
                    \E i \in Ring : Holds(i, t)

IInv == Types /\ Recent /\ Places /\ Pasts /\ Cursors /\ Timely
(***************************************************************************)
(* Remainders                                                              *)
(***************************************************************************)
LEMMA Division ==
    ASSUME NEW R \in Nat \ {0}, NEW a \in Nat
    PROVE  a = R * (a \div R) + (a % R) /\ a \div R \in Nat /\ a % R \in 0..(R - 1)
OBVIOUS

LEMMA Multiples ==
    ASSUME NEW R \in Nat \ {0}, NEW p \in Nat, NEW q \in Nat, p < q
    PROVE  R * q >= R * p + R
<1>1. R * (q - p) >= R
  OBVIOUS
<1> QED
  BY <1>1

\* Two numbers with the same remainder are equal or at least R apart.
LEMMA Apart ==
    ASSUME NEW R \in Nat \ {0}, NEW a \in Nat, NEW b \in Nat, a < b, b < a + R
    PROVE  a % R # b % R
<1> DEFINE p == a \div R
           q == b \div R
<1>1. SUFFICES ASSUME a % R = b % R PROVE FALSE
  OBVIOUS
<1>2. /\ a = R * p + (a % R) /\ p \in Nat
      /\ b = R * q + (b % R) /\ q \in Nat
  BY Division
<1>3. b - a = R * q - R * p
  BY <1>1, <1>2
<1> HIDE DEF p, q
<1>4. CASE p < q
  BY <1>2, <1>3, <1>4, Multiples
<1>5. CASE q < p
  <2>1. R * p >= R * q + R
    BY <1>2, <1>5, Multiples
  <2> QED
    BY <1>2, <1>3, <2>1
<1>6. CASE p = q
  BY <1>2, <1>3, <1>6
<1> QED
  BY <1>2, <1>4, <1>5, <1>6

\* The bucket that the code computes from a reduced tick is that of the sum.
LEMMA Reduced ==
    ASSUME NEW R \in Nat \ {0}, NEW a \in Nat, NEW s \in Nat
    PROVE  (s + (a % R)) % R = (a + s) % R
<1> DEFINE b == s + (a % R)
           c == a + s
<1>1. a = R * (a \div R) + (a % R) /\ a \div R \in Nat /\ a % R \in 0..(R - 1)
  BY Division
<1>2. b \in Nat /\ c \in Nat /\ c = b + R * (a \div R)
  BY <1>1
<1>3. /\ b = R * (b \div R) + (b % R) /\ b \div R \in Nat /\ b % R \in 0..(R - 1)
      /\ c = R * (c \div R) + (c % R) /\ c \div R \in Nat /\ c % R \in 0..(R - 1)
  BY <1>2, Division
<1> DEFINE p == a \div R
           q == b \div R
           r == c \div R
           x == b % R
           y == c % R
<1>4. R * r + y = R * (q + p) + x
  BY <1>1, <1>2, <1>3
<1>5. x \in 0..(R - 1) /\ y \in 0..(R - 1) /\ p \in Nat /\ q \in Nat /\ r \in Nat
  BY <1>1, <1>3
<1> HIDE DEF p, q, r, x, y
<1>6. CASE r < q + p
  <2>1. R * (q + p) >= R * r + R
    BY <1>5, <1>6, Multiples
  <2> QED
    BY <1>4, <1>5, <2>1
<1>7. CASE q + p < r
  <2>1. R * r >= R * (q + p) + R
    BY <1>5, <1>7, Multiples
  <2> QED
    BY <1>4, <1>5, <2>1
<1>8. CASE r = q + p
  <2>1. x = y
    BY <1>4, <1>5, <1>8
  <2> QED
    BY <2>1 DEF x, y
<1> QED
  BY <1>5, <1>6, <1>7, <1>8

\* A timer whose delay is less than a turn has one cycle at most.
LEMMA OneCycle ==
    ASSUME NEW R \in Nat \ {0}, NEW a \in 0..(2 * R - 1)
    PROVE  a \div R <= 1
<1>1. /\ a \in Nat /\ a < 2 * R
      /\ a = R * (a \div R) + (a % R) /\ a \div R \in Nat /\ a % R \in 0..(R - 1)
  <2>1. a \in Nat
    OBVIOUS
  <2> QED
    BY <2>1, Division
<1>2. CASE a \div R > 1
  <2>1. R * (a \div R) >= R * 1 + R
    BY <1>1, <1>2, Multiples
  <2> QED
    BY <1>1, <2>1
<1> QED
  BY <1>1, <1>2

(***************************************************************************)
(* Taking an element out of a bucket                                       *)
(***************************************************************************)
LEMMA Taken ==
    ASSUME NEW S, NEW s \in Seq(S), NEW k \in 1..Len(s)
    PROVE  /\ RemoveAt(s, k) \in Seq(S)
           /\ Len(RemoveAt(s, k)) = Len(s) - 1
           /\ \A p \in 1..(Len(s) - 1) :
                 RemoveAt(s, k)[p] = IF p < k THEN s[p] ELSE s[p + 1]
<1> DEFINE a == SubSeq(s, 1, k - 1)
           b == SubSeq(s, k + 1, Len(s))
<1>1. a \in Seq(S) /\ Len(a) = k - 1 /\ \A p \in 1..(k - 1) : a[p] = s[p]
  BY SubSeqProperties
<1>2. b \in Seq(S) /\ Len(b) = Len(s) - k /\ \A p \in 1..(Len(s) - k) : b[p] = s[p + k]
  <2>1. k + 1 \in Int /\ Len(s) \in Int /\ \A p \in (k + 1)..Len(s) : s[p] \in S
    OBVIOUS
  <2>2. /\ b \in Seq(S)
        /\ Len(b) = IF k + 1 <= Len(s) THEN Len(s) - (k + 1) + 1 ELSE 0
        /\ \A p \in 1..(Len(s) - (k + 1) + 1) : b[p] = s[(k + 1) + p - 1]
    BY <2>1, SubSeqProperties
  <2> QED
    BY <2>2
<1>3. RemoveAt(s, k) = a \o b
  BY DEF RemoveAt
<1> HIDE DEF a, b
<1>4. Len(s) \in Nat /\ Len(a \o b) = Len(s) - 1 /\ a \o b \in Seq(S)
  <2>1. a \o b \in Seq(S) /\ Len(a \o b) = Len(a) + Len(b)
    BY <1>1, <1>2, ConcatProperties
  <2>2. Len(s) \in Nat /\ k \in Nat
    BY LenProperties
  <2> QED
    BY <1>1, <1>2, <2>1, <2>2
<1>5. ASSUME NEW p \in 1..(Len(s) - 1), p < k PROVE (a \o b)[p] = s[p]
  BY <1>1, <1>2, <1>5
<1>6. ASSUME NEW p \in 1..(Len(s) - 1), ~ (p < k) PROVE (a \o b)[p] = s[p + 1]
  <2>1. (a \o b)[p] = b[p - Len(a)]
    BY <1>1, <1>2, <1>4, <1>6
  <2>2. p - Len(a) \in 1..(Len(s) - k) /\ (p - Len(a)) + k = p + 1
    BY <1>1, <1>4, <1>6
  <2> QED
    BY <1>2, <2>1, <2>2
<1> QED
  BY <1>3, <1>4, <1>5, <1>6
(***************************************************************************)
(* The initial states, and the steps that move no timer                    *)
(***************************************************************************)
LEMMA Elements ==
    ASSUME Types
    PROVE  /\ Len(requests) \in Nat
           /\ \A n \in 1..Len(requests) :
                 /\ requests[n] \in Request
                 /\ requests[n].timer \in Timers /\ requests[n].secs \in Nat
           /\ \A i \in Ring :
                 /\ bucket[i] \in Seq(Timers) /\ Len(bucket[i]) \in Nat
                 /\ \A p \in 1..Len(bucket[i]) : bucket[i][p] \in Timers
<1>1. requests \in Seq(Request) /\ \A i \in Ring : bucket[i] \in Seq(Timers)
  BY DEF Types
<1>2. Len(requests) \in Nat /\ \A n \in 1..Len(requests) : requests[n] \in Request
  BY <1>1, LenProperties, ElementOfSeq
<1>3. ASSUME NEW i \in Ring
      PROVE  Len(bucket[i]) \in Nat /\ \A p \in 1..Len(bucket[i]) : bucket[i][p] \in Timers
  BY <1>1, LenProperties, ElementOfSeq
<1>4. \A r \in Request : r.timer \in Timers /\ r.secs \in Nat
  BY DEF Request
<1> QED
  BY <1>1, <1>2, <1>3, <1>4

LEMMA Initial == Init => IInv
<1> SUFFICES ASSUME Init PROVE IInv
  OBVIOUS
<1>1. Types
  <2>1. requests \in Seq(Request) /\ Len(requests) = 0 /\ <<>> \in Seq(Timers)
    BY EmptySeq DEF Init
  <2>2. NoWalk \in Walking
    BY DEF NoWalk, Walking, Phases
  <2>3. newTimerTask(0, 0) \in TimerTask
    BY DEF newTimerTask, TimerTask
  <2>4. ticks \in 0..MaxTick /\ Len(requests) <= QueueCap
    BY <2>1, RingAssumption DEF Init
  <2>5. bucket \in [Ring -> Seq(Timers)] /\ broken \in [Ring -> {"no", "length", "links"}] /\ walk \in [Ring -> Walking]
    BY <2>1, <2>2 DEF Init
  <2>6. timer \in [Timers -> TimerTask]
    BY <2>3 DEF Init
  <2> QED
    BY <2>1, <2>4, <2>5, <2>6 DEF Init, EX!Init, Types
<1>2. Recent
  BY DEF Init, Recent, NoWalk
<1>3. /\ Len(requests) = 0 /\ requests = <<>>
      /\ \A i \in Ring : Len(bucket[i]) = 0
  BY EmptySeq DEF Init
<1>4. Places
  BY <1>3 DEF Places
<1>5. Pasts
  BY <1>3 DEF Init, EX!Init, Pasts, newTimerTask
<1>6. Cursors
  BY <1>3 DEF Init, Cursors, NoWalk, Active
<1>7. Timely
  BY <1>3 DEF Init, Timely, NoWalk, newTimerTask, Active
<1> QED
  BY <1>1, <1>2, <1>4, <1>5, <1>6, <1>7 DEF IInv

\* What counts of a job is whether it was ever offered, and of a caller whether
\* its timer can have been queued.
LEMMA Unmoved ==
    ASSUME IInv, Types',
           UNCHANGED <<ticks, exact, requests, bucket, broken, walk, timer, cancel>>,
           \A t \in Timers : job'[t] = "new" <=> job[t] = "new",
           \A t \in Timers : \/ caller'[t] = caller[t]
                             \/ caller[t] = "executing" /\ caller'[t] # "new"
                             \/ caller'[t] = "nil"
    PROVE  IInv'
<1> USE DEF IInv
<1>1. Recent'
  BY DEF Recent
<1>2. Places'
  BY Elements DEF Places
<1>3. Pasts'
  BY DEF Pasts
<1>4. Cursors'
  BY DEF Cursors, Holds, Before
<1>5. Timely'
  BY DEF Timely, AtHead, DueAt, Holds
<1> QED
  BY <1>1, <1>2, <1>3, <1>4, <1>5

LEMMA QuietInductive ==
    ASSUME IInv,
           \/ LoopLeaves \/ LoopDrains \/ LoopPanics \/ LoopEnds \/ Stop \/ UNCHANGED vars
           \/ \E t \in Timers : Executor(t) \/ CallerHasExecuted(t) \/ ReturnsNil(t)
    PROVE  IInv'
<1> USE DEF IInv
<1>1. CASE LoopLeaves
  BY <1>1, Unmoved DEF LoopLeaves, EX!Shutdown, EX!PoolGoes, Types
<1>2. CASE LoopDrains \/ LoopPanics
  BY <1>2, Unmoved DEF LoopDrains, LoopPanics, EX!Drain, EX!Fail, EX!PoolGoes, Types
<1>3. CASE LoopEnds
  BY <1>3, Unmoved DEF LoopEnds, exvars, Types
<1>4. CASE Stop
  BY <1>4, Unmoved DEF Stop, exvars, Types
<1>5. CASE UNCHANGED vars
  BY <1>5, Unmoved DEF vars, exvars, Types
<1>6. ASSUME NEW t \in Timers, Executor(t) PROVE IInv'
  <2>1. /\ job' = [job EXCEPT ![t] = job'[t]] /\ job[t] # "new"
        /\ job'[t] \in {"running", "lost", "leaving", "finished"}
        /\ UNCHANGED <<level, pool>>
    BY <1>6 DEF Executor, EX!Proceed, EX!Start, EX!Lose, EX!Finish, EX!Leave, EX!Moves, Types
  <2>2. \A u \in Timers : job'[u] = "new" <=> job[u] = "new"
    BY <2>1 DEF Types
  <2>3. job' \in [Timers -> {"new", "waiting", "refused", "running", "lost", "leaving", "finished"}]
    BY <2>1 DEF Types
  <2>4. Types'
    BY <1>6, <2>1, <2>3 DEF Executor, Types
  <2> QED
    BY <1>6, <2>2, <2>4, Unmoved DEF Executor
<1>7. ASSUME NEW t \in Timers, CallerHasExecuted(t) PROVE IInv'
  <2>1. /\ caller' = [caller EXCEPT ![t] = caller'[t]] /\ caller'[t] \in {"panicked", "has"}
        /\ caller[t] = "executing"
    BY <1>7 DEF CallerHasExecuted, CallerGoes, Types
  <2>2. UNCHANGED <<exact, ticks, done, requests, bucket, broken, walk, timer, cancel, loop,
                    crashed, level, pool, job>>
    BY <1>7 DEF CallerHasExecuted, exvars
  <2>3. \A u \in Timers : u # t => caller'[u] = caller[u]
    BY <2>1 DEF Types
  <2>4. caller' \in [Timers -> {"new", "executing", "requested", "has", "nil", "panicked"}]
    BY <2>1 DEF Types
  <2>5. Types'
    BY <2>2, <2>4 DEF Types
  <2>6. \A u \in Timers : \/ caller'[u] = caller[u]
                          \/ caller[u] = "executing" /\ caller'[u] # "new"
                          \/ caller'[u] = "nil"
    BY <2>1, <2>3
  <2>7. \A u \in Timers : job'[u] = "new" <=> job[u] = "new"
    BY <2>2
  <2> HIDE DEF IInv
  <2> QED
    BY <2>2, <2>5, <2>6, <2>7, Unmoved
<1>8. ASSUME NEW t \in Timers, ReturnsNil(t) PROVE IInv'
  BY <1>8, Unmoved DEF ReturnsNil, exvars, Types
<1> QED
  BY <1>1, <1>2, <1>3, <1>4, <1>5, <1>6, <1>7, <1>8

LEMMA CancelledSet ==
    ASSUME NEW task \in TimerTask, NEW c \in BOOLEAN
    PROVE  [task EXCEPT !.cancelled = c] \in TimerTask
BY DEF TimerTask

LEMMA CancelInductive ==
    ASSUME IInv, NEW t \in Timers, Cancel(t)
    PROVE  IInv'
<1> USE DEF IInv
<1>1. /\ timer' = [timer EXCEPT ![t].cancelled = timer[t].cancelled \/ ~ timer[t].started]
      /\ cancel' = [cancel EXCEPT ![t] = IF timer'[t].cancelled THEN "true" ELSE "false"]
      /\ caller[t] = "has"
      /\ UNCHANGED <<exact, ticks, done, requests, bucket, broken, walk, caller, loop,
                     crashed, level, pool, job>>
  BY DEF Cancel, CancelSets, exvars
<1>2. /\ \A u \in Timers :
            /\ timer'[u].cycle = timer[u].cycle /\ timer'[u].started = timer[u].started
            /\ timer'[u].execs = timer[u].execs /\ timer'[u].due = timer[u].due
            /\ timer'[u].fired = timer[u].fired
            /\ timer[u].cancelled => timer'[u].cancelled
            /\ u # t => timer'[u] = timer[u] /\ cancel'[u] = cancel[u]
      /\ timer'[t].cancelled = (timer[t].cancelled \/ ~ timer[t].started)
      /\ cancel'[t] = IF timer'[t].cancelled THEN "true" ELSE "false"
  BY <1>1 DEF Types, TimerTask
<1>3. Types'
  <2>1. timer[t] \in TimerTask
    BY DEF Types
  <2>2. (timer[t].cancelled \/ ~ timer[t].started) \in BOOLEAN
    OBVIOUS
  <2>3. [timer[t] EXCEPT !.cancelled = timer[t].cancelled \/ ~ timer[t].started] \in TimerTask
    BY <2>1, <2>2, CancelledSet
  <2>4. timer' \in [Timers -> TimerTask]
    BY <1>1, <2>3 DEF Types
  <2>5. cancel' \in [Timers -> {"none", "true", "false"}]
    BY <1>1 DEF Types
  <2> QED
    BY <1>1, <2>4, <2>5 DEF Types
<1>4. Recent' /\ Places'
  BY <1>1 DEF Recent, Places
<1>5. /\ \A n \in 1..Len(requests) : requests[n].timer \in Timers
      /\ \A i \in Ring : \A p \in 1..Len(bucket[i]) : bucket[i][p] \in Timers
  BY Elements
<1>6. Pasts'
  <2>1. ASSUME NEW u \in Timers, u # t
        PROVE  timer'[u] = timer[u] /\ cancel'[u] = cancel[u] /\ job'[u] = job[u] /\ caller'[u] = caller[u]
    BY <1>1, <1>2, <2>1
  <2>2. timer'[t].started => ~ timer'[t].cancelled
    BY <1>2 DEF Pasts
  <2>3. timer'[t].cancelled \/ timer'[t].started
    BY <1>2
  <2>4. /\ cancel'[t] = "true" => timer'[t].cancelled
        /\ cancel'[t] = "false" => timer'[t].started
    BY <1>2, <2>3
  <2>5. \A n \in 1..Len(requests) : requests[n].timer \in Timers \ {t}
    BY <1>1, <1>5 DEF Places
  <2>6. \A n \in 1..Len(requests) :
            ~ timer'[requests[n].timer].started /\ cancel'[requests[n].timer] = "none"
    BY <1>2, <2>1, <2>5 DEF Pasts
  <2>7. /\ timer'[t].execs = IF timer'[t].started THEN 1 ELSE 0
        /\ timer'[t].started <=> job[t] # "new"
        /\ timer'[t].started => timer'[t].due = 0
        /\ caller[t] # "new"
    BY <1>1, <1>2 DEF Pasts
  <2> QED
    BY <1>1, <2>1, <2>2, <2>4, <2>6, <2>7 DEF Pasts
<1>7. Cursors'
  <2>1. \A i \in Ring : walk[i].phase \in Active => walk[i].cur \in Timers
    BY <1>5 DEF Cursors, Holds
  <2> QED
    BY <1>1, <1>2, <1>5, <2>1, SMTT(30) DEF Cursors, Holds, Before, Active
<1>8. Timely'
  BY <1>1, <1>2, <1>5 DEF Timely, AtHead, DueAt, Holds
<1> QED
  BY <1>3, <1>4, <1>6, <1>7, <1>8
(***************************************************************************)
(* A timer is disposed of                                                  *)
(***************************************************************************)
LEMMA Handed ==
    ASSUME IInv, NEW t \in Timers, NEW k \in Nat, Disposed(t, k),
           ~ timer[t].started, ~ timer[t].cancelled
    PROVE  /\ timer' \in [Timers -> TimerTask]
           /\ \A u \in Timers : u # t => timer'[u] = timer[u] /\ job'[u] = job[u]
           /\ timer'[t].started /\ ~ timer'[t].cancelled
           /\ timer'[t].execs = 1 /\ timer'[t].due = 0 /\ timer'[t].cycle = timer[t].cycle
           /\ k = timer[t].due => timer'[t].fired = "due"
           /\ job' \in [Timers -> {"new", "waiting", "refused", "running", "lost", "leaving", "finished"}]
           /\ job'[t] # "new"
           /\ UNCHANGED <<level, pool>>
<1> USE DEF IInv
<1> DEFINE fired == IF k < timer[t].due THEN "early"
                    ELSE IF k = timer[t].due THEN "due" ELSE "late"
           task == [cycle |-> timer[t].cycle, started |-> TRUE, cancelled |-> timer[t].cancelled,
                    execs |-> timer[t].execs + 1, due |-> 0, fired |-> fired]
<1>1. Executed(t, k) /\ job[t] = "new" /\ timer[t].execs = 0 /\ timer[t] \in TimerTask
  BY DEF Disposed, Pasts, Types
<1>2. timer' = [timer EXCEPT ![t] = task] /\ EX!Offer(t)
  BY <1>1 DEF Executed
<1>3. /\ task \in TimerTask /\ task.started /\ ~ task.cancelled /\ task.execs = 1
      /\ task.due = 0 /\ task.cycle = timer[t].cycle /\ task.fired = fired
  <2>1. fired \in {"not", "early", "due", "late"}
    OBVIOUS
  <2> HIDE DEF fired
  <2>2. /\ task \in TimerTask /\ task.started = TRUE /\ task.cancelled = timer[t].cancelled
        /\ task.execs = timer[t].execs + 1
        /\ task.due = 0 /\ task.cycle = timer[t].cycle /\ task.fired = fired
    BY <1>1, <2>1 DEF TimerTask
  <2> QED
    BY <1>1, <2>2
<1> HIDE DEF task
<1>7. k = timer[t].due => fired = "due"
  BY <1>1 DEF TimerTask
<1> HIDE DEF fired
<1>4. /\ timer' \in [Timers -> TimerTask] /\ timer'[t] = task
      /\ \A u \in Timers : u # t => timer'[u] = timer[u]
  BY <1>2, <1>3 DEF Types
<1>5. /\ job' = [job EXCEPT ![t] = IF pool = "up" THEN "waiting" ELSE "refused"]
      /\ UNCHANGED <<level, pool>>
  BY <1>2 DEF EX!Offer, EX!Moves
<1>6. /\ job' \in [Timers -> {"new", "waiting", "refused", "running", "lost", "leaving", "finished"}]
      /\ job'[t] # "new" /\ \A u \in Timers : u # t => job'[u] = job[u]
  BY <1>5 DEF Types
<1> QED
  BY <1>3, <1>4, <1>5, <1>6, <1>7

LEMMA ScheduleNowInductive ==
    ASSUME IInv, NEW t \in Timers, ScheduleNow(t)
    PROVE  IInv'
<1> USE DEF IInv
<1>1. /\ caller[t] = "new" /\ caller' = [caller EXCEPT ![t] = "executing"]
      /\ Disposed(t, timer[t].due)
      /\ UNCHANGED <<exact, ticks, done, requests, bucket, broken, walk, cancel, loop, crashed>>
  BY DEF ScheduleNow, CallerGoes
<1>2. ~ timer[t].started /\ ~ timer[t].cancelled /\ timer[t].due \in Nat
  BY <1>1 DEF Pasts, Types, TimerTask
<1>3. /\ timer' \in [Timers -> TimerTask]
      /\ \A u \in Timers : u # t => timer'[u] = timer[u] /\ job'[u] = job[u]
      /\ timer'[t].started /\ ~ timer'[t].cancelled
      /\ timer'[t].execs = 1 /\ timer'[t].due = 0 /\ timer'[t].fired = "due"
      /\ job' \in [Timers -> {"new", "waiting", "refused", "running", "lost", "leaving", "finished"}]
      /\ job'[t] # "new"
      /\ UNCHANGED <<level, pool>>
  BY <1>1, <1>2, Handed
<1>4. /\ caller' \in [Timers -> {"new", "executing", "requested", "has", "nil", "panicked"}]
      /\ caller'[t] = "executing" /\ \A u \in Timers : u # t => caller'[u] = caller[u]
  BY <1>1 DEF Types
<1>5. /\ \A n \in 1..Len(requests) : requests[n].timer \in Timers \ {t}
      /\ \A i \in Ring : \A p \in 1..Len(bucket[i]) : bucket[i][p] \in Timers \ {t}
  BY <1>1, Elements DEF Places
<1>6. Types'
  BY <1>1, <1>3, <1>4 DEF Types
<1>7. Recent'
  BY <1>1 DEF Recent
<1>8. Places'
  BY <1>1, <1>4, <1>5 DEF Places
<1>9. Pasts'
  <2>1. cancel[t] # "true"
    BY <1>2 DEF Pasts
  <2> QED
    BY <1>1, <1>3, <1>4, <1>5, <2>1 DEF Pasts
<1>10. Cursors'
  <2>1. \A i \in Ring : walk[i].phase \in Active => walk[i].cur \in Timers \ {t}
    BY <1>5 DEF Cursors, Holds
  <2> QED
    BY <1>1, <1>3, <1>5, <2>1, SMTT(30) DEF Cursors, Holds, Before, Active
<1>11. Timely'
  BY <1>1, <1>3, <1>5 DEF Timely, AtHead, DueAt, Holds
<1> QED
  BY <1>6, <1>7, <1>8, <1>9, <1>10, <1>11

LEMMA RequestedInductive ==
    ASSUME IInv, NEW t \in Timers, Requested(t)
    PROVE  IInv'
<1> USE DEF IInv
<1>1. PICK d \in Delays : d > 0 /\ requests' = Append(requests, [timer |-> t, secs |-> Seconds(d)])
  BY DEF Requested
<1>2. /\ caller[t] = "new" /\ caller' = [caller EXCEPT ![t] = "requested"]
      /\ Len(requests) < QueueCap
      /\ UNCHANGED <<ticks, done, bucket, broken, walk, timer, cancel, loop, crashed, exact,
                     level, pool, job>>
  BY DEF Requested, CallerGoes, exvars
<1>3. [timer |-> t, secs |-> Seconds(d)] \in Request
  <2>1. d \in Int
    BY RingAssumption
  <2>2. Seconds(d) \in Nat
    BY <1>1, <2>1 DEF Seconds
  <2> QED
    BY <2>2 DEF Request
<1>4. /\ requests' \in Seq(Request) /\ Len(requests') = Len(requests) + 1
      /\ \A n \in 1..Len(requests) : requests'[n] = requests[n]
      /\ requests'[Len(requests) + 1].timer = t
      /\ Len(requests) \in Nat
  BY <1>1, <1>3, AppendProperties, Elements DEF Types
<1>5. /\ caller' \in [Timers -> {"new", "executing", "requested", "has", "nil", "panicked"}]
      /\ caller'[t] = "requested" /\ \A u \in Timers : u # t => caller'[u] = caller[u]
  BY <1>2 DEF Types
<1>6. /\ \A n \in 1..Len(requests) : requests[n].timer \in Timers \ {t}
      /\ \A i \in Ring : \A p \in 1..Len(bucket[i]) : bucket[i][p] \in Timers \ {t}
  BY <1>2, Elements DEF Places
<1>7. Types'
  <2>1. Len(requests') <= QueueCap
    BY <1>2, <1>4, RingAssumption
  <2> QED
    BY <1>2, <1>4, <1>5, <2>1 DEF Types
<1>8. Recent'
  BY <1>2 DEF Recent
<1>9. \A n \in 1..Len(requests') :
          \/ n \in 1..Len(requests) /\ requests'[n] = requests[n]
          \/ n = Len(requests) + 1 /\ requests'[n].timer = t
  BY <1>4
<1>10. Places'
  <2>1. \A m, n \in 1..Len(requests') : requests'[m].timer = requests'[n].timer => m = n
    BY <1>6, <1>9 DEF Places
  <2>2. \A n \in 1..Len(requests'), i \in Ring : \A p \in 1..Len(bucket[i]) :
            requests'[n].timer # bucket[i][p]
    BY <1>6, <1>9 DEF Places
  <2>3. \A n \in 1..Len(requests') : caller'[requests'[n].timer] \in {"requested", "nil"}
    BY <1>5, <1>6, <1>9 DEF Places
  <2>4. \A i \in Ring : \A p \in 1..Len(bucket[i]) :
            caller'[bucket[i][p]] \notin {"new", "executing"}
    BY <1>5, <1>6 DEF Places
  <2> QED
    BY <1>2, <2>1, <2>2, <2>3, <2>4 DEF Places
<1>11. Pasts'
  <2>1. \A n \in 1..Len(requests') :
            ~ timer[requests'[n].timer].started /\ cancel[requests'[n].timer] = "none"
    BY <1>2, <1>9 DEF Pasts
  <2>2. \A u \in Timers : caller'[u] = "new" => caller[u] = "new"
    BY <1>5
  <2> QED
    BY <1>2, <2>1, <2>2 DEF Pasts
<1>12. Cursors'
  BY <1>2 DEF Cursors, Holds, Before
<1>13. Timely'
  BY <1>2 DEF Timely, AtHead, DueAt, Holds
<1> QED
  BY <1>7, <1>8, <1>10, <1>11, <1>12, <1>13
(***************************************************************************)
(* The main loop takes a tick                                              *)
(***************************************************************************)
LEMMA Numbers ==
    ASSUME Types
    PROVE  /\ RingSize \in Nat /\ RingSize # 0 /\ RingSize \in Nat \ {0}
           /\ MaxLag \in Nat /\ MaxLag < RingSize
           /\ ticks \in Nat /\ MaxTick \in Nat
           /\ \A k \in Nat : k % RingSize \in Ring
<1>1. /\ RingSize \in Nat /\ RingSize # 0 /\ RingSize \in Nat \ {0}
      /\ MaxLag \in Nat /\ MaxLag < RingSize
      /\ ticks \in Nat /\ MaxTick \in Nat
  BY RingAssumption DEF Types
<1>2. ASSUME NEW k \in Nat PROVE k % RingSize \in Ring
  BY <1>1, Division DEF Ring
<1> QED
  BY <1>1, <1>2

\* The walk of the bucket of a tick that comes within a turn has ended, if all
\* the walks under way are at most `lag' ticks old.
LEMMA WalkEnded ==
    ASSUME Types, Recent, NEW k \in Nat, NEW lag \in Nat,
           \A i \in Ring : walk[i].phase # "none" => ticks - walk[i].tick <= lag,
           ticks < k, k - ticks + lag < RingSize
    PROVE  walk[k % RingSize].phase = "none"
<1> DEFINE i == k % RingSize
<1>1. i \in Ring
  BY Numbers
<1>2. SUFFICES ASSUME walk[i].phase # "none" PROVE FALSE
  OBVIOUS
<1>3. /\ walk[i].tick \in 1..ticks /\ walk[i].tick % RingSize = i
      /\ ticks - walk[i].tick <= lag
  BY <1>1, <1>2 DEF Recent
<1>4. walk[i].tick \in Nat /\ walk[i].tick < k /\ k < walk[i].tick + RingSize
  BY <1>3, Numbers
<1>5. walk[i].tick % RingSize # k % RingSize
  BY <1>4, Apart, Numbers
<1> QED
  BY <1>3, <1>5

LEMMA TakesTickInductive ==
    ASSUME IInv, TakesTick
    PROVE  IInv'
<1> USE DEF IInv
<1> DEFINE b == (ticks + 1) % RingSize
<1>1. /\ ticks < MaxTick /\ Prompt /\ ticks' = ticks + 1
      /\ walk' = [walk EXCEPT ![b] =
                    [phase |-> "front", cur |-> None, next |-> None, tick |-> ticks']]
      /\ UNCHANGED <<exact, done, requests, bucket, broken, timer, caller, cancel, loop, crashed,
                     level, pool, job>>
  BY DEF TakesTick, exvars
<1>2. ticks' \in Nat /\ ticks' \in 0..MaxTick /\ b \in Ring
  BY <1>1, Numbers
<1>3. walk[b].phase = "none"
  <2>1. \A i \in Ring : walk[i].phase # "none" => walk[i].tick \in Nat
    BY DEF Recent
  <2>2. \A i \in Ring : walk[i].phase # "none" => MaxLag > 0 /\ ticks - walk[i].tick <= MaxLag - 1
    BY <1>1, <2>1, Numbers DEF Prompt, Recent
  <2>3. CASE MaxLag = 0
    BY <1>2, <2>2, <2>3
  <2>4. CASE MaxLag > 0
    <3>1. MaxLag - 1 \in Nat /\ (ticks + 1) - ticks + (MaxLag - 1) < RingSize /\ ticks < ticks + 1
          /\ ticks + 1 \in Nat
      BY <2>4, Numbers
    <3> QED
      BY <2>2, <3>1, WalkEnded
  <2> QED
    BY <2>3, <2>4, Numbers
<1> HIDE DEF b
<1>4. /\ walk'[b] = [phase |-> "front", cur |-> None, next |-> None, tick |-> ticks']
      /\ \A i \in Ring : i # b => walk'[i] = walk[i]
      /\ walk' \in [Ring -> Walking]
  BY <1>1, <1>2 DEF Types, Walking, Phases
<1>5. Types'
  BY <1>1, <1>2, <1>4 DEF Types
<1>6. Recent'
  <2>1. SUFFICES ASSUME NEW i \in Ring, walk'[i].phase # "none"
                 PROVE  /\ walk'[i].tick \in 1..ticks' /\ walk'[i].tick % RingSize = i
                        /\ ticks' - walk'[i].tick <= MaxLag
    BY DEF Recent
  <2>2. CASE i = b
    BY <1>1, <1>2, <1>4, <2>2, Numbers DEF b
  <2>3. CASE i # b
    BY <1>1, <1>4, <2>1, <2>3, Numbers DEF Recent, Prompt
  <2> QED
    BY <2>2, <2>3
<1>7. Places'
  BY <1>1 DEF Places
<1>8. Pasts'
  BY <1>1 DEF Pasts
<1>9. \A p \in 1..Len(bucket[b]) : ~ timer[bucket[b][p]].started
  BY <1>2, <1>3 DEF Cursors
<1>10. Cursors'
  BY <1>1, <1>4, <1>9 DEF Cursors, Holds, Before, Active
<1>11. Timely'
  <2>1. SUFFICES ASSUME exact PROVE Timely'
    BY <1>1 DEF Timely
  <2>2. ASSUME NEW i \in Ring, NEW p \in 1..Len(bucket[i]), ~ timer[bucket[i][p]].started
        PROVE  DueAt(i, timer[bucket[i][p]].due)'
    <3> DEFINE due == timer[bucket[i][p]].due
    <3>1. DueAt(i, due) /\ due \in Nat
      BY <2>1, <2>2, Elements DEF Timely, Types, TimerTask
    <3>2. SUFFICES /\ due % RingSize = i
                   /\ IF walk'[i].phase = "none"
                         THEN due \in (ticks' + 1)..(ticks' + RingSize - 1)
                         ELSE due = walk'[i].tick
      BY <1>1 DEF DueAt
    <3> HIDE DEF due
    <3>3. ASSUME walk[i].phase = "none"
          PROVE  due % RingSize = i /\ ticks + 1 <= due /\ due <= ticks + RingSize - 1
      BY <3>1, <3>3, Numbers DEF DueAt
    <3>4. ticks \in Nat /\ RingSize \in Nat /\ ticks' = ticks + 1
      BY <1>1, Numbers
    <3>5. CASE i = b
      <4>1. due % RingSize = b /\ ticks + 1 <= due /\ due <= ticks + RingSize - 1
        BY <1>3, <3>3, <3>5
      <4>2. CASE ticks + 1 < due
        <5>1. ticks + 1 \in Nat /\ due < (ticks + 1) + RingSize
          BY <3>1, <3>4, <4>1
        <5>2. (ticks + 1) % RingSize # due % RingSize
          BY <3>1, <4>2, <5>1, Apart, Numbers
        <5> QED
          BY <4>1, <5>2 DEF b
      <4>3. CASE due = ticks + 1
        BY <1>1, <1>4, <3>5, <4>1, <4>3
      <4> QED
        BY <3>1, <4>1, <4>2, <4>3, Numbers
    <3>6. CASE i # b /\ walk[i].phase = "none"
      <4>1. due % RingSize = i /\ ticks + 1 <= due /\ due <= ticks + RingSize - 1
        BY <3>3, <3>6
      <4>2. due # ticks + 1
        BY <3>6, <4>1 DEF b
      <4>3. due \in (ticks' + 1)..(ticks' + RingSize - 1)
        BY <3>1, <3>4, <4>1, <4>2
      <4> QED
        BY <1>4, <3>6, <4>1, <4>3
    <3>7. CASE i # b /\ walk[i].phase # "none"
      BY <1>4, <3>1, <3>7 DEF DueAt
    <3> QED
      BY <3>5, <3>6, <3>7
  <2>3. \A i \in Ring : walk'[i].phase \in Active => AtHead(i)'
    BY <1>1, <1>4, <2>1 DEF Timely, Active, AtHead
  <2> QED
    BY <1>1, <2>1, <2>2, <2>3 DEF Timely, Holds
<1> QED
  BY <1>5, <1>6, <1>7, <1>8, <1>10, <1>11
(***************************************************************************)
(* The main loop takes a request                                           *)
(***************************************************************************)
\* With an Exact delay the timer goes to a bucket that no walk is in.
LEMMA NoRace ==
    ASSUME IInv, NEW t \in Timers, NEW secs, RequestIs(t, secs), Exact(secs)
    PROVE  walk[Offset(secs) % RingSize].phase = "none"
<1> USE DEF IInv
<1>1. secs \in Nat /\ secs >= 1 /\ secs + MaxLag < RingSize
  <2>1. requests \in Seq(Request) /\ requests # <<>>
    BY DEF RequestIs, Types
  <2>2. Head(requests) \in Request
    BY <2>1, HeadTailProperties
  <2>3. secs \in Nat
    BY <2>2 DEF RequestIs, Request
  <2> QED
    BY <2>3, Numbers DEF Exact
<1>2. ticks \in Nat /\ RingSize \in Nat \ {0} /\ MaxLag \in Nat
  BY Numbers
<1>3. Offset(secs) % RingSize = (ticks + secs) % RingSize
  BY <1>1, <1>2, Reduced DEF Offset
<1>4. ticks + secs \in Nat /\ ticks < ticks + secs /\ (ticks + secs) - ticks + MaxLag < RingSize
  BY <1>1, <1>2
<1> QED
  BY <1>2, <1>3, <1>4, WalkEnded DEF Recent

LEMMA TakesRequestInductive ==
    ASSUME IInv, NEW t \in Timers, NEW secs, TakesRequest(t, secs)
    PROVE  IInv'
<1> USE DEF IInv
<1>0. PICK off, b : off = Offset(secs) /\ b = off % RingSize
  OBVIOUS
<1>1. /\ requests # <<>> /\ Head(requests) = [timer |-> t, secs |-> secs]
      /\ requests' = Tail(requests)
      /\ timer' = [timer EXCEPT ![t] = newTimerTask(off \div RingSize, ticks + secs)]
      /\ exact' = (exact /\ Exact(secs))
      /\ Appended(b, t)
      /\ caller' = [caller EXCEPT ![t] = IF caller[t] = "requested" THEN "has" ELSE caller[t]]
      /\ UNCHANGED <<ticks, done, walk, cancel, loop, crashed, level, pool, job>>
  BY <1>0 DEF TakesRequest, RequestIs, exvars
<1>2. /\ Len(requests) \in Nat /\ Len(requests) >= 1
      /\ requests[1].timer = t /\ secs \in Nat
      /\ requests' \in Seq(Request) /\ Len(requests') = Len(requests) - 1
      /\ \A n \in 1..Len(requests') : n + 1 \in 2..Len(requests) /\ requests'[n] = requests[n + 1]
  <2>1. requests \in Seq(Request) /\ requests # <<>>
    BY <1>1 DEF Types
  <2>2. Head(requests) \in Request /\ requests[1] = Head(requests)
    BY <2>1, HeadTailProperties
  <2>3. /\ requests' \in Seq(Request) /\ Len(requests') = Len(requests) - 1
        /\ \A n \in 1..Len(requests') : requests'[n] = requests[n + 1]
    BY <1>1, <2>1, HeadTailProperties
  <2>4. Len(requests) \in Nat /\ Len(requests) >= 1
    BY <2>1, LenProperties, EmptySeq
  <2>5. secs \in Nat /\ requests[1].timer = t
    BY <1>1, <2>2 DEF Request
  <2> QED
    BY <2>3, <2>4, <2>5
<1>3. /\ off \in Nat /\ b \in Ring /\ off \div RingSize \in Nat
      /\ off <= secs + RingSize - 1
      /\ b = (ticks + secs) % RingSize
  <2>1. ticks % RingSize \in 0..(RingSize - 1) /\ RingSize \in Nat \ {0} /\ ticks \in Nat
    BY Numbers, Division
  <2>2. off = secs + (ticks % RingSize)
    BY <1>0 DEF Offset
  <2>3. off \in Nat /\ off <= secs + RingSize - 1
    BY <1>2, <2>1, <2>2
  <2>4. b \in Ring /\ off \div RingSize \in Nat
    BY <1>0, <2>1, <2>3, Numbers, Division
  <2>5. (secs + (ticks % RingSize)) % RingSize = (ticks + secs) % RingSize
    BY <1>2, <2>1, Reduced
  <2>6. b = (ticks + secs) % RingSize
    BY <1>0, <2>2, <2>5
  <2> QED
    BY <2>3, <2>4, <2>6
<1>16. /\ b \in Ring /\ off \div RingSize \in Nat
       /\ ticks \in Nat /\ secs \in Nat /\ ticks + secs \in Nat
  <2>1. ticks \in Nat
    BY Numbers
  <2>2. b \in Ring /\ off \div RingSize \in Nat
    BY <1>3
  <2>3. secs \in Nat
    BY <1>2
  <2> QED
    BY <2>1, <2>2, <2>3
<1>4. /\ timer' \in [Timers -> TimerTask]
      /\ ~ timer'[t].started /\ ~ timer'[t].cancelled /\ timer'[t].execs = 0
      /\ timer'[t].due = ticks + secs /\ timer'[t].fired = "not"
      /\ timer'[t].cycle = off \div RingSize
      /\ \A u \in Timers : u # t => timer'[u] = timer[u]
  <2>1. newTimerTask(off \div RingSize, ticks + secs) \in TimerTask
    BY <1>16 DEF newTimerTask, TimerTask
  <2> QED
    BY <1>1, <2>1 DEF Types, newTimerTask
<1>5. /\ ~ timer[t].started /\ cancel[t] = "none" /\ job[t] = "new"
      /\ caller[t] \in {"requested", "nil"}
  BY <1>2 DEF Pasts, Places
<1>6. /\ caller' \in [Timers -> {"new", "executing", "requested", "has", "nil", "panicked"}]
      /\ caller'[t] \in {"has", "nil"}
      /\ \A u \in Timers : u # t => caller'[u] = caller[u]
  BY <1>1, <1>5 DEF Types
<1>7. /\ \A n \in 1..Len(requests') : requests'[n].timer \in Timers \ {t}
      /\ \A i \in Ring : \A p \in 1..Len(bucket[i]) : bucket[i][p] \in Timers \ {t}
  <2>1. ASSUME NEW n \in 1..Len(requests') PROVE requests'[n].timer \in Timers \ {t}
    <3>1. n + 1 \in 1..Len(requests) /\ n + 1 # 1 /\ 1 \in 1..Len(requests)
      BY <1>2
    <3>2. requests[n + 1].timer # requests[1].timer
      BY <3>1 DEF Places
    <3> QED
      BY <1>2, <3>1, <3>2, Elements
  <2>2. ASSUME NEW i \in Ring, NEW p \in 1..Len(bucket[i]) PROVE bucket[i][p] \in Timers \ {t}
    <3>1. requests[1].timer # bucket[i][p]
      BY <1>2 DEF Places
    <3> QED
      BY <1>2, <3>1, Elements
  <2> QED
    BY <2>1, <2>2
<1>8. /\ bucket' \in [Ring -> Seq(Timers)] /\ broken' \in [Ring -> {"no", "length", "links"}]
      /\ \A i \in Ring : i # b => bucket'[i] = bucket[i] /\ broken'[i] = broken[i]
      /\ \A i \in Ring :
            /\ Len(bucket[i]) \in Nat /\ Len(bucket'[i]) \in Nat
            /\ Len(bucket[i]) <= Len(bucket'[i])
            /\ \A p \in 1..Len(bucket[i]) : bucket'[i][p] = bucket[i][p]
      /\ \A p \in 1..Len(bucket'[b]) :
            \/ p \in 1..Len(bucket[b])
            \/ p = Len(bucket[b]) + 1 /\ bucket'[b][p] = t
  <2>0. /\ broken' \in [Ring -> {"no", "length", "links"}]
        /\ \A i \in Ring : i # b => broken'[i] = broken[i]
    BY <1>1, <1>16 DEF Appended, Types
  <2>1. CASE bucket' = [bucket EXCEPT ![b] = Append(bucket[b], t)]
    <3>1. /\ bucket[b] \in Seq(Timers) /\ Append(bucket[b], t) \in Seq(Timers)
          /\ Len(Append(bucket[b], t)) = Len(bucket[b]) + 1
          /\ \A p \in 1..Len(bucket[b]) : Append(bucket[b], t)[p] = bucket[b][p]
          /\ Append(bucket[b], t)[Len(bucket[b]) + 1] = t
      BY <1>3, AppendProperties DEF Types
    <3>2. bucket'[b] = Append(bucket[b], t) /\ \A i \in Ring : i # b => bucket'[i] = bucket[i]
      BY <1>3, <2>1 DEF Types
    <3>3. bucket' \in [Ring -> Seq(Timers)]
      BY <1>3, <2>1, <3>1 DEF Types
    <3>4. \A i \in Ring : Len(bucket[i]) \in Nat
      BY Elements
    <3>6. ASSUME NEW i \in Ring
          PROVE  /\ Len(bucket'[i]) \in Nat /\ Len(bucket[i]) <= Len(bucket'[i])
                 /\ \A p \in 1..Len(bucket[i]) : bucket'[i][p] = bucket[i][p]
      <4>1. CASE i = b
        BY <3>1, <3>2, <3>4, <4>1, SMTT(30)
      <4>2. CASE i # b
        BY <3>2, <3>4, <4>2
      <4> QED
        BY <4>1, <4>2
    <3>7. \A p \in 1..Len(bucket'[b]) :
              \/ p \in 1..Len(bucket[b])
              \/ p = Len(bucket[b]) + 1 /\ bucket'[b][p] = t
      BY <1>16, <3>1, <3>2, <3>4
    <3> QED
      BY <2>0, <3>2, <3>3, <3>4, <3>6, <3>7
  <2>2. CASE UNCHANGED bucket
    <3>1. /\ bucket' \in [Ring -> Seq(Timers)]
          /\ \A i \in Ring : i # b => bucket'[i] = bucket[i]
      BY <1>3, <2>2 DEF Types
    <3>2. \A i \in Ring : Len(bucket[i]) \in Nat /\ bucket'[i] = bucket[i]
      BY <2>2, Elements
    <3>3. \A i \in Ring : Len(bucket[i]) <= Len(bucket'[i])
      BY <3>2
    <3> QED
      BY <1>16, <2>0, <3>1, <3>2, <3>3
  <2> QED
    BY <1>1, <2>1, <2>2 DEF Appended
<1>9. \A i \in Ring : \A p \in 1..Len(bucket'[i]) :
          \/ p \in 1..Len(bucket[i]) /\ bucket'[i][p] = bucket[i][p]
          \/ i = b /\ p = Len(bucket[b]) + 1 /\ bucket'[i][p] = t
  BY <1>8
<1>10. Types'
  <2>1. Len(requests') <= QueueCap
    BY <1>2, RingAssumption DEF Types
  <2>2. exact' \in BOOLEAN
    BY <1>1
  <2> QED
    BY <1>1, <1>2, <1>4, <1>6, <1>8, <2>1, <2>2 DEF Types
<1>11. Recent'
  BY <1>1 DEF Recent
<1>12. Places'
  <2>1. \A m, n \in 1..Len(requests') : requests'[m].timer = requests'[n].timer => m = n
    <3>1. SUFFICES ASSUME NEW m \in 1..Len(requests'), NEW n \in 1..Len(requests'),
                          requests'[m].timer = requests'[n].timer
                   PROVE  m = n
      OBVIOUS
    <3>0. m + 1 \in 1..Len(requests) /\ n + 1 \in 1..Len(requests)
      BY <1>2
    <3>2. requests[m + 1].timer = requests[n + 1].timer
      BY <1>2, <3>1
    <3>3. m + 1 = n + 1
      BY <3>0, <3>2 DEF Places
    <3> QED
      BY <3>3
  <2>2. \A i, j \in Ring : \A p \in 1..Len(bucket'[i]), q \in 1..Len(bucket'[j]) :
            bucket'[i][p] = bucket'[j][q] => i = j /\ p = q
    <3>1. SUFFICES ASSUME NEW i \in Ring, NEW j \in Ring,
                          NEW p \in 1..Len(bucket'[i]), NEW q \in 1..Len(bucket'[j]),
                          bucket'[i][p] = bucket'[j][q]
                   PROVE  i = j /\ p = q
      OBVIOUS
    <3>2. CASE p \in 1..Len(bucket[i]) /\ bucket'[i][p] = bucket[i][p]
      <4>1. q \in 1..Len(bucket[j]) /\ bucket'[j][q] = bucket[j][q]
        BY <1>7, <1>9, <3>1, <3>2
      <4>2. bucket[i][p] = bucket[j][q] /\ p \in 1..Len(bucket[i]) /\ q \in 1..Len(bucket[j])
        BY <3>1, <3>2, <4>1
      <4>3. \A k, l \in Ring : \A m \in 1..Len(bucket[k]), n \in 1..Len(bucket[l]) :
                bucket[k][m] = bucket[l][n] => k = l /\ m = n
        BY DEF Places
      <4> QED
        BY <4>2, <4>3
    <3>3. CASE i = b /\ p = Len(bucket[b]) + 1 /\ bucket'[i][p] = t
      <4>1. j = b /\ q = Len(bucket[b]) + 1
        BY <1>7, <1>9, <3>1, <3>3, SMTT(30)
      <4> QED
        BY <3>3, <4>1
    <3> QED
      BY <1>9, <3>2, <3>3
  <2>3. \A n \in 1..Len(requests') : n + 1 \in 1..Len(requests)
    BY <1>2
  <2>4. \A n \in 1..Len(requests'), i \in Ring : \A p \in 1..Len(bucket'[i]) :
            requests'[n].timer # bucket'[i][p]
    BY <1>2, <1>7, <1>9, <2>3, SMTT(30) DEF Places
  <2>5. \A n \in 1..Len(requests') : caller'[requests'[n].timer] \in {"requested", "nil"}
    BY <1>2, <1>6, <1>7, <2>3 DEF Places
  <2>6. \A i \in Ring : \A p \in 1..Len(bucket'[i]) :
            caller'[bucket'[i][p]] \notin {"new", "executing"}
    BY <1>6, <1>7, <1>9 DEF Places
  <2> QED
    BY <2>1, <2>2, <2>4, <2>5, <2>6 DEF Places
<1>13. Pasts'
  <2>1. \A n \in 1..Len(requests') : n + 1 \in 1..Len(requests)
    BY <1>2
  <2>2. \A n \in 1..Len(requests') :
            ~ timer'[requests'[n].timer].started /\ cancel'[requests'[n].timer] = "none"
    BY <1>1, <1>2, <1>4, <1>7, <2>1 DEF Pasts
  <2> QED
    BY <1>1, <1>4, <1>5, <1>6, <2>2 DEF Pasts
<1>14. Cursors'
  <2>1. \A i \in Ring : walk[i].phase \in Active => walk[i].cur \in Timers \ {t}
    BY <1>7 DEF Cursors, Holds
  <2>2. ASSUME NEW i \in Ring, NEW u, Holds(i, u)
        PROVE  Holds(i, u)'
    BY <1>8, <2>2 DEF Holds
  <2>3. ASSUME NEW i \in Ring, NEW u, NEW v, Before(i, u, v)
        PROVE  Before(i, u, v)'
    <3>1. PICK p, q \in 1..Len(bucket[i]) : p < q /\ bucket[i][p] = u /\ bucket[i][q] = v
      BY <2>3 DEF Before
    <3>2. p \in 1..Len(bucket'[i]) /\ q \in 1..Len(bucket'[i])
      BY <1>8
    <3>3. bucket'[i][p] = u /\ bucket'[i][q] = v
      BY <1>8, <3>1
    <3> QED
      BY <3>1, <3>2, <3>3 DEF Before
  <2>4. ASSUME NEW i \in Ring, walk[i].phase \in Active
        PROVE  /\ Holds(i, walk[i].cur)'
               /\ walk[i].next # None => Before(i, walk[i].cur, walk[i].next)'
    <3>1. Holds(i, walk[i].cur) /\ (walk[i].next # None => Before(i, walk[i].cur, walk[i].next))
      BY <2>4 DEF Cursors
    <3>2. walk' = walk
      BY <1>1
    <3>3. Holds(i, walk[i].cur)'
      BY <2>2, <3>1, <3>2 DEF Holds
    <3>4. walk[i].next # None => Before(i, walk[i].cur, walk[i].next)'
      <4>1. PICK u, v : u = walk[i].cur /\ v = walk[i].next
        OBVIOUS
      <4>2. v # None => Before(i, u, v)'
        BY <2>3, <3>1, <4>1
      <4> QED
        BY <3>2, <4>1, <4>2 DEF Before
    <3> QED
      BY <3>3, <3>4
  <2>5. ASSUME NEW i \in Ring
        PROVE  /\ walk[i].phase = "wait" => timer'[walk[i].cur].started
               /\ walk[i].phase = "remove" =>
                     timer'[walk[i].cur].started \/ timer'[walk[i].cur].cancelled
    BY <1>4, <2>1 DEF Cursors, Active
  <2>6. ASSUME NEW i \in Ring, NEW p \in 1..Len(bucket'[i]), timer'[bucket'[i][p]].started
        PROVE  walk[i].phase \in {"wait", "remove"} /\ walk[i].cur = bucket'[i][p]
    BY <1>4, <1>7, <1>9, <2>6 DEF Cursors
  <2> QED
    BY <1>1, <2>4, <2>5, <2>6 DEF Cursors
<1>15. Timely'
  <2>1. SUFFICES ASSUME exact, Exact(secs) PROVE Timely'
    BY <1>1 DEF Timely
  <2>2. /\ secs >= 1 /\ secs + MaxLag < RingSize
        /\ ticks \in Nat /\ RingSize \in Nat \ {0} /\ RingSize \in Nat /\ MaxLag \in Nat
    BY <1>2, <2>1, Numbers DEF Exact
  <2>3. walk[b].phase = "none"
    <3>1. RequestIs(t, secs)
      BY DEF TakesRequest
    <3> QED
      BY <1>0, <2>1, <3>1, NoRace
  <2>4. bucket' = [bucket EXCEPT ![b] = Append(bucket[b], t)] /\ UNCHANGED broken
    BY <1>1, <1>3, <2>1, <2>3 DEF Appended, RemovingLast, Timely
  <2>5. Holds(b, t)'
    <3>1. bucket'[b] = Append(bucket[b], t) /\ bucket[b] \in Seq(Timers)
      BY <1>3, <2>4 DEF Types
    <3>2. Len(bucket'[b]) = Len(bucket[b]) + 1 /\ bucket'[b][Len(bucket[b]) + 1] = t
      BY <3>1, AppendProperties
    <3>3. Len(bucket[b]) + 1 \in 1..Len(bucket'[b])
      BY <1>3, <1>8, <3>2
    <3> QED
      BY <3>2, <3>3 DEF Holds
  <2>6. timer'[t].cycle <= 1
    <3>1. off \in 0..(2 * RingSize - 1)
      BY <1>2, <1>3, <2>2
    <3> QED
      BY <1>4, <2>2, <3>1, OneCycle
  <2>7. DueAt(b, timer[t].due)'
    <3>1. ticks + secs \in (ticks + 1)..(ticks + RingSize - 1)
      BY <1>2, <2>2
    <3>2. timer'[t].due = ticks + secs /\ (ticks + secs) % RingSize = b
      BY <1>3, <1>4
    <3>3. ticks' = ticks /\ walk'[b].phase = "none"
      BY <1>1, <2>3
    <3>4. timer'[t].due % RingSize = b /\ timer'[t].due \in (ticks' + 1)..(ticks' + RingSize - 1)
      BY <3>1, <3>2, <3>3
    <3> QED
      BY <3>3, <3>4 DEF DueAt
  <2>8. ASSUME NEW i \in Ring, walk[i].phase \in Active
        PROVE  AtHead(i)'
    <3>1. i # b
      BY <2>3, <2>8 DEF Active
    <3> QED
      BY <1>1, <1>8, <2>1, <2>8, <3>1 DEF Timely, AtHead
  <2>9. ASSUME NEW i \in Ring, NEW p \in 1..Len(bucket'[i])
        PROVE  /\ timer'[bucket'[i][p]].cycle <= 1
               /\ ~ timer'[bucket'[i][p]].started => DueAt(i, timer[bucket[i][p]].due)'
    <3>1. CASE p \in 1..Len(bucket[i]) /\ bucket'[i][p] = bucket[i][p]
      <4>1. timer'[bucket'[i][p]] = timer[bucket[i][p]]
        BY <1>4, <1>7, <3>1
      <4>2. /\ timer[bucket[i][p]].cycle <= 1
            /\ ~ timer[bucket[i][p]].started => DueAt(i, timer[bucket[i][p]].due)
        BY <2>1, <3>1 DEF Timely
      <4>3. DueAt(i, timer[bucket[i][p]].due) => DueAt(i, timer[bucket[i][p]].due)'
        BY <1>1, <4>1 DEF DueAt
      <4> QED
        BY <4>1, <4>2, <4>3
    <3>2. CASE i = b /\ bucket'[i][p] = t
      <4>1. timer'[bucket'[i][p]].due = timer'[t].due /\ timer'[bucket'[i][p]].cycle <= 1
        BY <2>6, <3>2
      <4> QED
        BY <2>7, <3>2, <4>1 DEF DueAt
    <3> QED
      BY <1>9, <3>1, <3>2
  <2>10. ASSUME NEW u \in Timers
         PROVE  /\ timer'[u].fired \in {"not", "due"}
                /\ timer'[u].due > 0 /\ ~ timer'[u].cancelled => \E i \in Ring : Holds(i, u)'
    <3>1. CASE u = t
      BY <1>3, <1>4, <2>5, <3>1
    <3>2. CASE u # t
      <4>1. \A i \in Ring : Holds(i, u) => Holds(i, u)'
        BY <1>8 DEF Holds
      <4> QED
        BY <1>4, <2>1, <3>2, <4>1 DEF Timely
    <3> QED
      BY <3>1, <3>2
  <2> QED
    BY <1>1, <2>1, <2>4, <2>8, <2>9, <2>10 DEF Timely
<1> QED
  BY <1>10, <1>11, <1>12, <1>13, <1>14, <1>15
(***************************************************************************)
(* The walks                                                               *)
(***************************************************************************)
LEMMA PlaceOf ==
    ASSUME Types, NEW i \in Ring, NEW t, Holds(i, t)
    PROVE  /\ Place(i, t) \in 1..Len(bucket[i]) /\ bucket[i][Place(i, t)] = t
           /\ t \in Timers
<1>1. \E p \in 1..Len(bucket[i]) : bucket[i][p] = t
  BY DEF Holds
<1>2. Place(i, t) \in 1..Len(bucket[i]) /\ bucket[i][Place(i, t)] = t
  BY <1>1 DEF Place
<1> QED
  BY <1>2, Elements

LEMMA OnePlace ==
    ASSUME IInv, NEW i \in Ring, NEW p \in 1..Len(bucket[i])
    PROVE  Place(i, bucket[i][p]) = p
<1>1. Holds(i, bucket[i][p])
  BY DEF Holds
<1>2. Place(i, bucket[i][p]) \in 1..Len(bucket[i]) /\ bucket[i][Place(i, bucket[i][p])] = bucket[i][p]
  BY <1>1, PlaceOf DEF IInv
<1> QED
  BY <1>2 DEF IInv, Places

LEMMA AfterIs ==
    ASSUME IInv, NEW i \in Ring, NEW p \in 1..Len(bucket[i])
    PROVE  /\ After(i, bucket[i][p]) = IF p = Len(bucket[i]) THEN None ELSE bucket[i][p + 1]
           /\ After(i, bucket[i][p]) \in Timers \cup {None}
<1>1. After(i, bucket[i][p]) = IF p = Len(bucket[i]) THEN None ELSE bucket[i][p + 1]
  BY OnePlace DEF After
<1>2. CASE p = Len(bucket[i])
  BY <1>1, <1>2
<1>3. CASE p # Len(bucket[i])
  <2>1. p + 1 \in 1..Len(bucket[i])
    BY <1>3, Elements DEF IInv
  <2> QED
    BY <1>1, <1>3, <2>1, Elements DEF IInv
<1> QED
  BY <1>1, <1>2, <1>3

LEMMA TurnedTo ==
    ASSUME IInv, NEW i \in Ring, NEW p \in 1..Len(bucket[i]), Turned(i, bucket[i][p])
    PROVE  /\ walk' \in [Ring -> Walking]
           /\ \A j \in Ring : j # i => walk'[j] = walk[j]
           /\ walk'[i].phase = "ready" /\ walk'[i].cur = bucket[i][p]
           /\ walk'[i].tick = walk[i].tick
           /\ walk'[i].next = IF p = Len(bucket[i]) THEN None ELSE bucket[i][p + 1]
<1> DEFINE t == bucket[i][p]
           w == [phase |-> "ready", cur |-> t, next |-> After(i, t), tick |-> walk[i].tick]
<1>1. t \in Timers /\ t # None
  BY Elements, RingAssumption DEF IInv
<1>2. walk' = [walk EXCEPT ![i] = w]
  BY <1>1 DEF Turned
<1>3. After(i, t) = (IF p = Len(bucket[i]) THEN None ELSE bucket[i][p + 1])
      /\ After(i, t) \in Timers \cup {None}
  BY AfterIs
<1>4. walk[i] \in Walking
  BY DEF IInv, Types
<1>5. w \in Walking
  BY <1>1, <1>3, <1>4 DEF Walking, Phases
<1>6. w.phase = "ready" /\ w.cur = t /\ w.tick = walk[i].tick /\ w.next = After(i, t)
  OBVIOUS
<1> HIDE DEF w, t
<1>7. walk' \in [Ring -> Walking] /\ walk'[i] = w /\ \A j \in Ring : j # i => walk'[j] = walk[j]
  BY <1>2, <1>5 DEF IInv, Types
<1> QED
  BY <1>3, <1>6, <1>7 DEF t

LEMMA TurnedAway ==
    ASSUME Types, NEW i \in Ring, Turned(i, None)
    PROVE  /\ walk' \in [Ring -> Walking]
           /\ \A j \in Ring : j # i => walk'[j] = walk[j]
           /\ walk'[i].phase = "none"
<1>1. walk' = [walk EXCEPT ![i] = NoWalk]
  BY DEF Turned
<1>2. NoWalk \in Walking /\ NoWalk.phase = "none"
  BY DEF NoWalk, Walking, Phases
<1> HIDE DEF NoWalk
<1> QED
  BY <1>1, <1>2 DEF Types

LEMMA RecentKept ==
    ASSUME Recent, NEW i \in Ring, ticks' = ticks,
           \A j \in Ring : j # i => walk'[j] = walk[j],
           \/ walk'[i].phase = "none"
           \/ walk[i].phase # "none" /\ walk'[i].tick = walk[i].tick
    PROVE  Recent'
BY DEF Recent
\* What a walk holds on to when it has turned to the element at p.
LEMMA HeldThen ==
    ASSUME IInv, NEW i \in Ring, NEW p \in 1..Len(bucket[i]), Turned(i, bucket[i][p]),
           bucket' = bucket
    PROVE  /\ Holds(i, walk[i].cur)'
           /\ walk'[i].next # None => Before(i, walk[i].cur, walk[i].next)'
<1>1. /\ walk'[i].cur = bucket[i][p]
      /\ walk'[i].next = IF p = Len(bucket[i]) THEN None ELSE bucket[i][p + 1]
  BY TurnedTo
<1>2. Len(bucket[i]) \in Nat
  BY Elements DEF IInv
<1>3. CASE p = Len(bucket[i])
  BY <1>1, <1>3 DEF Holds
<1>4. CASE p # Len(bucket[i])
  <2>1. p + 1 \in 1..Len(bucket[i]) /\ p < p + 1
    BY <1>2, <1>4
  <2> QED
    BY <1>1, <1>4, <2>1 DEF Holds, Before
<1> QED
  BY <1>3, <1>4

LEMMA WalkBeginsInductive ==
    ASSUME IInv, NEW i \in Ring, WalkBegins(i)
    PROVE  IInv'
<1> USE DEF IInv
<1>1. /\ walk[i].phase = "front"
      /\ \/ Turned(i, IF bucket[i] = <<>> THEN None ELSE Head(bucket[i]))
         \/ broken[i] # "no" /\ Turned(i, None)
      /\ crashed' \in BOOLEAN
      /\ UNCHANGED <<exact, ticks, done, requests, bucket, broken, timer, caller, cancel, loop,
                     level, pool, job>>
  BY DEF WalkBegins, exvars, Types
<1>2. \A p \in 1..Len(bucket[i]) : ~ timer[bucket[i][p]].started
  BY <1>1 DEF Cursors
<1>3. /\ walk' \in [Ring -> Walking]
      /\ \A j \in Ring : j # i => walk'[j] = walk[j]
      /\ \/ walk'[i].phase = "none" /\ (Len(bucket[i]) = 0 \/ broken[i] # "no")
         \/ /\ 1 \in 1..Len(bucket[i]) /\ Turned(i, bucket[i][1])
            /\ walk'[i].phase = "ready" /\ walk'[i].cur = bucket[i][1]
            /\ walk'[i].tick = walk[i].tick
            /\ walk'[i].next = IF 1 = Len(bucket[i]) THEN None ELSE bucket[i][1 + 1]
  <2>1. CASE bucket[i] = <<>>
    <3>1. Len(bucket[i]) = 0 /\ Turned(i, None)
      BY <1>1, <2>1, EmptySeq
    <3> QED
      BY <3>1, TurnedAway
  <2>3. CASE broken[i] # "no" /\ Turned(i, None)
    BY <2>3, TurnedAway
  <2>2. CASE bucket[i] # <<>> /\ ~ (broken[i] # "no" /\ Turned(i, None))
    <3>1. bucket[i] \in Seq(Timers) /\ Len(bucket[i]) \in Nat
      BY Elements
    <3>2. Head(bucket[i]) = bucket[i][1] /\ Len(bucket[i]) # 0
      BY <2>2, <3>1, HeadTailProperties, EmptySeq
    <3>3. 1 \in 1..Len(bucket[i]) /\ Turned(i, bucket[i][1])
      BY <1>1, <2>2, <3>1, <3>2
    <3> QED
      BY <3>3, TurnedTo
  <2> QED
    BY <2>1, <2>2, <2>3
<1>4. Types'
  BY <1>1, <1>3 DEF Types
<1>5. Recent'
  BY <1>1, <1>3, RecentKept
<1>6. Places'
  BY <1>1 DEF Places
<1>7. Pasts'
  BY <1>1 DEF Pasts
<1>8. Cursors'
  <2>1. ASSUME NEW j \in Ring, j # i
        PROVE  /\ walk'[j].phase \in Active =>
                     /\ Holds(j, walk[j].cur)'
                     /\ walk'[j].next # None => Before(j, walk[j].cur, walk[j].next)'
               /\ walk'[j].phase = "wait" => timer'[walk'[j].cur].started
               /\ walk'[j].phase = "remove" =>
                     timer'[walk'[j].cur].started \/ timer'[walk'[j].cur].cancelled
               /\ \A p \in 1..Len(bucket'[j]) : timer'[bucket'[j][p]].started =>
                     walk'[j].phase \in {"wait", "remove"} /\ walk'[j].cur = bucket'[j][p]
    BY <1>1, <1>3, <2>1, SMTT(30) DEF Cursors, Holds, Before
  <2>2. walk'[i].phase \in Active =>
            /\ Holds(i, walk[i].cur)'
            /\ walk'[i].next # None => Before(i, walk[i].cur, walk[i].next)'
    BY <1>1, <1>3, HeldThen DEF Active
  <2>3. \A p \in 1..Len(bucket'[i]) : ~ timer'[bucket'[i][p]].started
    BY <1>1, <1>2
  <2>4. walk'[i].phase \notin {"wait", "remove"}
    BY <1>3
  <2> QED
    BY <2>1, <2>2, <2>3, <2>4 DEF Cursors
<1>9. Timely'
  <2>1. SUFFICES ASSUME exact PROVE Timely'
    BY <1>1 DEF Timely
  <2>2. \A j \in Ring : walk'[j].phase \in Active => AtHead(j)'
    <3>1. ASSUME NEW j \in Ring, j # i, walk'[j].phase \in Active PROVE AtHead(j)'
      BY <1>1, <1>3, <2>1, <3>1 DEF Timely, AtHead
    <3>2. ASSUME walk'[i].phase \in Active PROVE AtHead(i)'
      BY <1>1, <1>3, <3>2 DEF AtHead, Active
    <3> QED
      BY <3>1, <3>2
  <2>3. ASSUME NEW j \in Ring, NEW p \in 1..Len(bucket[j]), ~ timer[bucket[j][p]].started
        PROVE  DueAt(j, timer[bucket[j][p]].due)'
    <3>1. DueAt(j, timer[bucket[j][p]].due)
      BY <2>1, <2>3 DEF Timely
    <3>2. CASE j # i
      BY <1>1, <1>3, <3>1, <3>2 DEF DueAt
    <3>3. CASE j = i
      <4>1. walk'[i].phase = "ready" /\ walk'[i].tick = walk[i].tick
        BY <1>3, <2>1, <2>3, <3>3 DEF Timely
      <4> QED
        BY <1>1, <3>1, <3>3, <4>1 DEF DueAt
    <3> QED
      BY <3>2, <3>3
  <2> QED
    BY <1>1, <2>1, <2>2, <2>3 DEF Timely, Holds
<1> QED
  BY <1>4, <1>5, <1>6, <1>7, <1>8, <1>9
\* A walk goes on with the element that it holds, and disposes of no timer.
LEMMA GoesOn ==
    ASSUME IInv, Types', NEW i \in Ring,
           UNCHANGED <<exact, ticks, requests, bucket, broken, caller, cancel, job>>,
           \A j \in Ring : j # i => walk'[j] = walk[j],
           walk[i].phase \in Active, walk'[i].phase \in Active,
           walk'[i].cur = walk[i].cur, walk'[i].next = walk[i].next,
           walk'[i].tick = walk[i].tick,
           walk'[i].phase = "wait" => timer[walk[i].cur].started,
           walk'[i].phase = "remove" => timer[walk[i].cur].started \/ timer[walk[i].cur].cancelled,
           timer[walk[i].cur].started => walk'[i].phase \in {"wait", "remove"},
           \A u \in Timers :
              /\ timer'[u].started = timer[u].started /\ timer'[u].cancelled = timer[u].cancelled
              /\ timer'[u].execs = timer[u].execs /\ timer'[u].due = timer[u].due
              /\ timer'[u].fired = timer[u].fired
              /\ timer[u].cycle <= 1 => timer'[u].cycle <= 1
    PROVE  IInv'
<1> USE DEF IInv
<1>1. Recent'
  BY RecentKept DEF Active
<1>2. Places'
  BY DEF Places
<1>3. /\ \A n \in 1..Len(requests) : requests[n].timer \in Timers
      /\ \A j \in Ring : \A p \in 1..Len(bucket[j]) : bucket[j][p] \in Timers
  BY Elements
<1>4. Pasts'
  BY <1>3 DEF Pasts
<1>5. Cursors'
  <2>1. \A j \in Ring : walk[j].phase \in Active => walk[j].cur \in Timers
    BY <1>3 DEF Cursors, Holds
  <2>2. ASSUME NEW j \in Ring, walk'[j].phase \in Active
        PROVE  /\ Holds(j, walk[j].cur)'
               /\ walk'[j].next # None => Before(j, walk[j].cur, walk[j].next)'
    BY <2>2 DEF Cursors, Holds, Before
  <2>3. ASSUME NEW j \in Ring
        PROVE  /\ walk'[j].phase = "wait" => timer'[walk'[j].cur].started
               /\ walk'[j].phase = "remove" =>
                     timer'[walk'[j].cur].started \/ timer'[walk'[j].cur].cancelled
    BY <2>1 DEF Cursors, Active
  <2>4. ASSUME NEW j \in Ring, NEW p \in 1..Len(bucket[j]), timer'[bucket[j][p]].started
        PROVE  walk'[j].phase \in {"wait", "remove"} /\ walk'[j].cur = bucket[j][p]
    <3>1. walk[j].cur = bucket[j][p] /\ walk[j].phase \in {"wait", "remove"}
      BY <1>3, <2>4 DEF Cursors
    <3>2. timer[walk[j].cur].started
      BY <1>3, <2>4, <3>1
    <3> QED
      BY <3>1, <3>2
  <2> QED
    BY <2>2, <2>3, <2>4 DEF Cursors
<1>6. Timely'
  <2>1. SUFFICES ASSUME exact PROVE Timely'
    BY DEF Timely
  <2>2. \A j \in Ring : walk'[j].phase \in Active => AtHead(j)'
    BY <2>1 DEF Timely, AtHead
  <2>3. ASSUME NEW j \in Ring, NEW p \in 1..Len(bucket[j])
        PROVE  /\ timer'[bucket[j][p]].cycle <= 1
               /\ ~ timer'[bucket[j][p]].started => DueAt(j, timer[bucket[j][p]].due)'
    <3>1. /\ timer[bucket[j][p]].cycle <= 1
          /\ ~ timer[bucket[j][p]].started => DueAt(j, timer[bucket[j][p]].due)
      BY <2>1, <2>3 DEF Timely
    <3>2. DueAt(j, timer[bucket[j][p]].due) => DueAt(j, timer[bucket[j][p]].due)'
      BY <1>3 DEF DueAt, Active
    <3> QED
      BY <1>3, <3>1, <3>2
  <2>4. ASSUME NEW u \in Timers
        PROVE  /\ timer'[u].fired \in {"not", "due"}
               /\ timer'[u].due > 0 /\ ~ timer'[u].cancelled => \E j \in Ring : Holds(j, u)'
    BY <2>1 DEF Timely, Holds
  <2> QED
    BY <2>1, <2>2, <2>3, <2>4 DEF Timely
<1> QED
  BY <1>1, <1>2, <1>4, <1>5, <1>6

\* A timer that a walk holds, and is not yet done with, was not started.
LEMMA NotStarted ==
    ASSUME IInv, NEW i \in Ring, walk[i].phase \in {"ready", "dispose"}
    PROVE  walk[i].cur \in Timers /\ ~ timer[walk[i].cur].started
<1>1. PICK p \in 1..Len(bucket[i]) : bucket[i][p] = walk[i].cur
  BY DEF IInv, Cursors, Active, Holds
<1> QED
  BY <1>1, Elements DEF IInv, Cursors

LEMMA CycleSet ==
    ASSUME NEW task \in TimerTask, NEW c \in Int
    PROVE  [task EXCEPT !.cycle = c] \in TimerTask
BY DEF TimerTask

LEMMA WalkReadyInductive ==
    ASSUME IInv, NEW i \in Ring, WalkReady(i)
    PROVE  IInv'
<1> USE DEF IInv
<1> DEFINE t == walk[i].cur
<1>1. /\ walk[i].phase = "ready" /\ walk' = [walk EXCEPT ![i].phase = "dispose"]
      /\ \/ UNCHANGED timer
         \/ timer' = [timer EXCEPT ![t].cycle = timer[t].cycle - 1]
      /\ UNCHANGED <<exact, ticks, done, requests, bucket, broken, caller, cancel, loop, crashed,
                     level, pool, job>>
  BY DEF WalkReady, Phase, exvars
<1>2. t \in Timers /\ ~ timer[t].started
  BY <1>1, NotStarted
<1>3. /\ walk' \in [Ring -> Walking] /\ \A j \in Ring : j # i => walk'[j] = walk[j]
      /\ walk'[i].phase = "dispose" /\ walk'[i].cur = walk[i].cur
      /\ walk'[i].next = walk[i].next /\ walk'[i].tick = walk[i].tick
  <2>1. walk[i] \in Walking /\ walk \in [Ring -> Walking]
    BY DEF Types
  <2>2. walk' = [walk EXCEPT ![i] = [walk[i] EXCEPT !.phase = "dispose"]]
    BY <1>1
  <2>3. [walk[i] EXCEPT !.phase = "dispose"] \in Walking
    BY <2>1 DEF Walking, Phases
  <2> QED
    BY <2>1, <2>2, <2>3 DEF Walking
<1>4. /\ timer' \in [Timers -> TimerTask]
      /\ \A u \in Timers :
              /\ timer'[u].started = timer[u].started /\ timer'[u].cancelled = timer[u].cancelled
              /\ timer'[u].execs = timer[u].execs /\ timer'[u].due = timer[u].due
              /\ timer'[u].fired = timer[u].fired
              /\ timer[u].cycle <= 1 => timer'[u].cycle <= 1
  <2>1. CASE UNCHANGED timer
    BY <2>1 DEF Types
  <2>2. CASE timer' = [timer EXCEPT ![t].cycle = timer[t].cycle - 1]
    <3>1. timer[t].cycle \in Int
      BY <1>2 DEF Types, TimerTask
    <3>2. timer' \in [Timers -> TimerTask]
      <4>1. [timer[t] EXCEPT !.cycle = timer[t].cycle - 1] \in TimerTask
        <5>1. timer[t] \in TimerTask /\ timer[t].cycle - 1 \in Int
          BY <1>2, <3>1 DEF Types
        <5> QED
          BY <5>1, CycleSet
      <4>2. timer' = [timer EXCEPT ![t] = [timer[t] EXCEPT !.cycle = timer[t].cycle - 1]]
        BY <2>2
      <4> QED
        BY <4>1, <4>2 DEF Types
    <3>3. \A u \in Timers : u # t => timer'[u] = timer[u]
      BY <2>2 DEF Types
    <3>4. /\ timer'[t].started = timer[t].started /\ timer'[t].cancelled = timer[t].cancelled
          /\ timer'[t].execs = timer[t].execs /\ timer'[t].due = timer[t].due
          /\ timer'[t].fired = timer[t].fired /\ timer'[t].cycle = timer[t].cycle - 1
      BY <1>2, <2>2 DEF Types, TimerTask
    <3>5. timer[t].cycle <= 1 => timer'[t].cycle <= 1
      BY <3>1, <3>4
    <3> QED
      BY <3>2, <3>3, <3>4, <3>5
  <2> QED
    BY <1>1, <2>1, <2>2
<1>5. Types'
  BY <1>1, <1>3, <1>4 DEF Types
<1>6. walk[i].phase \in Active /\ walk'[i].phase \in Active
      /\ walk'[i].phase # "wait" /\ walk'[i].phase # "remove"
  BY <1>1, <1>3 DEF Active
<1> QED
  BY <1>1, <1>2, <1>3, <1>4, <1>5, <1>6, GoesOn

LEMMA WalkHasExecutedInductive ==
    ASSUME IInv, NEW i \in Ring, WalkHasExecuted(i)
    PROVE  IInv'
<1> USE DEF IInv
<1>1. /\ walk[i].phase = "wait" /\ walk' = [walk EXCEPT ![i].phase = "remove"]
      /\ crashed' \in BOOLEAN
      /\ UNCHANGED <<exact, ticks, done, requests, bucket, broken, timer, caller, cancel, loop,
                     level, pool, job>>
  BY DEF WalkHasExecuted, Phase, exvars
<1>2. /\ walk' \in [Ring -> Walking] /\ \A j \in Ring : j # i => walk'[j] = walk[j]
      /\ walk'[i].phase = "remove" /\ walk'[i].cur = walk[i].cur
      /\ walk'[i].next = walk[i].next /\ walk'[i].tick = walk[i].tick
  BY <1>1 DEF Types, Walking, Phases
<1>3. Types'
  BY <1>1, <1>2 DEF Types
<1>4. timer[walk[i].cur].started
  BY <1>1 DEF Cursors
<1>5. walk[i].phase \in Active /\ walk'[i].phase \in Active
  BY <1>1, <1>2 DEF Active
<1>6. \A u \in Timers : timer'[u] = timer[u]
  BY <1>1
<1> QED
  BY <1>1, <1>2, <1>3, <1>4, <1>5, <1>6, GoesOn
LEMMA WalkDisposesInductive ==
    ASSUME IInv, NEW i \in Ring, WalkDisposes(i)
    PROVE  IInv'
<1> USE DEF IInv
<1>0. PICK t : t = walk[i].cur
  OBVIOUS
<1>1. /\ walk[i].phase = "dispose" /\ Disposed(t, walk[i].tick)
      /\ walk' = [walk EXCEPT ![i].phase = IF timer'[t].started THEN "wait" ELSE "remove"]
      /\ UNCHANGED <<exact, ticks, done, requests, bucket, broken, caller, cancel, loop, crashed>>
  BY <1>0 DEF WalkDisposes
<1>2. t \in Timers /\ ~ timer[t].started /\ walk[i].tick \in Nat
  <2>1. walk[i].tick \in Nat
    BY DEF Types, Walking
  <2> QED
    BY <1>0, <1>1, <2>1, NotStarted
<1>3. /\ walk' \in [Ring -> Walking] /\ \A j \in Ring : j # i => walk'[j] = walk[j]
      /\ walk'[i].phase = IF timer'[t].started THEN "wait" ELSE "remove"
      /\ walk'[i].cur = t
      /\ walk'[i].next = walk[i].next /\ walk'[i].tick = walk[i].tick
  BY <1>0, <1>1 DEF Types, Walking, Phases
<1>4. CASE timer[t].cancelled
  <2>1. UNCHANGED <<timer, level, pool, job>>
    BY <1>1, <1>2, <1>4 DEF Disposed, Executed, exvars
  <2>2. Types'
    BY <1>1, <1>3, <2>1 DEF Types
  <2>3. walk[i].phase \in Active /\ walk'[i].phase = "remove" /\ walk'[i].phase \in Active
    BY <1>1, <1>2, <1>3, <2>1 DEF Active
  <2>4. \A u \in Timers : timer'[u] = timer[u]
    BY <2>1
  <2> QED
    BY <1>0, <1>1, <1>2, <1>3, <1>4, <2>1, <2>2, <2>3, <2>4, GoesOn
<1>5. CASE ~ timer[t].cancelled
  <2>1. /\ timer' \in [Timers -> TimerTask]
        /\ \A u \in Timers : u # t => timer'[u] = timer[u] /\ job'[u] = job[u]
        /\ timer'[t].started /\ ~ timer'[t].cancelled
        /\ timer'[t].execs = 1 /\ timer'[t].due = 0 /\ timer'[t].cycle = timer[t].cycle
        /\ walk[i].tick = timer[t].due => timer'[t].fired = "due"
        /\ job' \in [Timers -> {"new", "waiting", "refused", "running", "lost", "leaving", "finished"}]
        /\ job'[t] # "new"
        /\ UNCHANGED <<level, pool>>
    <3>1. timer[t].due \in Nat
      BY <1>2 DEF Types, TimerTask
    <3> QED
      BY <1>1, <1>2, <1>5, <3>1, Handed
  <2>2. walk'[i].phase = "wait"
    BY <1>3, <2>1
  <2>3. Types'
    BY <1>1, <1>3, <2>1 DEF Types
  <2>4. Recent'
    BY <1>1, <1>3, RecentKept
  <2>5. Places'
    BY <1>1 DEF Places
  <2>6. PICK p \in 1..Len(bucket[i]) : bucket[i][p] = t
    BY <1>0, <1>1 DEF Cursors, Active, Holds
  <2>7. /\ \A n \in 1..Len(requests) : requests[n].timer \in Timers \ {t}
        /\ \A j \in Ring : \A q \in 1..Len(bucket[j]) :
              /\ bucket[j][q] \in Timers
              /\ bucket[j][q] = t => j = i /\ q = p
        /\ caller[t] # "new"
    BY <2>6, Elements DEF Places
  <2>8. Pasts'
    <3>1. cancel[t] # "true" /\ cancel[t] # "false"
      BY <1>2, <1>5 DEF Pasts
    <3>2. \A n \in 1..Len(requests) :
              ~ timer'[requests[n].timer].started /\ cancel[requests[n].timer] = "none"
      BY <2>1, <2>7 DEF Pasts
    <3>3. ASSUME NEW u \in Timers
          PROVE  /\ timer'[u].execs = IF timer'[u].started THEN 1 ELSE 0
                 /\ timer'[u].started <=> job'[u] # "new"
                 /\ timer'[u].started => ~ timer'[u].cancelled /\ timer'[u].due = 0
                 /\ cancel[u] = "true" => timer'[u].cancelled
                 /\ cancel[u] = "false" => timer'[u].started
                 /\ caller[u] = "new" =>
                       ~ timer'[u].started /\ ~ timer'[u].cancelled /\ cancel[u] = "none"
      <4>1. CASE u = t
        BY <2>1, <2>7, <3>1, <4>1
      <4>2. CASE u # t
        BY <2>1, <4>2 DEF Pasts
      <4> QED
        BY <4>1, <4>2
    <3> QED
      BY <1>1, <3>2, <3>3 DEF Pasts
  <2>9. Cursors'
    <3>1. ASSUME NEW j \in Ring, walk'[j].phase \in Active
          PROVE  /\ Holds(j, walk[j].cur)'
                 /\ walk'[j].next # None => Before(j, walk[j].cur, walk[j].next)'
      <4>1. walk[j].phase \in Active /\ walk'[j].cur = walk[j].cur /\ walk'[j].next = walk[j].next
        BY <1>0, <1>1, <1>3, <3>1 DEF Active
      <4> QED
        BY <1>1, <4>1 DEF Cursors, Holds, Before
    <3>2. ASSUME NEW j \in Ring
          PROVE  /\ walk'[j].phase = "wait" => timer'[walk'[j].cur].started
                 /\ walk'[j].phase = "remove" =>
                       timer'[walk'[j].cur].started \/ timer'[walk'[j].cur].cancelled
      <4>1. CASE j = i
        BY <1>3, <2>1, <2>2, <4>1
      <4>2. CASE j # i
        <5>1. walk[j].phase \in Active => walk[j].cur \in Timers /\ walk[j].cur # t
          BY <2>7, <4>2 DEF Cursors, Holds
        <5> QED
          BY <1>3, <2>1, <4>2, <5>1 DEF Cursors, Active
      <4> QED
        BY <4>1, <4>2
    <3>3. ASSUME NEW j \in Ring, NEW q \in 1..Len(bucket[j]), timer'[bucket[j][q]].started
          PROVE  walk'[j].phase \in {"wait", "remove"} /\ walk'[j].cur = bucket[j][q]
      <4>1. CASE bucket[j][q] = t
        BY <1>3, <2>2, <2>7, <4>1
      <4>2. CASE bucket[j][q] # t
        <5>1. timer[bucket[j][q]].started
          BY <2>1, <2>7, <3>3, <4>2
        <5>2. walk[j].phase \in {"wait", "remove"} /\ walk[j].cur = bucket[j][q]
          BY <5>1 DEF Cursors
        <5> QED
          BY <1>1, <1>3, <5>2
      <4> QED
        BY <4>1, <4>2
    <3> QED
      BY <1>1, <3>1, <3>2, <3>3 DEF Cursors
  <2>10. Timely'
    <3>1. SUFFICES ASSUME exact PROVE Timely'
      BY <1>1 DEF Timely
    <3>2. \A j \in Ring : walk'[j].phase \in Active => AtHead(j)'
      BY <1>0, <1>1, <1>3, <3>1 DEF Timely, AtHead, Active
    <3>3. ASSUME NEW j \in Ring, NEW q \in 1..Len(bucket[j])
          PROVE  /\ timer'[bucket[j][q]].cycle <= 1
                 /\ ~ timer'[bucket[j][q]].started => DueAt(j, timer[bucket[j][q]].due)'
      <4>1. /\ timer[bucket[j][q]].cycle <= 1
            /\ ~ timer[bucket[j][q]].started => DueAt(j, timer[bucket[j][q]].due)
        BY <3>1, <3>3 DEF Timely
      <4>2. CASE bucket[j][q] = t
        BY <2>1, <4>1, <4>2
      <4>3. CASE bucket[j][q] # t
        <5>1. timer'[bucket[j][q]] = timer[bucket[j][q]]
          BY <2>1, <2>7, <4>3
        <5>2. DueAt(j, timer[bucket[j][q]].due) => DueAt(j, timer[bucket[j][q]].due)'
          BY <1>1, <1>3, <2>2, <5>1 DEF DueAt
        <5> QED
          BY <4>1, <5>1, <5>2
      <4> QED
        BY <4>2, <4>3
    <3>4. walk[i].tick = timer[t].due
      BY <1>1, <1>2, <2>6, <3>1 DEF Timely, DueAt
    <3>5. ASSUME NEW u \in Timers
          PROVE  /\ timer'[u].fired \in {"not", "due"}
                 /\ timer'[u].due > 0 /\ ~ timer'[u].cancelled => \E j \in Ring : Holds(j, u)'
      <4>1. CASE u = t
        BY <2>1, <3>4, <4>1
      <4>2. CASE u # t
        BY <1>1, <2>1, <3>1, <4>2 DEF Timely, Holds
      <4> QED
        BY <4>1, <4>2
    <3> QED
      BY <1>1, <3>1, <3>2, <3>3, <3>5 DEF Timely
  <2> QED
    BY <2>3, <2>4, <2>5, <2>8, <2>9, <2>10
<1> QED
  BY <1>4, <1>5
\* What a walk holds as its next element comes after the current one.
LEMMA NextPlace ==
    ASSUME IInv, NEW i \in Ring, walk[i].phase \in Active, walk[i].next # None
    PROVE  \E p, q \in 1..Len(bucket[i]) :
              /\ p < q
              /\ bucket[i][p] = walk[i].cur /\ bucket[i][q] = walk[i].next
BY DEF IInv, Cursors, Before

LEMMA WalkNotReadyInductive ==
    ASSUME IInv, NEW i \in Ring, WalkNotReady(i)
    PROVE  IInv'
<1> USE DEF IInv
<1>0. PICK t : t = walk[i].cur
  OBVIOUS
<1>1. /\ walk[i].phase = "ready" /\ Turned(i, walk[i].next)
      /\ timer[t].cycle - 1 > 0
      /\ timer' = [timer EXCEPT ![t].cycle = timer[t].cycle - 1]
      /\ UNCHANGED <<exact, ticks, done, requests, bucket, broken, caller, cancel, loop, crashed,
                     level, pool, job>>
  BY <1>0 DEF WalkNotReady, exvars
<1>2. t \in Timers /\ ~ timer[t].started
  BY <1>0, <1>1, NotStarted
<1>3. timer[t] \in TimerTask /\ timer[t].cycle \in Int /\ timer[t].cycle - 1 \in Int
  <2>1. timer[t] \in TimerTask
    BY <1>2 DEF Types
  <2>2. timer[t].cycle \in Int
    BY <2>1 DEF TimerTask
  <2> QED
    BY <2>1, <2>2
<1>4. timer' \in [Timers -> TimerTask]
  <2>1. timer' = [timer EXCEPT ![t] = [timer[t] EXCEPT !.cycle = timer[t].cycle - 1]]
    BY <1>1
  <2> QED
    BY <1>3, <2>1, CycleSet DEF Types
<1>5. \A u \in Timers :
          /\ timer'[u].started = timer[u].started /\ timer'[u].cancelled = timer[u].cancelled
          /\ timer'[u].execs = timer[u].execs /\ timer'[u].due = timer[u].due
          /\ timer'[u].fired = timer[u].fired
  BY <1>1, <1>2 DEF Types, TimerTask
\* With Exact delays a timer has one cycle at most, and is ready.
<1>6. ~ exact
  <2>1. SUFFICES ASSUME exact PROVE FALSE
    OBVIOUS
  <2>2. PICK p \in 1..Len(bucket[i]) : bucket[i][p] = t
    BY <1>0, <1>1 DEF Cursors, Active, Holds
  <2>3. timer[t].cycle <= 1
    BY <2>1, <2>2 DEF Timely
  <2> QED
    BY <1>1, <1>3, <2>3
<1>7. /\ walk' \in [Ring -> Walking] /\ \A j \in Ring : j # i => walk'[j] = walk[j]
      /\ \/ walk'[i].phase = "none"
         \/ /\ walk'[i].phase = "ready" /\ walk'[i].tick = walk[i].tick
            /\ Holds(i, walk[i].cur)'
            /\ walk'[i].next # None => Before(i, walk[i].cur, walk[i].next)'
  <2>1. CASE walk[i].next = None
    BY <1>1, <2>1, TurnedAway
  <2>2. CASE walk[i].next # None
    <3>1. PICK q \in 1..Len(bucket[i]) : bucket[i][q] = walk[i].next
      BY <1>1, <2>2, NextPlace DEF Active
    <3>2. Turned(i, bucket[i][q]) /\ bucket' = bucket
      BY <1>1, <3>1
    <3> QED
      BY <3>2, TurnedTo, HeldThen
  <2> QED
    BY <2>1, <2>2
<1>8. Types'
  BY <1>1, <1>4, <1>7 DEF Types
<1>9. Recent'
  BY <1>1, <1>7, RecentKept
<1>10. Places'
  BY <1>1 DEF Places
<1>11. /\ \A n \in 1..Len(requests) : requests[n].timer \in Timers
       /\ \A j \in Ring : \A p \in 1..Len(bucket[j]) : bucket[j][p] \in Timers
  BY Elements
<1>12. Pasts'
  BY <1>1, <1>5, <1>11 DEF Pasts
<1>13. Cursors'
  <2>1. \A j \in Ring : walk[j].phase \in Active => walk[j].cur \in Timers
    BY <1>11 DEF Cursors, Holds
  <2>2. \A p \in 1..Len(bucket[i]) : ~ timer[bucket[i][p]].started
    BY <1>1 DEF Cursors
  <2>3. ASSUME NEW j \in Ring, walk'[j].phase \in Active
        PROVE  /\ Holds(j, walk[j].cur)'
               /\ walk'[j].next # None => Before(j, walk[j].cur, walk[j].next)'
    <3>1. CASE j = i
      BY <1>7, <2>3, <3>1 DEF Active
    <3>2. CASE j # i
      BY <1>1, <1>7, <2>3, <3>2 DEF Cursors, Holds, Before
    <3> QED
      BY <3>1, <3>2
  <2>4. ASSUME NEW j \in Ring
        PROVE  /\ walk'[j].phase = "wait" => timer'[walk'[j].cur].started
               /\ walk'[j].phase = "remove" =>
                     timer'[walk'[j].cur].started \/ timer'[walk'[j].cur].cancelled
    BY <1>5, <1>7, <2>1 DEF Cursors, Active
  <2>5. ASSUME NEW j \in Ring, NEW p \in 1..Len(bucket[j]), timer'[bucket[j][p]].started
        PROVE  walk'[j].phase \in {"wait", "remove"} /\ walk'[j].cur = bucket[j][p]
    BY <1>5, <1>7, <1>11, <2>2, <2>5 DEF Cursors
  <2> QED
    BY <1>1, <2>3, <2>4, <2>5 DEF Cursors
<1>14. Timely'
  BY <1>1, <1>6 DEF Timely
<1> QED
  BY <1>8, <1>9, <1>10, <1>12, <1>13, <1>14

LEMMA WalkRemovesInductive ==
    ASSUME IInv, NEW i \in Ring, WalkRemoves(i)
    PROVE  IInv'
<1> USE DEF IInv
<1> DEFINE s == bucket[i]
<1>0. PICK t, n : t = walk[i].cur /\ n = walk[i].next
  OBVIOUS
<1>1. /\ walk[i].phase = "remove" /\ Turned(i, n)
      /\ bucket' = [bucket EXCEPT ![i] = RemoveAt(bucket[i], Place(i, t))]
      /\ UNCHANGED <<exact, ticks, done, requests, broken, timer, caller, cancel, loop, crashed,
                     level, pool, job>>
  BY <1>0 DEF WalkRemoves, Removed, exvars
<1>2. Holds(i, t) /\ (timer[t].started \/ timer[t].cancelled)
  BY <1>0, <1>1 DEF Cursors, Active
<1>3. PICK k \in 1..Len(bucket[i]) : k = Place(i, t) /\ bucket[i][k] = t
  BY <1>2, PlaceOf
<1>4. s \in Seq(Timers) /\ Len(s) \in Nat /\ t \in Timers
  BY <1>3, Elements
<1>5. /\ bucket' \in [Ring -> Seq(Timers)]
      /\ \A j \in Ring : j # i => bucket'[j] = bucket[j]
      /\ Len(bucket'[i]) = Len(s) - 1
      /\ \A p \in 1..(Len(s) - 1) : bucket'[i][p] = IF p < k THEN s[p] ELSE s[p + 1]
  <2>1. /\ RemoveAt(s, k) \in Seq(Timers)
        /\ Len(RemoveAt(s, k)) = Len(s) - 1
        /\ \A p \in 1..(Len(s) - 1) : RemoveAt(s, k)[p] = IF p < k THEN s[p] ELSE s[p + 1]
    BY <1>3, <1>4, Taken
  <2>2. bucket' = [bucket EXCEPT ![i] = RemoveAt(s, k)]
    BY <1>1, <1>3
  <2>3. bucket' \in [Ring -> Seq(Timers)] /\ bucket'[i] = RemoveAt(s, k)
        /\ \A j \in Ring : j # i => bucket'[j] = bucket[j]
    BY <2>1, <2>2 DEF Types
  <2> QED
    BY <2>1, <2>3
\* Where the elements of the new bucket were in the old one, and the other way round.
<1>6. ASSUME NEW j \in Ring, NEW p \in 1..Len(bucket'[j])
      PROVE  \E q \in 1..Len(bucket[j]) :
                /\ bucket'[j][p] = bucket[j][q] /\ bucket[j][q] # t
                /\ j # i => q = p
                /\ j = i => q = IF p < k THEN p ELSE p + 1
  <2>1. CASE j = i
    <3>1. p \in 1..(Len(s) - 1)
      BY <1>5, <2>1
    <3>2. PICK q \in 1..Len(s) : q = IF p < k THEN p ELSE p + 1
      BY <1>4, <3>1
    <3>3. bucket'[i][p] = s[q] /\ q # k
      BY <1>5, <3>1, <3>2
    <3>4. s[q] # t
      BY <1>3, <3>3 DEF Places
    <3> QED
      BY <2>1, <3>2, <3>3, <3>4
  <2>2. CASE j # i
    <3>1. bucket[j][p] # t /\ p \in 1..Len(bucket[j])
      BY <1>3, <1>5, <2>2 DEF Places
    <3> QED
      BY <1>5, <2>2, <3>1
  <2> QED
    BY <2>1, <2>2
<1>7. ASSUME NEW q \in 1..Len(s), q # k
      PROVE  /\ (IF q < k THEN q ELSE q - 1) \in 1..Len(bucket'[i])
             /\ bucket'[i][IF q < k THEN q ELSE q - 1] = s[q]
  <2>1. CASE q < k
    <3>1. q \in 1..(Len(s) - 1)
      BY <1>4, <2>1
    <3> QED
      BY <1>5, <2>1, <3>1
  <2>2. CASE q > k
    <3>1. q - 1 \in 1..(Len(s) - 1) /\ ~ (q - 1 < k) /\ (q - 1) + 1 = q /\ ~ (q < k)
      BY <1>4, <2>2
    <3>2. bucket'[i][q - 1] = s[q]
      BY <1>5, <3>1
    <3> QED
      BY <1>5, <3>1, <3>2
  <2> QED
    BY <1>7, <2>1, <2>2
<1>8. /\ walk' \in [Ring -> Walking] /\ \A j \in Ring : j # i => walk'[j] = walk[j]
      /\ \/ n = None /\ walk'[i].phase = "none"
         \/ \E q \in 1..Len(s) :
               /\ n = s[q] /\ k < q
               /\ walk'[i].phase = "ready" /\ walk'[i].tick = walk[i].tick
               /\ walk'[i].cur = s[q]
               /\ walk'[i].next = IF q = Len(s) THEN None ELSE s[q + 1]
  <2>1. CASE n = None
    BY <1>1, <2>1, TurnedAway
  <2>2. CASE n # None
    <3>1. PICK p, q \in 1..Len(bucket[i]) : p < q /\ bucket[i][p] = t /\ bucket[i][q] = n
      BY <1>0, <1>1, <2>2, NextPlace DEF Active
    <3>2. p = k
      BY <1>3, <3>1 DEF Places
    <3>3. Turned(i, bucket[i][q])
      BY <1>1, <3>1
    <3>4. /\ walk' \in [Ring -> Walking]
          /\ \A j \in Ring : j # i => walk'[j] = walk[j]
          /\ walk'[i].phase = "ready" /\ walk'[i].cur = bucket[i][q]
          /\ walk'[i].tick = walk[i].tick
          /\ walk'[i].next = IF q = Len(bucket[i]) THEN None ELSE bucket[i][q + 1]
      BY <3>3, TurnedTo
    <3> QED
      BY <3>1, <3>2, <3>4
  <2> QED
    BY <2>1, <2>2
<1> HIDE DEF s
<1>9. Types'
  BY <1>1, <1>5, <1>8 DEF Types
<1>10. Recent'
  BY <1>1, <1>8, RecentKept
<1>11. Places'
  <2>1. ASSUME NEW j \in Ring, NEW l \in Ring,
               NEW p \in 1..Len(bucket'[j]), NEW r \in 1..Len(bucket'[l]),
               bucket'[j][p] = bucket'[l][r]
        PROVE  j = l /\ p = r
    <3>1. PICK q \in 1..Len(bucket[j]) :
              /\ bucket'[j][p] = bucket[j][q]
              /\ j # i => q = p
              /\ j = i => q = IF p < k THEN p ELSE p + 1
      BY <1>6
    <3>2. PICK m \in 1..Len(bucket[l]) :
              /\ bucket'[l][r] = bucket[l][m]
              /\ l # i => m = r
              /\ l = i => m = IF r < k THEN r ELSE r + 1
      BY <1>6, SMTT(30)
    <3>3. j = l /\ q = m
      <4>1. bucket[j][q] = bucket[l][m]
        BY <2>1, <3>1, <3>2
      <4> QED
        BY <4>1 DEF Places
    <3>4. p \in Int /\ r \in Int
      OBVIOUS
    <3> QED
      BY <3>1, <3>2, <3>3, <3>4
  <2>2. ASSUME NEW m \in 1..Len(requests), NEW j \in Ring, NEW p \in 1..Len(bucket'[j])
        PROVE  requests[m].timer # bucket'[j][p]
    <3>1. PICK q \in 1..Len(bucket[j]) : bucket'[j][p] = bucket[j][q]
      BY <1>6
    <3>2. requests[m].timer # bucket[j][q]
      BY DEF Places
    <3> QED
      BY <3>1, <3>2
  <2>3. ASSUME NEW j \in Ring, NEW p \in 1..Len(bucket'[j])
        PROVE  caller[bucket'[j][p]] \notin {"new", "executing"}
    <3>1. PICK q \in 1..Len(bucket[j]) : bucket'[j][p] = bucket[j][q]
      BY <1>6
    <3>2. caller[bucket[j][q]] \notin {"new", "executing"}
      BY DEF Places
    <3> QED
      BY <3>1, <3>2
  <2> QED
    BY <1>1, <2>1, <2>2, <2>3 DEF Places
<1>12. Pasts'
  BY <1>1 DEF Pasts
<1>13. Cursors'
  <2>1. ASSUME walk'[i].phase \in Active
        PROVE  /\ Holds(i, walk[i].cur)'
               /\ walk'[i].next # None => Before(i, walk[i].cur, walk[i].next)'
    <3>1. PICK q \in 1..Len(s) :
              /\ k < q /\ walk'[i].cur = s[q]
              /\ walk'[i].next = IF q = Len(s) THEN None ELSE s[q + 1]
      BY <1>8, <2>1 DEF Active
    <3>2. q - 1 \in 1..Len(bucket'[i]) /\ bucket'[i][q - 1] = s[q]
      <4>1. q # k /\ ~ (q < k)
        BY <3>1
      <4> QED
        BY <1>7, <4>1
    <3>3. Holds(i, walk[i].cur)'
      BY <3>1, <3>2 DEF Holds
    <3>4. ASSUME walk'[i].next # None
          PROVE  Before(i, walk[i].cur, walk[i].next)'
      <4>1. q # Len(s) /\ walk'[i].next = s[q + 1]
        BY <3>1, <3>4
      <4>2. q + 1 \in 1..Len(s) /\ q + 1 # k /\ ~ (q + 1 < k) /\ (q + 1) - 1 = q /\ q - 1 < q
        BY <1>4, <3>1, <4>1
      <4>3. q \in 1..Len(bucket'[i]) /\ bucket'[i][q] = s[q + 1]
        BY <1>7, <4>2
      <4> QED
        BY <3>1, <3>2, <4>1, <4>2, <4>3 DEF Before
    <3> QED
      BY <3>3, <3>4
  <2>2. ASSUME NEW j \in Ring, walk'[j].phase \in Active
        PROVE  /\ Holds(j, walk[j].cur)'
               /\ walk'[j].next # None => Before(j, walk[j].cur, walk[j].next)'
    <3>1. CASE j = i
      BY <2>1, <2>2, <3>1
    <3>2. CASE j # i
      <4>1. walk'[j] = walk[j] /\ bucket'[j] = bucket[j]
        BY <1>5, <1>8, <3>2
      <4>2. /\ Holds(j, walk[j].cur)
            /\ walk[j].next # None => Before(j, walk[j].cur, walk[j].next)
        BY <2>2, <4>1 DEF Cursors
      <4> QED
        BY <4>1, <4>2 DEF Holds, Before
    <3> QED
      BY <3>1, <3>2
  <2>3. ASSUME NEW j \in Ring
        PROVE  /\ walk'[j].phase = "wait" => timer'[walk'[j].cur].started
               /\ walk'[j].phase = "remove" =>
                     timer'[walk'[j].cur].started \/ timer'[walk'[j].cur].cancelled
    BY <1>1, <1>8 DEF Cursors
  <2>4. ASSUME NEW j \in Ring, NEW p \in 1..Len(bucket'[j]), timer'[bucket'[j][p]].started
        PROVE  walk'[j].phase \in {"wait", "remove"} /\ walk'[j].cur = bucket'[j][p]
    <3>1. PICK q \in 1..Len(bucket[j]) : bucket'[j][p] = bucket[j][q] /\ bucket[j][q] # t
      BY <1>6
    <3>2. walk[j].phase \in {"wait", "remove"} /\ walk[j].cur = bucket[j][q]
      BY <1>1, <2>4, <3>1 DEF Cursors
    <3>3. j # i
      BY <1>0, <3>1, <3>2
    <3> QED
      BY <1>8, <3>1, <3>2, <3>3
  <2> QED
    BY <2>2, <2>3, <2>4 DEF Cursors
<1>14. Timely'
  <2>1. SUFFICES ASSUME exact PROVE Timely'
    BY <1>1 DEF Timely
  <2>2. ASSUME walk'[i].phase \in Active
        PROVE  AtHead(i)'
    <3>1. t = s[1] /\ n = IF Len(s) = 1 THEN None ELSE s[2]
      BY <1>0, <1>1, <2>1 DEF Timely, AtHead, Active, s
    <3>2. 1 \in 1..Len(s)
      BY <1>3, <1>4 DEF s
    <3>3. k = 1
      BY <1>3, <3>1, <3>2 DEF Places, s
    <3>4. PICK q \in 1..Len(s) :
              /\ n = s[q] /\ k < q /\ walk'[i].cur = s[q]
              /\ walk'[i].next = IF q = Len(s) THEN None ELSE s[q + 1]
      BY <1>8, <2>2 DEF Active
    <3>5. Len(s) # 1 /\ 2 \in 1..Len(s) /\ Len(s) >= 2
      BY <1>4, <3>3, <3>4
    <3>6. q = 2
      BY <3>1, <3>4, <3>5 DEF Places, s
    <3>7. /\ Len(bucket'[i]) = Len(s) - 1
          /\ 1 \in 1..(Len(s) - 1) /\ bucket'[i][1] = s[2]
      BY <1>4, <1>5, <3>3, <3>5
    <3>8. CASE Len(s) = 2
      BY <3>4, <3>6, <3>7, <3>8 DEF AtHead
    <3>9. CASE Len(s) # 2
      <4>0. \A l \in Nat : l >= 2 /\ l # 2 => 2 \in 1..(l - 1) /\ l - 1 # 1
        OBVIOUS
      <4>1. 2 \in 1..(Len(s) - 1) /\ Len(s) - 1 # 1
        BY <1>4, <3>5, <3>9, <4>0
      <4>2. bucket'[i][2] = s[3]
        BY <1>5, <3>3, <4>1
      <4> QED
        BY <3>4, <3>6, <3>7, <3>9, <4>1, <4>2 DEF AtHead
    <3> QED
      BY <3>8, <3>9
  <2>3. ASSUME NEW j \in Ring, j # i, walk'[j].phase \in Active
        PROVE  AtHead(j)'
    BY <1>5, <1>8, <2>1, <2>3 DEF Timely, AtHead
  <2>4. ASSUME NEW j \in Ring, NEW p \in 1..Len(bucket'[j])
        PROVE  /\ timer'[bucket'[j][p]].cycle <= 1
               /\ ~ timer'[bucket'[j][p]].started => DueAt(j, timer[bucket[j][p]].due)'
    <3>1. PICK q \in 1..Len(bucket[j]) : bucket'[j][p] = bucket[j][q]
      BY <1>6
    <3>2. /\ timer[bucket[j][q]].cycle <= 1
          /\ ~ timer[bucket[j][q]].started => DueAt(j, timer[bucket[j][q]].due)
      BY <2>1 DEF Timely
    <3>3. timer'[bucket'[j][p]] = timer[bucket[j][q]]
      BY <1>1, <3>1
    <3>4. CASE j # i
      BY <1>1, <1>8, <3>2, <3>3, <3>4 DEF DueAt
    <3>5. CASE j = i
      <4>1. walk[i].phase # "none" /\ Len(bucket'[i]) # 0
        BY <1>1, <3>5
      <4>2. walk'[i].phase = "ready" /\ walk'[i].tick = walk[i].tick
        <5>1. CASE n = None
          <6>1. s[1] = t /\ Len(s) = 1
            <7>1. t = s[1] /\ n = IF Len(s) = 1 THEN None ELSE s[2]
              BY <1>0, <1>1, <2>1 DEF Timely, AtHead, Active, s
            <7>2. s[2] # None \/ ~ (2 \in 1..Len(s))
              BY Elements, RingAssumption DEF s
            <7>3. Len(s) \in Nat /\ Len(s) >= 1
              BY <1>3, <1>4 DEF s
            <7>4. \A l \in Nat : l >= 1 /\ ~ (2 \in 1..l) => l = 1
              OBVIOUS
            <7>5. Len(s) = 1 \/ 2 \in 1..Len(s)
              BY <7>3, <7>4
            <7> QED
              BY <5>1, <7>1, <7>2, <7>5
          <6> QED
            BY <1>5, <4>1, <6>1
        <5>2. CASE n # None
          BY <1>8, <5>2
        <5> QED
          BY <5>1, <5>2
      <4> QED
        BY <1>1, <3>2, <3>3, <3>5, <4>1, <4>2 DEF DueAt
    <3> QED
      BY <3>4, <3>5
  <2>5. ASSUME NEW u \in Timers
        PROVE  /\ timer'[u].fired \in {"not", "due"}
               /\ timer'[u].due > 0 /\ ~ timer'[u].cancelled => \E j \in Ring : Holds(j, u)'
    <3>1. timer'[u].fired \in {"not", "due"}
      BY <1>1, <2>1 DEF Timely
    <3>2. ASSUME timer[u].due > 0, ~ timer[u].cancelled
          PROVE  \E j \in Ring : Holds(j, u)'
      <4>0. PICK j \in Ring : Holds(j, u)
        BY <2>1, <3>2 DEF Timely
      <4>1. PICK q \in 1..Len(bucket[j]) : bucket[j][q] = u
        BY <4>0 DEF Holds
      <4>2. u # t
        <5>1. ~ timer[u].started
          BY <3>2 DEF Pasts
        <5> QED
          BY <1>2, <3>2, <5>1
      <4>3. CASE j = i
        BY <1>3, <1>7, <4>1, <4>2, <4>3 DEF Holds, s
      <4>4. CASE j # i
        BY <1>5, <4>1, <4>4 DEF Holds
      <4> QED
        BY <4>3, <4>4
    <3> QED
      BY <1>1, <3>1, <3>2
  <2> QED
    BY <1>1, <2>1, <2>2, <2>3, <2>4, <2>5 DEF Timely
<1> QED
  BY <1>9, <1>10, <1>11, <1>12, <1>13, <1>14
LEMMA AppendPanicsInductive ==
    ASSUME IInv, NEW t \in Timers, NEW secs, AppendPanics(t, secs)
    PROVE  IInv'
<1> USE DEF IInv
<1>1. /\ crashed' \in BOOLEAN /\ exact' \in {exact, FALSE} /\ exact' \in BOOLEAN
      /\ UNCHANGED <<ticks, done, requests, bucket, broken, walk, timer, caller, cancel, loop,
                     level, pool, job>>
  BY DEF AppendPanics, exvars, Types
<1>2. Types' /\ Recent' /\ Places' /\ Pasts'
  BY <1>1 DEF Types, Recent, Places, Pasts
<1>3. Cursors'
  BY <1>1 DEF Cursors, Holds, Before
<1>4. CASE exact' = FALSE
  BY <1>2, <1>3, <1>4 DEF Timely
<1>5. CASE exact' = exact
  BY <1>1, <1>2, <1>5, Unmoved
<1> QED
  BY <1>1, <1>4, <1>5

(***************************************************************************)
(* What takes the process down                                             *)
(***************************************************************************)
\* The task engine is shut down, and its channel closed, after a Stop only.
Downs ==
    /\ loop # "running" => done
    /\ pool # "up" => done
    /\ \A t \in Timers : job[t] = "lost" => done
    /\ exact /\ crashed => done

LEMMA DownsInductive == IInv /\ Downs /\ [Next]_vars => Downs'
<1> SUFFICES ASSUME IInv, Downs, [Next]_vars PROVE Downs'
  OBVIOUS
<1> USE DEF Downs, exvars
<1>1. ASSUME NEW t \in Timers, NEW k, Disposed(t, k) PROVE
         /\ UNCHANGED pool
         /\ \A u \in Timers : job'[u] = "lost" => job[u] = "lost"
  BY <1>1 DEF Disposed, Executed, EX!Offer, EX!Moves, IInv, Types
<1>2. ASSUME NEW t \in Timers, Caller(t) PROVE Downs'
  BY <1>1, <1>2 DEF Caller, ScheduleNow, CallerHasExecuted, Requested, ReturnsNil
<1>3. ASSUME NEW t \in Timers, Cancel(t) PROVE Downs'
  BY <1>3 DEF Cancel
<1>4. ASSUME NEW t \in Timers, Executor(t) PROVE Downs'
  BY <1>4 DEF Executor, EX!Proceed, EX!Start, EX!Lose, EX!Finish, EX!Leave, EX!Moves, IInv, Types
<1>5. ASSUME NEW i \in Ring, Walk(i) PROVE Downs'
  <2>1. CASE WalkBegins(i)
    <3>1. exact => broken[i] = "no"
      BY DEF IInv, Timely
    <3> QED
      BY <2>1, <3>1 DEF WalkBegins
  <2>2. CASE WalkReady(i) \/ WalkNotReady(i) \/ WalkRemoves(i)
    BY <2>2 DEF WalkReady, WalkNotReady, WalkRemoves
  <2>3. CASE WalkDisposes(i)
    <3>1. walk[i].cur \in Timers
      BY <2>3, NotStarted DEF WalkDisposes
    <3> QED
      BY <1>1, <2>3, <3>1 DEF WalkDisposes
  <2>4. CASE WalkHasExecuted(i)
    <3>1. walk[i].cur \in Timers
      BY <2>4, Elements DEF WalkHasExecuted, Phase, IInv, Cursors, Active, Holds
    <3> QED
      BY <2>4, <3>1 DEF WalkHasExecuted
  <2> QED
    BY <1>5, <2>1, <2>2, <2>3, <2>4 DEF Walk
<1>6. ASSUME NEW t, NEW secs, TakesRequest(t, secs) PROVE Downs'
  BY <1>6 DEF TakesRequest, RequestIs
<1>7. ASSUME NEW t \in Timers, NEW secs, AppendPanics(t, secs) PROVE Downs'
  <2>1. ~ Exact(secs)
    <3>1. SUFFICES ASSUME Exact(secs) PROVE FALSE
      OBVIOUS
    <3>2. walk[Offset(secs) % RingSize].phase = "none"
      BY <1>7, <3>1, NoRace DEF AppendPanics
    <3> QED
      BY <1>7, <3>2 DEF AppendPanics, RemovingLast
  <2> QED
    BY <1>7, <2>1 DEF AppendPanics
<1>8. CASE Loop
  <2>1. \A r \in Range(requests) : r.timer \in Timers
    BY Elements DEF IInv, Range, Types
  <2> QED
    BY <1>6, <1>7, <1>8, <2>1
    DEF Loop, TakesTick, LoopLeaves, LoopDrains, LoopPanics, LoopEnds, EX!Shutdown, EX!Drain,
        EX!Fail, EX!PoolGoes, IInv, Types
<1>9. CASE Stop \/ Halted \/ UNCHANGED vars
  BY <1>9 DEF Stop, Halted, vars
<1> QED
  BY <1>2, <1>3, <1>4, <1>5, <1>8, <1>9 DEF Next

(***************************************************************************)
(* The theorems                                                            *)
(***************************************************************************)
LEMMA Inductive == IInv /\ [Next]_vars => IInv'
<1> SUFFICES ASSUME IInv, [Next]_vars PROVE IInv'
  OBVIOUS
<1>1. ASSUME NEW t \in Timers, Caller(t) \/ Cancel(t) \/ Executor(t)
      PROVE  IInv'
  BY <1>1, ScheduleNowInductive, RequestedInductive, CancelInductive, QuietInductive DEF Caller
<1>2. ASSUME NEW i \in Ring, Walk(i)
      PROVE  IInv'
  BY <1>2, WalkBeginsInductive, WalkReadyInductive, WalkNotReadyInductive,
     WalkDisposesInductive, WalkHasExecutedInductive, WalkRemovesInductive DEF Walk
<1>3. ASSUME Loop
      PROVE  IInv'
  <2>1. ASSUME NEW r \in Range(requests),
               TakesRequest(r.timer, r.secs) \/ AppendPanics(r.timer, r.secs)
        PROVE  IInv'
    <3>1. r.timer \in Timers
      BY Elements DEF IInv, Range, Types
    <3> QED
      BY <2>1, <3>1, TakesRequestInductive, AppendPanicsInductive
  <2> QED
    BY <1>3, <2>1, TakesTickInductive, QuietInductive DEF Loop
<1>4. CASE Stop \/ Halted \/ UNCHANGED vars
  BY <1>4, QuietInductive DEF Halted
<1> QED
  BY <1>1, <1>2, <1>3, <1>4 DEF Next

LEMMA Invariant == Spec => []IInv
BY Initial, Inductive, PTL DEF Spec

LEMMA DownsInvariant == Spec => []Downs
<1>1. Init => Downs
  BY DEF Init, Downs, EX!Init
<1> QED
  BY Initial, Inductive, <1>1, DownsInductive, PTL DEF Spec

LEMMA TypeFollows == IInv => TypeOK
<1> SUFFICES ASSUME IInv PROVE TypeOK
  OBVIOUS
<1>1. {r.timer : r \in Range(requests)} \subseteq Timers
  BY Elements DEF IInv, Types, Range
<1>2. \A i \in Ring : Range(bucket[i]) \subseteq Timers
  BY Elements DEF IInv, Types, Range
<1>3. \A i \in Ring :
          /\ walk[i].phase \in Phases
          /\ {walk[i].cur, walk[i].next} \subseteq Timers \cup {None}
          /\ walk[i].phase # "none" => walk[i].tick % RingSize = i
  BY DEF IInv, Types, Walking, Recent
<1>4. \A t \in Timers : timer[t].started \in BOOLEAN /\ timer[t].cancelled \in BOOLEAN
  BY DEF IInv, Types, TimerTask
<1> QED
  BY <1>1, <1>2, <1>3, <1>4 DEF IInv, Types, TypeOK

\* The state of the timer engine keeps its type: no more requests than the
\* channel takes, and each bucket is walked only by the goroutine of its tick
\* (Schedule, loop).
THEOREM TypeCorrect == Spec => []TypeOK
BY Invariant, TypeFollows, PTL

\* A timer is handed to the task engine once at most, with any delays, races of
\* the append with a removal, and overlapping walks of other buckets (dispose).
THEOREM NeverTwice == Spec => []ExecutedOnce
<1>1. IInv => ExecutedOnce
  BY DEF IInv, Pasts, ExecutedOnce
<1> QED
  BY Invariant, <1>1, PTL

\* What Cancel has returned stays true: the timer never runs, or had been
\* disposed of before, wherever the walk of its bucket was (Cancel, ready, dispose).
THEOREM CancelTellsTheTruth == Spec => []CancelHonest
<1>1. IInv => CancelHonest
  <2> SUFFICES ASSUME IInv, NEW t \in Timers
               PROVE  /\ cancel[t] = "true" => timer[t].execs = 0 /\ job[t] = "new"
                      /\ cancel[t] = "false" => timer[t].started
    BY DEF CancelHonest
  <2> QED
    BY DEF IInv, Pasts
<1> QED
  BY Invariant, <1>1, PTL

\* With delays of at least a second that leave the bucket of the tick and what
\* its walk may lag behind out of reach, a timer is disposed of by the walk of
\* its tick: never by another one, and never left behind; the loop and its walks
\* meet on no list and no job is too late before a Stop, so that the process
\* stays up (loop, ready).
THEOREM ExactDelaysAreKept == Spec => []OnTime
<1>1. IInv /\ Downs => OnTime
  <2> SUFFICES ASSUME IInv, Downs, exact, NEW t \in Timers
               PROVE  /\ timer[t].fired \in {"not", "due"}
                      /\ timer[t].due > 0 /\ WalkOver(timer[t].due) => timer[t].cancelled
    BY DEF OnTime, Downs
  <2>1. timer[t].fired \in {"not", "due"}
    BY DEF IInv, Timely
  <2>2. ASSUME timer[t].due > 0, WalkOver(timer[t].due), ~ timer[t].cancelled
        PROVE  FALSE
    <3>1. PICK i \in Ring : Holds(i, t)
      BY <2>2 DEF IInv, Timely
    <3>2. PICK p \in 1..Len(bucket[i]) : bucket[i][p] = t
      BY <3>1 DEF Holds
    <3>3. timer[t].due \in Nat
      BY DEF IInv, Types, TimerTask
    <3>4. ~ timer[t].started
      BY <2>2, <3>3 DEF IInv, Pasts
    <3>5. DueAt(i, timer[t].due)
      BY <3>2, <3>4 DEF IInv, Timely
    <3>6. CASE walk[i].phase = "none"
      BY <2>2, <3>3, <3>5, <3>6, Numbers, SMTT(30) DEF DueAt, WalkOver, IInv
    <3>7. CASE walk[i].phase # "none"
      BY <2>2, <3>5, <3>7 DEF DueAt, WalkOver
    <3> QED
      BY <3>6, <3>7
  <2> QED
    BY <2>1, <2>2
<1> QED
  BY Invariant, DownsInvariant, <1>1, PTL
==============================================================================
