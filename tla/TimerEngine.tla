----------------------------- MODULE TimerEngine -----------------------------
(***************************************************************************)
(* The timer engine of src/timerengine: a ring of buckets, a loop that     *)
(* takes requests and ticks, one goroutine per tick that walks the bucket  *)
(* of that tick, and a task engine that runs the tasks whose time has      *)
(* come: what it does is taken from Executor.tla, which the task engine    *)
(* (TaskEngine.tla) implements.                                            *)
(*                                                                         *)
(* A bucket is a container/list that the loop appends to and the walking   *)
(* goroutine removes from without a lock.  When an append meets a removal  *)
(* an update of the length can be lost.  When it is the last element that  *)
(* is removed, the new one can end up behind it, and it and later ones are *)
(* out of reach of a walk; or the append meets a link that is nil already, *)
(* and the loop panics.  Where the length is wrong, a walk may find a list *)
(* empty that is not, or take the list's own root for an element and       *)
(* panic.  (An append takes effect at once for a walk that goes on to the  *)
(* new element.)                                                           *)
(*                                                                         *)
(* A tick is the unit of time.  Walks are assumed to be prompt: none takes *)
(* more than MaxLag ticks (it blocks while the task engine is full).       *)
(***************************************************************************)
EXTENDS Integers, Sequences, SequencesExt

CONSTANTS
    Timers,     \* the calls of Schedule, and the TimerTasks they make
    Delays,     \* the delays they ask for, in half seconds
    RingSize,
    QueueCap,   \* the capacity of the requests channel
    MaxLag,     \* the ticks that may pass before a walk has ended
    MaxTick,    \* bound: the ticks taken
    Levels,     \* the concurrency levels of the task engine
    None        \* no timer: the end of a list

ASSUME RingAssumption ==
    /\ RingSize \in Nat \ {0}
    /\ MaxLag \in 0..(RingSize - 1)
    /\ QueueCap \in Nat /\ MaxTick \in Nat
    /\ Delays \subseteq Int
    /\ None \notin Timers

VARIABLES
    ticks,      \* te.tickIndex, before it is reduced modulo RingSize
    done,       \* te.ctx is cancelled
    requests,   \* the requests channel
    bucket,     \* bucket[i]: what a walk of te.buckets[i] reaches
    broken,     \* broken[i]: what a race has damaged in te.buckets[i]
    walk,       \* walk[i]: the goroutine that walks te.buckets[i]
    timer,      \* timer[t]: the fields of the TimerTask
    caller,     \* caller[t]: the goroutine that called Schedule for t
    cancel,     \* cancel[t]: what Cancel last returned for t
    loop,       \* the main loop
    exact,      \* all delays so far were Exact (of the history only)
    crashed     \* a goroutine panicked, or the loop ended with Fatal: the process is gone

\* The variables of the task engine, te.executors.
VARIABLES level, pool, job
exvars == <<level, pool, job>>

vars == <<ticks, done, requests, bucket, broken, walk, timer, caller, cancel,
          loop, exact, crashed, exvars>>

EX == INSTANCE Executor WITH Jobs <- Timers

Ring == 0..(RingSize - 1)

NoWalk == [phase |-> "none", cur |-> None, next |-> None, tick |-> 0]

\* Besides its fields a timer remembers how often it was executed and, once it
\* is placed, the tick at which it is due; then, when that was.
newTimerTask(cycleNum, due) ==
    [cycle |-> cycleNum, started |-> FALSE, cancelled |-> FALSE,
     execs |-> 0, due |-> due, fired |-> "not"]

Init ==
    /\ ticks = 0
    /\ done = FALSE
    /\ requests = <<>>
    /\ bucket = [i \in Ring |-> <<>>]
    /\ broken = [i \in Ring |-> "no"]
    /\ walk = [i \in Ring |-> NoWalk]
    /\ timer = [t \in Timers |-> newTimerTask(0, 0)]
    /\ caller = [t \in Timers |-> "new"]
    /\ cancel = [t \in Timers |-> "none"]
    /\ loop = "running"
    /\ exact = TRUE
    /\ crashed = FALSE
    /\ EX!Init

(***************************************************************************)
(* TimerTask.dispose, at tick k: the timer is marked as started unless it  *)
(* was cancelled, and a started one is handed to the task engine.  (The    *)
(* mark is set under the timer's lock and the call of the task engine      *)
(* follows; nobody can tell at which moment in between.  A job that was    *)
(* offered twice is followed once: see ExecutedOnce.)                      *)
(***************************************************************************)
Executed(t, k) ==
    /\ timer' = [timer EXCEPT ![t] =
           [cycle |-> @.cycle, started |-> TRUE, cancelled |-> @.cancelled,
            execs |-> @.execs + 1, due |-> 0,
            fired |-> IF k < @.due THEN "early" ELSE IF k = @.due THEN "due" ELSE "late"]]
    /\ IF job[t] = "new" THEN EX!Offer(t) ELSE UNCHANGED exvars

Disposed_always(t, k) == Executed(t, k)

Disposed(t, k) ==
    \/ ~ timer[t].cancelled /\ Executed(t, k)
    \/ timer[t].cancelled /\ UNCHANGED <<timer, exvars>>

\* executors.Schedule has returned (or panicked).
Scheduled(t) == job[t] # "waiting"

(***************************************************************************)
(* TimerEngine.Schedule                                                    *)
(***************************************************************************)
CallerGoes(t, from, to) ==
    /\ caller[t] = from
    /\ caller' = [caller EXCEPT ![t] = to]

\* A delay that is not positive: the caller disposes of the timer itself.
ScheduleNow(t) ==
    /\ ~ crashed
    /\ \E d \in Delays : d <= 0
    /\ CallerGoes(t, "new", "executing")
    /\ Disposed(t, timer[t].due)
    /\ UNCHANGED <<exact, ticks, done, requests, bucket, broken, walk, cancel, loop, crashed>>

CallerHasExecuted(t) ==
    /\ ~ crashed
    /\ Scheduled(t)
    /\ CallerGoes(t, "executing", IF job[t] = "lost" THEN "panicked" ELSE "has")
    /\ UNCHANGED <<exact, ticks, done, requests, bucket, broken, walk, timer, cancel, loop, crashed, exvars>>

\* int64(delay.Seconds()): the fraction of a second is cut off.
Seconds(d) == d \div 2

Requested_no_capacity(t) ==
    /\ ~ crashed
    /\ CallerGoes(t, "new", "requested")
    /\ \E d \in Delays :
          /\ d > 0
          /\ requests' = Append(requests, [timer |-> t, secs |-> Seconds(d)])
    /\ UNCHANGED <<ticks, done, bucket, broken, walk, timer, cancel, loop, crashed, exact, exvars>>

Requested(t) ==
    /\ ~ crashed
    /\ Len(requests) < QueueCap
    /\ CallerGoes(t, "new", "requested")
    /\ \E d \in Delays :
          /\ d > 0
          /\ requests' = Append(requests, [timer |-> t, secs |-> Seconds(d)])
    /\ UNCHANGED <<ticks, done, bucket, broken, walk, timer, cancel, loop, crashed, exact, exvars>>

\* Schedule returns nil: the engine was stopped before it took the request, or
\* before its answer was looked at.
ReturnsNil(t) ==
    /\ ~ crashed
    /\ done
    /\ \E d \in Delays : d > 0
    /\ caller[t] \in {"new", "requested"}
    /\ caller' = [caller EXCEPT ![t] = "nil"]
    /\ UNCHANGED <<exact, ticks, done, requests, bucket, broken, walk, timer, cancel, loop, crashed, exvars>>

(***************************************************************************)
(* TimerTask.Cancel, by a caller that was given the timer.                 *)
(***************************************************************************)
CancelSets_blindly(t) == timer' = [timer EXCEPT ![t].cancelled = TRUE]
CancelSets(t) ==
    timer' = [timer EXCEPT ![t].cancelled = @ \/ ~ timer[t].started]

Cancel(t) ==
    /\ ~ crashed
    /\ caller[t] = "has"
    /\ CancelSets(t)
    /\ cancel' = [cancel EXCEPT ![t] = IF timer'[t].cancelled THEN "true" ELSE "false"]
    /\ UNCHANGED <<exact, ticks, done, requests, bucket, broken, walk, caller, loop, crashed, exvars>>

(***************************************************************************)
(* The main loop                                                           *)
(***************************************************************************)
\* A delay for which the bucket cannot be under way when the timer is placed,
\* and which is no longer than a turn of the ring.
Exact(secs) == secs \in 1..(RingSize - 1 - MaxLag)

Offset_from_zero(secs) == secs
Offset(secs) == secs + (ticks % RingSize)

\* The list of bucket i is about to lose its last element.
RemovingLast(i) ==
    /\ walk[i].phase = "remove"
    /\ bucket[i] # <<>>
    /\ Last(bucket[i]) = walk[i].cur

\* bucket.PushBack(task)
Appended(i, t) ==
    \/ /\ bucket' = [bucket EXCEPT ![i] = Append(@, t)]
       /\ \/ UNCHANGED broken
          \/ /\ walk[i].phase = "remove" /\ broken[i] = "no"
             /\ broken' = [broken EXCEPT ![i] = "length"]
    \/ /\ broken[i] = "links" \/ RemovingLast(i)
       /\ broken' = [broken EXCEPT ![i] = "links"]
       /\ UNCHANGED bucket

RequestIs(t, secs) ==
    /\ ~ crashed
    /\ loop = "running"
    /\ requests # <<>> /\ Head(requests) = [timer |-> t, secs |-> secs]

TakesRequest(t, secs) ==
    /\ RequestIs(t, secs)
    /\ requests' = Tail(requests)
    /\ timer' = [timer EXCEPT ![t] = newTimerTask(Offset(secs) \div RingSize, ticks + secs)]
    /\ exact' = (exact /\ Exact(secs))
    /\ Appended(Offset(secs) % RingSize, t)
    \* req.result <- task; the caller may be gone with nil
    /\ caller' = [caller EXCEPT ![t] = IF @ = "requested" THEN "has" ELSE @]
    /\ UNCHANGED <<ticks, done, walk, cancel, loop, crashed, exvars>>

\* The element behind which PushBack puts the new one was just taken out: the
\* panic is recovered, and Fatal ends the process.
AppendPanics(t, secs) ==
    /\ RequestIs(t, secs)
    /\ RemovingLast(Offset(secs) % RingSize)
    /\ exact' = (exact /\ Exact(secs))
    /\ crashed' = TRUE
    /\ UNCHANGED <<ticks, done, requests, bucket, broken, walk, timer, caller, cancel, loop, exvars>>

\* The assumption that walks are prompt.
Prompt == \A i \in Ring : walk[i].phase # "none" => ticks - walk[i].tick < MaxLag

TakesTick ==
    /\ ~ crashed
    /\ loop = "running"
    /\ ticks < MaxTick
    /\ Prompt
    /\ ticks' = ticks + 1
    /\ walk' = [walk EXCEPT ![ticks' % RingSize] =
                  [phase |-> "front", cur |-> None, next |-> None, tick |-> ticks']]
    /\ UNCHANGED <<exact, done, requests, bucket, broken, timer, caller, cancel, loop, crashed, exvars>>

LoopLeaves ==
    /\ ~ crashed
    /\ loop = "running"
    /\ done
    /\ loop' = "leaving"
    /\ EX!Shutdown
    /\ UNCHANGED <<exact, ticks, done, requests, bucket, broken, walk, timer, caller, cancel, crashed>>

\* executors.Shutdown returns ...
LoopDrains ==
    /\ ~ crashed
    /\ loop = "leaving"
    /\ EX!Drain
    /\ UNCHANGED <<exact, ticks, done, requests, bucket, broken, walk, timer, caller, cancel, loop,
                   crashed>>

\* ... or panics, in a deferred function: nothing recovers that.
LoopPanics ==
    /\ ~ crashed
    /\ loop = "leaving"
    /\ EX!Fail
    /\ crashed' = TRUE
    /\ UNCHANGED <<exact, ticks, done, requests, bucket, broken, walk, timer, caller, cancel, loop>>

LoopEnds_after_requests ==
    /\ ~ crashed
    /\ loop = "leaving"
    /\ pool = "drained" /\ requests = <<>>
    /\ loop' = "ended"
    /\ UNCHANGED <<exact, ticks, done, requests, bucket, broken, walk, timer, caller, cancel, crashed, exvars>>

LoopEnds ==
    /\ ~ crashed
    /\ loop = "leaving"
    /\ pool = "drained"
    /\ loop' = "ended"
    /\ UNCHANGED <<exact, ticks, done, requests, bucket, broken, walk, timer, caller, cancel, crashed, exvars>>

\* TimerEngine.Stop cancels the context and waits for the loop to end.
Stop ==
    /\ ~ crashed
    /\ ~ done
    /\ done' = TRUE
    /\ UNCHANGED <<exact, ticks, requests, bucket, broken, walk, timer, caller, cancel, loop, crashed, exvars>>

(***************************************************************************)
(* The goroutine that walks bucket i.  The element after the current one   *)
(* is looked up before the current one is dealt with.                      *)
(***************************************************************************)
\* Where the list element of timer t is.
Place(i, t) == CHOOSE p \in 1..Len(bucket[i]) : bucket[i][p] = t

After(i, t) ==
    IF Place(i, t) = Len(bucket[i]) THEN None ELSE bucket[i][Place(i, t) + 1]

\* The walk turns to the element t, or ends.
Turned(i, t) ==
    walk' = [walk EXCEPT ![i] =
               IF t = None THEN NoWalk
               ELSE [phase |-> "ready", cur |-> t, next |-> After(i, t), tick |-> @.tick]]
Phase(i, from, to) ==
    /\ walk[i].phase = from
    /\ walk' = [walk EXCEPT ![i].phase = to]

WalkBegins(i) ==
    /\ ~ crashed
    /\ walk[i].phase = "front"
    /\ \/ Turned(i, IF bucket[i] = <<>> THEN None ELSE Head(bucket[i])) /\ UNCHANGED crashed
       \/ broken[i] # "no" /\ Turned(i, None) /\ UNCHANGED crashed
       \/ broken[i] # "no" /\ bucket[i] = <<>> /\ Turned(i, None) /\ crashed' = TRUE
    /\ UNCHANGED <<exact, ticks, done, requests, bucket, broken, timer, caller, cancel, loop, exvars>>

\* ready() says yes: the timer was cancelled, or this was its last cycle.
WalkReady(i) ==
    LET t == walk[i].cur IN
    /\ ~ crashed
    /\ Phase(i, "ready", "dispose")
    /\ \/ timer[t].cancelled /\ UNCHANGED timer
       \/ /\ ~ timer[t].cancelled
          /\ timer[t].cycle - 1 <= 0
          /\ timer' = [timer EXCEPT ![t].cycle = @ - 1]
    /\ UNCHANGED <<exact, ticks, done, requests, bucket, broken, caller, cancel, loop, crashed, exvars>>

WalkNotReady(i) ==
    LET t == walk[i].cur IN
    /\ ~ crashed
    /\ walk[i].phase = "ready"
    /\ ~ timer[t].cancelled
    /\ timer[t].cycle - 1 > 0
    /\ timer' = [timer EXCEPT ![t].cycle = @ - 1]
    /\ Turned(i, walk[i].next)
    /\ UNCHANGED <<exact, ticks, done, requests, bucket, broken, caller, cancel, loop, crashed, exvars>>

WalkDisposes(i) ==
    LET t == walk[i].cur IN
    /\ ~ crashed
    /\ walk[i].phase = "dispose"
    /\ Disposed(t, walk[i].tick)
    /\ walk' = [walk EXCEPT ![i].phase = IF timer'[t].started THEN "wait" ELSE "remove"]
    /\ UNCHANGED <<exact, ticks, done, requests, bucket, broken, caller, cancel, loop, crashed>>

\* Schedule of the task engine returns, or panics, and nothing recovers that.
WalkHasExecuted(i) ==
    /\ ~ crashed
    /\ Phase(i, "wait", "remove")
    /\ Scheduled(walk[i].cur)
    /\ crashed' = (job[walk[i].cur] = "lost")
    /\ UNCHANGED <<exact, ticks, done, requests, bucket, broken, timer, caller, cancel, loop, exvars>>

Removed_never(i) == UNCHANGED bucket
Removed(i) == bucket' = [bucket EXCEPT ![i] = RemoveAt(@, Place(i, walk[i].cur))]

WalkRemoves(i) ==
    /\ ~ crashed
    /\ walk[i].phase = "remove"
    /\ Removed(i)
    /\ Turned(i, walk[i].next)
    /\ UNCHANGED <<exact, ticks, done, requests, broken, timer, caller, cancel, loop, crashed, exvars>>

Walk(i) ==
    \/ WalkBegins(i) \/ WalkReady(i) \/ WalkNotReady(i) \/ WalkDisposes(i)
    \/ WalkHasExecuted(i) \/ WalkRemoves(i)

\* The steps that the task engine takes with a job that it was offered.
Executor(t) ==
    /\ ~ crashed
    /\ EX!Proceed(t)
    /\ UNCHANGED <<exact, ticks, done, requests, bucket, broken, walk, timer, caller, cancel,
                   loop, crashed>>

Caller(t) ==
    \/ ScheduleNow(t) \/ CallerHasExecuted(t) \/ Requested(t) \/ ReturnsNil(t)

Loop ==
    \/ \E r \in Range(requests) : TakesRequest(r.timer, r.secs) \/ AppendPanics(r.timer, r.secs)
    \/ TakesTick \/ LoopLeaves \/ LoopDrains \/ LoopPanics \/ LoopEnds

\* The process is gone, or all its goroutines have ended.
Halted ==
    /\ \/ crashed
       \/ /\ loop = "ended"
          /\ \A i \in Ring : walk[i].phase = "none"
          /\ \A t \in Timers : /\ caller[t] \in {"has", "nil", "panicked"}
                               /\ job[t] \in {"new", "refused", "lost", "finished"}
    /\ UNCHANGED vars

Next ==
    \/ \E t \in Timers : Caller(t) \/ Cancel(t) \/ Executor(t)
    \/ \E i \in Ring : Walk(i)
    \/ Loop
    \/ Stop
    \/ Halted

Spec == Init /\ [][Next]_vars

\* The group that Shutdown waits for is empty, also of jobs that are to join it.
Idle == EX!Are({"waiting", "running", "leaving"}) = {}

\* The goroutines are scheduled.  The loop leaves once the context is
\* cancelled (its select meets the case again and again) and its Shutdown
\* returns once no job is left; walks go on, and a task returns after its
\* context was cancelled.  Time itself owes nothing, and no panic is owed.
Fairness ==
    /\ WF_vars((LoopDrains /\ Idle) \/ LoopEnds)
    /\ SF_vars(LoopLeaves)
    /\ \A i \in Ring : WF_vars(Walk(i))
    /\ \A t \in Timers :
          /\ WF_vars(CallerHasExecuted(t))
          /\ WF_vars(Executor(t) /\ job[t] # "running")
          /\ WF_vars(Executor(t) /\ done)

FairSpec == Spec /\ Fairness

(***************************************************************************)
(* Properties                                                              *)
(***************************************************************************)
Phases == {"none", "front", "ready", "dispose", "wait", "remove"}

TypeOK ==
    /\ ticks \in 0..MaxTick
    /\ done \in BOOLEAN /\ crashed \in BOOLEAN
    /\ exact \in BOOLEAN
    /\ {r.timer : r \in Range(requests)} \subseteq Timers /\ Len(requests) <= QueueCap
    /\ \A i \in Ring : Range(bucket[i]) \subseteq Timers
    /\ broken \in [Ring -> {"no", "length", "links"}]
    /\ \A i \in Ring :
          /\ walk[i].phase \in Phases
          /\ {walk[i].cur, walk[i].next} \subseteq Timers \cup {None}
          /\ walk[i].phase # "none" => walk[i].tick % RingSize = i
    /\ \A t \in Timers :
          /\ timer[t].started \in BOOLEAN /\ timer[t].cancelled \in BOOLEAN
          /\ caller[t] \in {"new", "executing", "requested", "has", "nil", "panicked"}
          /\ cancel[t] \in {"none", "true", "false"}
    /\ loop \in {"running", "leaving", "ended"}
    /\ level \in Levels
    /\ pool \in {"up", "stopping", "drained", "failed"}
    /\ job \in [Timers -> {"new", "waiting", "refused", "running", "lost", "leaving", "finished"}]

\* A timer is handed to the task engine at most once, whichever goroutines
\* walk its bucket again in later rounds.
ExecutedOnce == \A t \in Timers : timer[t].execs <= 1

\* Cancel is honest: true means that the task never runs and never will, false
\* that it was disposed of before; also when Cancel falls between the ready()
\* and the dispose() of a walk.
CancelHonest ==
    \A t \in Timers :
        /\ cancel[t] = "true" => timer[t].execs = 0 /\ job[t] = "new"
        /\ cancel[t] = "false" => timer[t].started

\* The walk of a tick that has ended.
WalkOver(k) == k <= ticks /\ walk[k % RingSize].tick # k

\* "Schedule a timer task with delay" (timer_engine.go:157): a timer of s seconds
\* that is placed at tick k is disposed of by the walk of tick k + s and by no
\* other, whatever else the walks, the callers and the task engine do; and the
\* engine does not take its process down, and all timers with it, before a Stop:
\* the races of the loop with a walk on one list, and the late jobs of a task
\* engine that was shut down, are out of reach.  So it is as long as every
\* delay is Exact.
OnTime ==
    exact =>
        /\ crashed => done
        /\ \A t \in Timers :
              /\ timer[t].fired \in {"not", "due"}
              /\ timer[t].due > 0 /\ WalkOver(timer[t].due) => timer[t].cancelled

\* No timer is ever started before its time.
NeverEarly == \A t \in Timers : timer[t].fired # "early"

\* Stop returns, whatever walks, jobs and calls of Schedule are under way, or
\* the process is gone; which nothing but a race of these brings about.
StopReturns == done ~> loop = "ended" \/ crashed
==============================================================================
