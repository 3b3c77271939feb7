----------------------------- MODULE TaskEngine ------------------------------
(***************************************************************************)
(* The task engine of src/taskengine: Schedule starts a goroutine for a    *)
(* task once it has put a token into a channel of bounded capacity, and    *)
(* Shutdown waits on a WaitGroup for the tasks and closes the channel.     *)
(*                                                                         *)
(* A task stands for one call of Schedule, the goroutine of the task, and  *)
(* its end.  A task may schedule another one while it runs (ParentOf).     *)
(* Schedule takes no lock, and the flag it reads is a plain bool: every    *)
(* access to shared state is a step of its own.  (That the read of the     *)
(* flag races with its write adds nothing: a stale value is one that was   *)
(* read earlier.)                                                          *)
(***************************************************************************)
EXTENDS Integers, FiniteSets

CONSTANTS
    Tasks,      \* the calls of Schedule
    ParentOf,   \* ParentOf[t]: the task in which t is scheduled, or Outside
    Outside,
    Levels,     \* the concurrency levels that New is called with
    Stoppers    \* the calls of Shutdown

Spawners == {t \in Tasks : \E c \in Tasks : ParentOf[c] = t}

ASSUME TasksAssumption ==
    /\ IsFiniteSet(Tasks)
    /\ Outside \notin Tasks
    /\ ParentOf \in [Tasks -> Tasks \cup {Outside}]
ASSUME LevelsAssumption == Levels \subseteq Nat

VARIABLES
    level,      \* concurrencyLevel; 0: no channel, no bound
    shutdown,   \* engine.shutdown, and the cancelled context
    tokens,     \* how many tokens are in the channel
    closed,     \* the channel is closed
    wg,         \* the counter of the WaitGroup
    task,       \* task[t]: how far t got
    stop        \* stop[s]: how far the Shutdown s got

vars == <<level, shutdown, tokens, closed, wg, task, stop>>

\* Where a task is.  In Schedule: it is "new", has "checked" the flag, is
\* "added" to the WaitGroup, was "refused" or has "panicked".  In its
\* goroutine: "started", "running", "returned", has "released" its token,
\* "done".
Stages == {"new", "checked", "added", "refused", "panicked",
           "started", "running", "returned", "released", "done"}
InSchedule == {"checked", "added"}
HasToken == {"started", "running", "returned"}
Counted == {"added", "started", "running", "returned", "released"}

\* Where a Shutdown is; "twice" is the panic of a Shutdown that sees the flag.
Stops == {"new", "twice", "checked", "waiting", "blocked", "woken", "closing", "stopped",
          "panicked"}

Init ==
    /\ level \in Levels
    /\ shutdown = FALSE
    /\ tokens = 0
    /\ closed = FALSE
    /\ wg = 0
    /\ task = [t \in Tasks |-> "new"]
    /\ stop = [s \in Stoppers |-> "new"]

Goes(t, from, to) ==
    /\ task[t] = from
    /\ task' = [task EXCEPT ![t] = to]

(***************************************************************************)
(* Schedule                                                                *)
(***************************************************************************)
\* A task scheduled from another task is scheduled while that one runs.
MayBeScheduled(t) == ParentOf[t] # Outside => task[ParentOf[t]] = "running"

ScheduleCalled(t) ==
    /\ MayBeScheduled(t)
    /\ Goes(t, "new", IF shutdown THEN "refused" ELSE "checked")
    /\ UNCHANGED <<level, shutdown, tokens, closed, wg, stop>>

AddedToGroup_missing(t) ==
    /\ Goes(t, "checked", "added")
    /\ UNCHANGED <<level, shutdown, tokens, closed, wg, stop>>

\* engine.Add(1).  A WaitGroup panics, here and in the last Done, when this Add
\* falls between the steps by which that Done wakes a Wait.  Done is one step
\* here, so that of the misuse of a WaitGroup only the panic of Wakes is left.
AddedToGroup(t) ==
    /\ Goes(t, "checked", "added")
    /\ wg' = wg + 1
    /\ UNCHANGED <<level, shutdown, tokens, closed, stop>>

\* engine.concurrencyTokens <- struct{}{}, which blocks while the channel is
\* full and panics once it is closed; then the goroutine is started.
TokenSent_no_capacity(t) ==
    /\ ~ closed
    /\ tokens' = IF level > 0 THEN tokens + 1 ELSE tokens
    /\ Goes(t, "added", "started")
    /\ UNCHANGED <<level, shutdown, closed, wg, stop>>

TokenSent(t) ==
    /\ ~ closed
    /\ \/ level = 0 /\ UNCHANGED tokens
       \/ tokens < level /\ tokens' = tokens + 1
    /\ Goes(t, "added", "started")
    /\ UNCHANGED <<level, shutdown, closed, wg, stop>>

SentOnClosed(t) ==
    /\ closed
    /\ Goes(t, "added", "panicked")
    /\ UNCHANGED <<level, shutdown, tokens, closed, wg, stop>>

(***************************************************************************)
(* run                                                                     *)
(***************************************************************************)
Runs(t) ==
    /\ Goes(t, "started", "running")
    /\ UNCHANGED <<level, shutdown, tokens, closed, wg, stop>>

\* task.Run ends, by a return or by a panic that run recovers; not while the
\* task is still inside a Schedule of its own.
RunEnds(t) ==
    /\ \A c \in Tasks : ParentOf[c] = t => task[c] \notin InSchedule
    /\ Goes(t, "running", "returned")
    /\ UNCHANGED <<level, shutdown, tokens, closed, wg, stop>>

\* <-engine.concurrencyTokens takes a token, also from a closed channel.
TokenReceived_twice(t) ==
    /\ \/ level = 0 /\ UNCHANGED tokens
       \/ tokens > 0 /\ tokens' = IF tokens > 1 THEN tokens - 2 ELSE 0
    /\ Goes(t, "returned", "released")
    /\ UNCHANGED <<level, shutdown, closed, wg, stop>>

TokenReceived(t) ==
    /\ \/ level = 0 /\ UNCHANGED tokens
       \/ tokens > 0 /\ tokens' = tokens - 1
    /\ Goes(t, "returned", "released")
    /\ UNCHANGED <<level, shutdown, closed, wg, stop>>

\* engine.Done(): the last one wakes those who wait.
Done_forgotten(t) ==
    /\ Goes(t, "released", "done")
    /\ UNCHANGED <<level, shutdown, tokens, closed, wg, stop>>

Done(t) ==
    /\ Goes(t, "released", "done")
    /\ wg' = wg - 1
    /\ stop' = [s \in Stoppers |->
                  IF wg' = 0 /\ stop[s] = "blocked" THEN "woken" ELSE stop[s]]
    /\ UNCHANGED <<level, shutdown, tokens, closed>>

(***************************************************************************)
(* Shutdown.  Calls of Shutdown are not synchronised either: one that sees *)
(* the flag panics, two that do not see it both go on.                     *)
(***************************************************************************)
StopGoes(s, from, to) ==
    /\ stop[s] = from
    /\ stop' = [stop EXCEPT ![s] = to]

ShutdownCalled(s) ==
    /\ StopGoes(s, "new", IF shutdown THEN "twice" ELSE "checked")
    /\ UNCHANGED <<level, shutdown, tokens, closed, wg, task>>

FlagSet(s) ==
    /\ StopGoes(s, "checked", "waiting")
    /\ shutdown' = TRUE
    /\ UNCHANGED <<level, tokens, closed, wg, task>>

\* Wait returns at once when the counter is zero.
WaitCalled_returns(s) ==
    /\ StopGoes(s, "waiting", "closing")
    /\ UNCHANGED <<level, shutdown, tokens, closed, wg, task>>

WaitCalled(s) ==
    /\ StopGoes(s, "waiting", IF wg = 0 THEN "closing" ELSE "blocked")
    /\ UNCHANGED <<level, shutdown, tokens, closed, wg, task>>

\* A WaitGroup that was used again before its Wait returned panics.
Wakes(s) ==
    /\ StopGoes(s, "woken", IF wg = 0 THEN "closing" ELSE "panicked")
    /\ UNCHANGED <<level, shutdown, tokens, closed, wg, task>>

\* Closing a closed channel panics; without a channel there is nothing to do.
Closes(s) ==
    /\ StopGoes(s, "closing", IF level > 0 /\ closed THEN "panicked" ELSE "stopped")
    /\ IF level > 0 THEN closed' = TRUE ELSE UNCHANGED closed
    /\ UNCHANGED <<level, shutdown, tokens, wg, task>>

Schedule(t) == ScheduleCalled(t) \/ AddedToGroup(t) \/ TokenSent(t) \/ SentOnClosed(t)
Run(t) == Runs(t) \/ RunEnds(t) \/ TokenReceived(t) \/ Done(t)
Shutdown(s) == ShutdownCalled(s) \/ FlagSet(s) \/ WaitCalled(s) \/ Wakes(s) \/ Closes(s)

\* Nothing is left to do: the only way in which the engine may stop (see
\* ShutdownEnds for the Shutdown that hangs).
AllEnded ==
    /\ \A t \in Tasks : task[t] \in {"new", "refused", "panicked", "done"}
    /\ \A s \in Stoppers :
          \/ stop[s] \in {"twice", "stopped", "panicked"}
          \/ stop[s] = "blocked" /\ \E t \in Tasks : task[t] = "panicked"
    /\ UNCHANGED vars

Next ==
    \/ \E t \in Tasks : Schedule(t) \/ Run(t)
    \/ \E s \in Stoppers : Shutdown(s)
    \/ AllEnded

Spec == Init /\ [][Next]_vars

\* The Go scheduler runs every goroutine.  Of a task nothing is asked but that
\* it returns once its context is cancelled; nobody has to call Schedule or
\* Shutdown.
Fairness ==
    /\ \A t \in Tasks :
          /\ WF_vars(AddedToGroup(t) \/ TokenSent(t) \/ SentOnClosed(t))
          /\ WF_vars(Runs(t) \/ TokenReceived(t) \/ Done(t))
          /\ WF_vars(shutdown /\ RunEnds(t))
    /\ \A s \in Stoppers : WF_vars(FlagSet(s) \/ WaitCalled(s) \/ Wakes(s) \/ Closes(s))

FairSpec == Spec /\ Fairness

(***************************************************************************)
(* Properties                                                              *)
(***************************************************************************)
TypeOK ==
    /\ level \in Levels
    /\ shutdown \in BOOLEAN
    /\ tokens \in Nat
    /\ closed \in BOOLEAN
    /\ wg \in Nat
    /\ task \in [Tasks -> Stages]
    /\ stop \in [Stoppers -> Stops]

In(stages) == {t \in Tasks : task[t] \in stages}

\* New(..., concurrencyLevel, ...): no more tasks run at a time than the level
\* allows, and the tokens in the channel are those of the tasks that run (so
\* that no task can block on giving its token back), also when the channel is
\* closed under tasks that slipped past Shutdown.
BoundedConcurrency ==
    level > 0 =>
        /\ Cardinality(In(HasToken)) = tokens
        /\ tokens <= level

\* Shutdown goes on from Wait only when no task that was added is unfinished:
\* it never closes the channel under a task that was scheduled in time.
WaitDrains ==
    [][\A s \in Stoppers :
          stop[s] \in {"waiting", "woken"} /\ stop'[s] = "closing"
          => In(Counted) = {}]_vars

\* A Shutdown that began ends (it returns, or it panics when it meets another
\* Shutdown or a task that was added too late), whatever Schedule calls are
\* under way and even when some wait for a token, as long as the tasks that
\* schedule tasks of their own cannot fill the channel.  Only a second Shutdown
\* may hang: a Schedule that panics on the closed channel leaves its count in
\* the WaitGroup behind.
Gone(s) == stop[s] \in {"stopped", "panicked"}
ShutdownEnds ==
    /\ (\E s \in Stoppers : stop[s] = "waiting") ~> (\E s \in Stoppers : Gone(s))
    /\ \A s \in Stoppers :
          stop[s] = "waiting" ~> Gone(s) \/ In({"panicked"}) # {}

\* After a shutdown was begun no goroutine of the engine stays behind: every
\* call of Schedule returns and every task that was started gets done.
NothingStuck == shutdown ~> In(Counted \cup InSchedule) = {}

\* "already stopped, should not schedule new task" (taskengine.go:43): once
\* Shutdown has returned, no task runs and a call of Schedule is refused.
StoppedMeansRefused ==
    (\E s \in Stoppers : stop[s] = "stopped") =>
        In({"running", "panicked"}) = {}

\* The engine is the pool that Executor describes: a job waits from the check
\* of the flag until it has its token, and the pool is drained from the moment
\* at which a Shutdown gets past Wait.
JobOf(stage) ==
    CASE stage \in InSchedule -> "waiting"
      [] stage \in HasToken   -> "running"
      [] stage = "released"   -> "leaving"
      [] stage = "done"       -> "finished"
      [] stage = "panicked"   -> "lost"
      [] stage = "refused"    -> "refused"
      [] OTHER                -> "new"

PoolOf ==
    IF closed \/ \E s \in Stoppers : stop[s] \in {"closing", "stopped"} THEN "drained"
    ELSE IF \E s \in Stoppers : stop[s] = "panicked" THEN "failed"
    ELSE IF shutdown THEN "stopping"
    ELSE "up"

EX == INSTANCE Executor WITH
        Jobs <- Tasks, pool <- PoolOf, job <- [t \in Tasks |-> JobOf(task[t])]
ImplementsExecutor == EX!Spec
==============================================================================
