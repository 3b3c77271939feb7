-------------------------- MODULE TaskEngineProofs ---------------------------
(***************************************************************************)
(* For every set of tasks and every concurrency level: the engine never    *)
(* runs more tasks than its level allows, and its Wait never returns       *)
(* before the tasks that were added are done.  Both rest on counting: the  *)
(* tokens count the tasks that hold one, and the WaitGroup counts the      *)
(* tasks between Add and Done and those that panicked in between.          *)
(***************************************************************************)
EXTENDS TaskEngine, FiniteSetTheorems, TLAPS

GroupCounts == wg = Cardinality(In(Counted \cup {"panicked"}))

IInv == TypeOK /\ BoundedConcurrency /\ GroupCounts

(***************************************************************************)
(* The size of a set of stages when one task goes on.                      *)
(***************************************************************************)
LEMMA Count ==
    ASSUME TypeOK, NEW S
    PROVE  IsFiniteSet(In(S)) /\ Cardinality(In(S)) \in Nat
<1>1. In(S) \subseteq Tasks
  BY DEF In
<1> QED
  BY <1>1, TasksAssumption, FS_Subset, FS_CardinalityType

LEMMA Enters ==
    ASSUME TypeOK, NEW S, NEW t \in Tasks, NEW from, NEW to, Goes(t, from, to),
           from \notin S, to \in S
    PROVE  Cardinality(In(S))' = Cardinality(In(S)) + 1
<1>1. In(S)' = In(S) \cup {t} /\ t \notin In(S)
  BY DEF In, Goes, TypeOK
<1>2. Cardinality(In(S) \cup {t}) = Cardinality(In(S)) + 1
  BY <1>1, Count, FS_AddElement
<1> QED
  BY <1>1, <1>2

LEMMA Leaves ==
    ASSUME TypeOK, NEW S, NEW t \in Tasks, NEW from, NEW to, Goes(t, from, to),
           from \in S, to \notin S
    PROVE  Cardinality(In(S))' = Cardinality(In(S)) - 1
<1>1. In(S)' = In(S) \ {t} /\ t \in In(S)
  BY DEF In, Goes, TypeOK
<1>2. Cardinality(In(S) \ {t}) = Cardinality(In(S)) - 1
  BY <1>1, Count, FS_RemoveElement
<1> QED
  BY <1>1, <1>2

LEMMA Stays ==
    ASSUME TypeOK, NEW S, NEW t \in Tasks, NEW from, NEW to, Goes(t, from, to),
           from \in S <=> to \in S
    PROVE  In(S)' = In(S)
BY DEF In, Goes, TypeOK

LEMMA Initial == Init => IInv
<1> SUFFICES ASSUME Init PROVE IInv
  OBVIOUS
<1>1. In(HasToken) = {} /\ In(Counted \cup {"panicked"}) = {}
  BY DEF Init, In, HasToken, Counted
<1>2. TypeOK
  BY DEF Init, TypeOK, Stages, Stops
<1> QED
  BY <1>1, <1>2, FS_EmptySet, LevelsAssumption
  DEF Init, IInv, BoundedConcurrency, GroupCounts

LEMMA TasksInductive ==
    ASSUME IInv, NEW t \in Tasks, Schedule(t) \/ Run(t)
    PROVE  IInv'
<1> USE DEF IInv
<1> DEFINE C == Counted \cup {"panicked"}
<1>1. /\ Cardinality(In(HasToken)) \in Nat /\ Cardinality(In(C)) \in Nat
      /\ level \in Nat /\ tokens \in Nat /\ wg = Cardinality(In(C))
  BY Count, LevelsAssumption DEF TypeOK, GroupCounts
<1>2. /\ {"started", "running", "returned"} = HasToken
      /\ C = {"added", "started", "running", "returned", "released", "panicked"}
  BY DEF HasToken, Counted
<1>3. CASE ScheduleCalled(t)
  <2>1. PICK to \in {"refused", "checked"} : Goes(t, "new", to)
    BY <1>3 DEF ScheduleCalled
  <2>2. In(HasToken)' = In(HasToken) /\ In(C)' = In(C)
    BY <1>2, <2>1, Stays
  <2>3. TypeOK'
    BY <1>3, <2>1 DEF ScheduleCalled, Goes, TypeOK, Stages
  <2> QED
    BY <1>3, <2>2, <2>3 DEF ScheduleCalled, BoundedConcurrency, GroupCounts
<1>4. CASE AddedToGroup(t)
  <2>1. Goes(t, "checked", "added") /\ wg' = wg + 1
    BY <1>4 DEF AddedToGroup
  <2>2. In(HasToken)' = In(HasToken) /\ Cardinality(In(C))' = Cardinality(In(C)) + 1
    BY <1>2, <2>1, Stays, Enters
  <2>3. TypeOK'
    BY <1>4, <2>1 DEF AddedToGroup, Goes, TypeOK, Stages
  <2> QED
    BY <1>1, <1>4, <2>1, <2>2, <2>3 DEF AddedToGroup, BoundedConcurrency, GroupCounts
<1>5. CASE TokenSent(t)
  <2>1. Goes(t, "added", "started")
    BY <1>5 DEF TokenSent
  <2>2. Cardinality(In(HasToken))' = Cardinality(In(HasToken)) + 1 /\ In(C)' = In(C)
    BY <1>2, <2>1, Stays, Enters
  <2>3. TypeOK'
    BY <1>5, <2>1 DEF TokenSent, Goes, TypeOK, Stages
  <2>4. BoundedConcurrency'
    BY <1>1, <1>5, <2>2 DEF TokenSent, BoundedConcurrency
  <2> QED
    BY <1>5, <2>2, <2>3, <2>4 DEF TokenSent, GroupCounts
<1>6. CASE SentOnClosed(t)
  <2>1. Goes(t, "added", "panicked")
    BY <1>6 DEF SentOnClosed
  <2>2. In(HasToken)' = In(HasToken) /\ In(C)' = In(C)
    BY <1>2, <2>1, Stays
  <2>3. TypeOK'
    BY <1>6, <2>1 DEF SentOnClosed, Goes, TypeOK, Stages
  <2> QED
    BY <1>6, <2>2, <2>3 DEF SentOnClosed, BoundedConcurrency, GroupCounts
<1>7. CASE Runs(t) \/ RunEnds(t)
  <2>1. Goes(t, "started", "running") \/ Goes(t, "running", "returned")
    BY <1>7 DEF Runs, RunEnds
  <2>2. In(HasToken)' = In(HasToken) /\ In(C)' = In(C)
    BY <1>2, <2>1, Stays
  <2>3. TypeOK'
    BY <1>7, <2>1 DEF Runs, RunEnds, Goes, TypeOK, Stages
  <2> QED
    BY <1>7, <2>2, <2>3 DEF Runs, RunEnds, BoundedConcurrency, GroupCounts
<1>8. CASE TokenReceived(t)
  <2>1. Goes(t, "returned", "released")
    BY <1>8 DEF TokenReceived
  <2>2. Cardinality(In(HasToken))' = Cardinality(In(HasToken)) - 1 /\ In(C)' = In(C)
    BY <1>2, <2>1, Stays, Leaves
  <2>3. TypeOK'
    BY <1>1, <1>8, <2>1 DEF TokenReceived, Goes, TypeOK, Stages
  <2>4. BoundedConcurrency'
    BY <1>1, <1>8, <2>2 DEF TokenReceived, BoundedConcurrency
  <2> QED
    BY <1>8, <2>2, <2>3, <2>4 DEF TokenReceived, GroupCounts
<1>9. CASE Done(t)
  <2>1. Goes(t, "released", "done") /\ wg' = wg - 1
    BY <1>9 DEF Done
  <2>2. In(HasToken)' = In(HasToken) /\ Cardinality(In(C))' = Cardinality(In(C)) - 1
    BY <1>2, <2>1, Stays, Leaves
  <2>3. In(C)' \subseteq Tasks /\ Cardinality(In(C))' \in Nat
    BY TasksAssumption, FS_Subset, FS_CardinalityType DEF In
  <2>4. TypeOK'
    BY <1>1, <1>9, <2>1, <2>2, <2>3 DEF Done, Goes, TypeOK, Stages, Stops
  <2> QED
    BY <1>1, <1>9, <2>1, <2>2, <2>4 DEF Done, BoundedConcurrency, GroupCounts
<1> QED
  BY <1>3, <1>4, <1>5, <1>6, <1>7, <1>8, <1>9 DEF Schedule, Run

LEMMA StoppersInductive ==
    ASSUME IInv, NEW s \in Stoppers, Shutdown(s)
    PROVE  IInv'
<1>1. UNCHANGED <<level, tokens, wg, task>>
  BY DEF Shutdown, ShutdownCalled, FlagSet, WaitCalled, Wakes, Closes
<1>2. stop' \in [Stoppers -> Stops]
  BY DEF IInv, TypeOK, Shutdown, ShutdownCalled, FlagSet, WaitCalled, Wakes, Closes,
         StopGoes, Stops
<1>3. closed' \in BOOLEAN /\ shutdown' \in BOOLEAN
  <2>1. closed' = closed \/ closed' = TRUE
    BY DEF Shutdown, ShutdownCalled, FlagSet, WaitCalled, Wakes, Closes
  <2>2. shutdown' = shutdown \/ shutdown' = TRUE
    BY DEF Shutdown, ShutdownCalled, FlagSet, WaitCalled, Wakes, Closes
  <2> QED
    BY <2>1, <2>2 DEF IInv, TypeOK
<1>4. TypeOK'
  BY <1>1, <1>2, <1>3 DEF IInv, TypeOK
<1> QED
  BY <1>1, <1>4 DEF IInv, BoundedConcurrency, GroupCounts, In

LEMMA Inductive == IInv /\ [Next]_vars => IInv'
<1>1. ASSUME IInv, AllEnded \/ UNCHANGED vars
      PROVE  IInv'
  BY <1>1 DEF AllEnded, vars, IInv, TypeOK, BoundedConcurrency, GroupCounts, In
<1> QED
  BY <1>1, TasksInductive, StoppersInductive DEF Next

(***************************************************************************)
(* The state of the engine is always well formed.                          *)
(***************************************************************************)
THEOREM TypeCorrect == Spec => []TypeOK
<1>1. IInv => TypeOK
  BY DEF IInv
<1> QED
  BY <1>1, Initial, Inductive, PTL DEF Spec

(***************************************************************************)
(* No more tasks hold a token than there are tokens in the channel, and no *)
(* more tokens than the level: bounded concurrency, and no task blocks on  *)
(* giving its token back.                                                  *)
(***************************************************************************)
THEOREM ConcurrencyIsBounded == Spec => []BoundedConcurrency
<1>1. IInv => BoundedConcurrency
  BY DEF IInv
<1> QED
  BY <1>1, Initial, Inductive, PTL DEF Spec

(***************************************************************************)
(* Shutdown gets past Wait only when no task is between Add and Done.      *)
(***************************************************************************)
LEMMA WaitStep ==
    ASSUME IInv, [Next]_vars, NEW s \in Stoppers,
           stop[s] \in {"waiting", "woken"}, stop'[s] = "closing"
    PROVE  In(Counted) = {}
<1>1. wg = 0
  BY DEF IInv, TypeOK, Next, vars, Schedule, Run, Shutdown, ScheduleCalled, AddedToGroup, TokenSent,
         SentOnClosed, Runs, RunEnds, TokenReceived, Done, ShutdownCalled, FlagSet,
         WaitCalled, Wakes, Closes, StopGoes, AllEnded
<1>2. In(Counted \cup {"panicked"}) = {}
  BY <1>1, Count, FS_EmptySet DEF IInv, GroupCounts
<1> QED
  BY <1>2 DEF In

THEOREM ShutdownDrains == Spec => WaitDrains
<1>1. IInv /\ [Next]_vars =>
        [\A s \in Stoppers : stop[s] \in {"waiting", "woken"} /\ stop'[s] = "closing"
                             => In(Counted) = {}]_vars
  BY WaitStep
<1> QED
  BY <1>1, Initial, Inductive, PTL DEF Spec, WaitDrains

(***************************************************************************)
(* The engine is the pool that Executor describes.                         *)
(***************************************************************************)
\* The channel is closed, and a Shutdown gets past its first checks, only after
\* the flag was set; a Schedule panics only on the closed channel.
FlagFirst ==
    /\ ~ shutdown => ~ closed /\ \A s \in Stoppers : stop[s] \in {"new", "checked"}
    /\ closed => level > 0
    /\ \A t \in Tasks : task[t] = "panicked" => closed

Job == [t \in Tasks |-> JobOf(task[t])]

LEMMA FlagInductive == IInv /\ FlagFirst /\ [Next]_vars => FlagFirst'
<1> SUFFICES ASSUME IInv, FlagFirst, [Next]_vars PROVE FlagFirst'
  OBVIOUS
<1> USE DEF FlagFirst, IInv, TypeOK
<1>1. ASSUME NEW t \in Tasks, Schedule(t) \/ Run(t)
      PROVE  FlagFirst'
  BY <1>1 DEF Schedule, Run, ScheduleCalled, AddedToGroup, TokenSent, SentOnClosed, Runs,
              RunEnds, TokenReceived, Done, Goes
<1>2. ASSUME NEW s \in Stoppers, Shutdown(s)
      PROVE  FlagFirst'
  BY <1>2 DEF Shutdown, ShutdownCalled, FlagSet, WaitCalled, Wakes, Closes, StopGoes
<1> QED
  BY <1>1, <1>2 DEF Next, AllEnded, vars

LEMMA JobMoves ==
    ASSUME TypeOK, NEW t \in Tasks, NEW from, NEW to \in Stages, Goes(t, from, to)
    PROVE  /\ Job[t] = JobOf(from)
           /\ Job' = [Job EXCEPT ![t] = JobOf(to)]
BY DEF TypeOK, Goes, Job

\* A step of a task leaves the pool as it is.
LEMMA PoolStays ==
    ASSUME NEW t \in Tasks, Schedule(t) \/ Run(t)
    PROVE  PoolOf' = PoolOf
<1>1. UNCHANGED <<closed, shutdown>>
  BY DEF Schedule, Run, ScheduleCalled, AddedToGroup, TokenSent, SentOnClosed, Runs,
         RunEnds, TokenReceived, Done
<1>2. \A st \in {"closing", "stopped", "panicked"}, s \in Stoppers : stop'[s] = st <=> stop[s] = st
  BY DEF Schedule, Run, ScheduleCalled, AddedToGroup, TokenSent, SentOnClosed, Runs,
         RunEnds, TokenReceived, Done
<1> QED
  BY <1>1, <1>2 DEF PoolOf

\* The instance brings its own copy of Cardinality.
LEMMA SameCardinality == ASSUME NEW S PROVE EX!Cardinality(S) = Cardinality(S)
BY DEF EX!Cardinality, Cardinality

LEMMA TaskStep ==
    ASSUME IInv, FlagFirst, NEW t \in Tasks, Schedule(t) \/ Run(t)
    PROVE  [EX!Next]_(EX!vars)
<1>1. UNCHANGED level /\ PoolOf' = PoolOf
  BY PoolStays DEF Schedule, Run, ScheduleCalled, AddedToGroup, TokenSent, SentOnClosed, Runs,
         RunEnds, TokenReceived, Done
<1>2. CASE ScheduleCalled(t)
  <2>1. shutdown <=> PoolOf # "up"
    BY DEF PoolOf, FlagFirst, IInv, TypeOK
  <2>2. Job[t] = "new" /\ Job' = [Job EXCEPT ![t] = IF shutdown THEN "refused" ELSE "waiting"]
    BY <1>2, JobMoves DEF ScheduleCalled, IInv, JobOf, InSchedule, HasToken, Stages
  <2>3. EX!Offer(t)
    BY <1>1, <2>1, <2>2 DEF EX!Offer, EX!Moves, Job
  <2> QED
    BY <2>3 DEF EX!Next
<1>3. CASE AddedToGroup(t) \/ Runs(t) \/ RunEnds(t)
  <2>1. PICK from \in Stages, to \in Stages : Goes(t, from, to) /\ JobOf(from) = JobOf(to)
    BY <1>3 DEF AddedToGroup, Runs, RunEnds, JobOf, InSchedule, HasToken, Stages
  <2>2. Job' = [Job EXCEPT ![t] = Job[t]]
    BY <2>1, JobMoves DEF IInv
  <2>3. Job' = Job
    BY <2>2 DEF Job
  <2> QED
    BY <1>1, <2>3 DEF EX!vars, Job
<1>4. CASE TokenSent(t)
  <2>1. Job[t] = "waiting" /\ Job' = [Job EXCEPT ![t] = "running"]
    BY <1>4, JobMoves DEF TokenSent, IInv, JobOf, InSchedule, HasToken, Stages
  <2>2. EX!Are({"running"}) = In(HasToken)
    BY DEF EX!Are, In, JobOf, InSchedule, HasToken
  <2>3. level > 0 => Cardinality(In(HasToken)) < level
    BY <1>4, LevelsAssumption DEF TokenSent, IInv, TypeOK, BoundedConcurrency
  <2>4. EX!Start(t)
    BY <1>1, <2>1, <2>2, <2>3, SameCardinality DEF EX!Start, EX!Moves, Job
  <2> QED
    BY <2>4 DEF EX!Next, EX!Proceed
<1>5. CASE SentOnClosed(t)
  <2>1. Job[t] = "waiting" /\ Job' = [Job EXCEPT ![t] = "lost"]
    BY <1>5, JobMoves DEF SentOnClosed, IInv, JobOf, InSchedule, HasToken, Stages
  <2>2. level > 0 /\ PoolOf = "drained"
    BY <1>5 DEF SentOnClosed, FlagFirst, PoolOf
  <2>3. EX!Lose(t)
    BY <1>1, <2>1, <2>2 DEF EX!Lose, EX!Moves, Job
  <2> QED
    BY <2>3 DEF EX!Next, EX!Proceed
<1>6. CASE TokenReceived(t)
  <2>1. Job[t] = "running" /\ Job' = [Job EXCEPT ![t] = "leaving"]
    BY <1>6, JobMoves DEF TokenReceived, IInv, JobOf, InSchedule, HasToken, Stages
  <2>2. EX!Finish(t)
    BY <1>1, <2>1 DEF EX!Finish, EX!Moves, Job
  <2> QED
    BY <2>2 DEF EX!Next, EX!Proceed
<1>7. CASE Done(t)
  <2>1. Job[t] = "leaving" /\ Job' = [Job EXCEPT ![t] = "finished"]
    BY <1>7, JobMoves DEF Done, IInv, JobOf, InSchedule, HasToken, Stages
  <2>2. EX!Leave(t)
    BY <1>1, <2>1 DEF EX!Leave, EX!Moves, Job
  <2> QED
    BY <2>2 DEF EX!Next, EX!Proceed
<1> QED
  BY <1>2, <1>3, <1>4, <1>5, <1>6, <1>7 DEF Schedule, Run

LEMMA StopperStep ==
    ASSUME IInv, FlagFirst, NEW s \in Stoppers, Shutdown(s)
    PROVE  [EX!Next]_(EX!vars)
<1> USE DEF IInv, TypeOK
<1>1. UNCHANGED <<level, task>> /\ Job' = Job
  BY DEF Shutdown, ShutdownCalled, FlagSet, WaitCalled, Wakes, Closes, Job
<1>2. shutdown <=> PoolOf # "up"
  BY DEF PoolOf, FlagFirst
<1>3. CASE PoolOf' = PoolOf
  BY <1>1, <1>3 DEF EX!vars, Job
<1>4. CASE FlagSet(s) /\ PoolOf' # PoolOf
  <2>1. PoolOf = "up" /\ PoolOf' = "stopping"
    BY <1>4 DEF FlagSet, StopGoes, FlagFirst, PoolOf
  <2>2. EX!Shutdown
    BY <1>1, <2>1 DEF EX!Shutdown, EX!PoolGoes, Job
  <2> QED
    BY <2>2 DEF EX!Next
<1>5. ASSUME stop[s] \in {"waiting", "woken"}, stop'[s] = "closing", PoolOf' # PoolOf
      PROVE  [EX!Next]_(EX!vars)
  <2>1. In(Counted) = {}
    BY <1>5, WaitStep DEF Next
  <2>2. EX!Are({"running", "leaving"}) = {}
    BY <2>1 DEF EX!Are, In, JobOf, InSchedule, HasToken, Counted
  <2>3. PoolOf' = "drained"
    BY <1>5 DEF PoolOf
  <2>4. shutdown
    BY <1>5 DEF FlagFirst
  <2>5. PoolOf \in {"stopping", "failed"}
    BY <1>5, <2>3, <2>4 DEF PoolOf
  <2>6. EX!Drain
    BY <1>1, <2>2, <2>3, <2>5 DEF EX!Drain, EX!PoolGoes, Job
  <2> QED
    BY <2>6 DEF EX!Next
<1>6. CASE Wakes(s) /\ wg # 0 /\ PoolOf' # PoolOf
  <2>1. stop[s] = "woken" /\ stop' = [stop EXCEPT ![s] = "panicked"] /\ UNCHANGED <<closed, shutdown>>
    BY <1>6 DEF Wakes, StopGoes
  <2>2. shutdown
    BY <2>1 DEF FlagFirst
  <2>3. PoolOf = "stopping" /\ PoolOf' = "failed" /\ ~ closed
    BY <1>6, <2>1, <2>2 DEF PoolOf
  <2>4. In(Counted) # {}
    <3>1. In(Counted \cup {"panicked"}) # {}
      BY <1>6, FS_EmptySet DEF GroupCounts
    <3> QED
      BY <2>3, <3>1 DEF In, FlagFirst
  <2>5. EX!Are({"waiting", "running", "leaving"}) # {}
    BY <2>4 DEF EX!Are, In, JobOf, InSchedule, HasToken, Counted
  <2>6. EX!Fail
    BY <1>1, <2>3, <2>5 DEF EX!Fail, EX!PoolGoes, Job
  <2> QED
    BY <2>6 DEF EX!Next
<1>7. CASE ShutdownCalled(s) \/ Closes(s) \/ (WaitCalled(s) /\ wg # 0)
  <2>1. PoolOf' = PoolOf
    BY <1>7 DEF ShutdownCalled, Closes, WaitCalled, StopGoes, PoolOf, FlagFirst
  <2> QED
    BY <1>3, <2>1
<1>8. CASE (WaitCalled(s) \/ Wakes(s)) /\ wg = 0
  BY <1>3, <1>5, <1>8 DEF WaitCalled, Wakes, StopGoes
<1> QED
  BY <1>3, <1>4, <1>6, <1>7, <1>8 DEF Shutdown

\* For every number of tasks and Shutdowns, the engine does nothing that the
\* abstract pool does not allow: what TimerEngine is built on.
THEOREM TaskEngineIsAnExecutor == Spec => ImplementsExecutor
<1>1. Init => EX!Init /\ FlagFirst
  <2> SUFFICES ASSUME Init PROVE EX!Init /\ FlagFirst
    OBVIOUS
  <2>1. PoolOf = "up" /\ \A t \in Tasks : JobOf(task[t]) = "new"
    BY DEF Init, PoolOf, JobOf, InSchedule, HasToken
  <2> QED
    BY <2>1 DEF Init, EX!Init, FlagFirst
<1>2. IInv /\ FlagFirst /\ [Next]_vars => [EX!Next]_(EX!vars)
  <2>1. ASSUME AllEnded \/ UNCHANGED vars PROVE UNCHANGED EX!vars
    BY <2>1 DEF AllEnded, vars, EX!vars, PoolOf
  <2> QED
    BY <2>1, TaskStep, StopperStep DEF Next
<1> QED
  BY <1>1, <1>2, Initial, Inductive, FlagInductive, PTL DEF Spec, EX!Spec, ImplementsExecutor
==============================================================================
