-------------------------- MODULE DeploymentProofs ---------------------------
(***************************************************************************)
(* For any number of runs of `kate new`, and for any choice of components: *)
(* what a run puts at the target is the whole project that it was asked    *)
(* for, no project is replaced, and no staging directory is left behind.   *)
(* The invariant says what is in the staging directory of each run, step   *)
(* by step, and that the target is the directory of a run that is done.    *)
(*                                                                         *)
(* That the project of each choice builds is a fact about the template     *)
(* (TemplateBuilds): TLC computes it, and the theorem about it takes it as *)
(* its condition.                                                          *)
(***************************************************************************)
EXTENDS Deployment, SequenceTheorems, TLAPS

\* The files of the project of a choice of components.
Project(components) ==
    [p \in Kept(Components \ components) |-> Materialized(p, Components \ components, "app")]

TemplateBuilds ==
    \A components \in SUBSET Components :
        /\ Builds(Project(components))
        /\ Sections(Project(components)) = components
        /\ Components \cap Range(StartSteps(Project(components))) = components
        /\ InOrder(StartSteps(Project(components)))

Stages == {"new", "checked", "materializing", "module", "built", "removed", "done",
           "failing", "failed", "killed"}

RunsOK == run \in [Runs -> [pc : Stages, components : SUBSET Components, degraded : BOOLEAN]]

Whole(k) == [kind |-> "dir", by |-> k, files |-> Project(run[k].components)]

Partial(k, files) ==
    /\ files = [p \in DOMAIN files |-> Materialized(p, Disabled(k), "app")]
    /\ DOMAIN files \subseteq Kept(Disabled(k))

StagingAt(k) ==
    /\ run[k].pc \in {"new", "checked", "done", "failed"} => staging[k] = Absent
    /\ run[k].pc = "materializing" =>
          /\ staging[k] = [kind |-> "dir", by |-> k, files |-> staging[k].files]
          /\ Partial(k, staging[k].files)
    /\ run[k].pc \in {"module", "built", "removed"} => staging[k] = Whole(k)

StagingOK == DOMAIN staging = Runs /\ \A k \in Runs : StagingAt(k)

TargetOK ==
    /\ target = [kind |-> target.kind, by |-> target.by, files |-> target.files]
    /\ target.kind = "absent" => target = Absent
    /\ \A k \in Runs : run[k].pc = "done" => target = Whole(k)
    /\ target.by \in Runs => run[target.by].pc = "done"

IInv == RunsOK /\ StagingOK /\ TargetOK

(***************************************************************************)
(* Facts about the template: the Makefile is in every project.             *)
(***************************************************************************)
LEMMA MakefileKept ==
    ASSUME NEW disabled \in SUBSET Components
    PROVE  "Makefile" \in Kept(disabled)
<1>1. "Makefile" \in DOMAIN TemplateFS
  BY DEF TemplateFS
<1>2. ASSUME NEW comp \in Components
      PROVE  "Makefile" \notin componentFiles(comp)
  BY DEF Components, componentFiles
<1> QED
  BY <1>1, <1>2 DEF Kept, fileOwnedByDisabled

LEMMA WholeNotEmpty ==
    ASSUME RunsOK, NEW k \in Runs
    PROVE  ~IsEmptyDir(Whole(k)) /\ Whole(k).kind = "dir" /\ Whole(k).by = k
<1>1. "Makefile" \in DOMAIN Project(run[k].components)
  BY MakefileKept DEF Project
<1> QED
  BY <1>1 DEF Whole, IsEmptyDir

\* Of two runs one at most is done.
LEMMA OneDone ==
    ASSUME IInv, NEW j \in Runs, NEW k \in Runs, run[j].pc = "done", run[k].pc = "done"
    PROVE  j = k
<1>1. target = Whole(j) /\ target = Whole(k)
  BY DEF IInv, TargetOK
<1>2. Whole(j).by = j /\ Whole(k).by = k
  BY WholeNotEmpty DEF IInv
<1> QED
  BY <1>1, <1>2

LEMMA FreeTarget ==
    ASSUME IInv, IsEmptyDir(target) \/ target.kind \in {"absent", "file"}
    PROVE  (\A k \in Runs : run[k].pc # "done") /\ target.by \notin Runs
<1>1. ASSUME NEW k \in Runs, run[k].pc = "done" PROVE FALSE
  BY <1>1, WholeNotEmpty DEF IInv, TargetOK
<1> QED
  BY <1>1 DEF IInv, TargetOK

LEMMA Initial == Init => IInv
<1> SUFFICES ASSUME Init PROVE IInv
  OBVIOUS
<1>1. run = [k \in Runs |-> NotBegun] /\ staging = [k \in Runs |-> Absent]
      /\ target \in {Absent, Empty("user")}
  BY DEF Init, ScaffoldInit
<1> QED
  BY <1>1, RunsAssumption DEF IInv, RunsOK, StagingOK, StagingAt, TargetOK, NotBegun, Absent, Empty, Stages

(***************************************************************************)
(* A step of one run leaves the staging directories of the others alone.   *)
(***************************************************************************)
LEMMA LocalStaging ==
    ASSUME IInv, NEW k \in Runs, DOMAIN staging' = Runs, StagingAt(k)',
           \A j \in Runs \ {k} : run'[j] = run[j] /\ staging'[j] = staging[j]
    PROVE  StagingOK'
<1>1. ASSUME NEW j \in Runs \ {k} PROVE StagingAt(j)'
  <2>1. run'[j] = run[j] /\ staging'[j] = staging[j] /\ StagingAt(j)
    BY <1>1 DEF IInv, StagingOK
  <2>2. Whole(j)' = Whole(j) /\ Disabled(j)' = Disabled(j)
    BY <2>1 DEF Whole, Disabled
  <2> QED
    BY <2>1, <2>2 DEF StagingAt, Partial
<1> QED
  BY <1>1 DEF StagingOK

LEMMA LocalStep ==
    ASSUME IInv, NEW k \in Runs, RunsOK', DOMAIN staging' = Runs, StagingAt(k)',
           \A j \in Runs \ {k} : run'[j] = run[j] /\ staging'[j] = staging[j],
           run[k].pc # "done", run'[k].pc # "done", UNCHANGED target
    PROVE  IInv'
<1>1. StagingOK'
  BY LocalStaging
<1>2. ASSUME NEW j \in Runs, run'[j].pc = "done" PROVE target' = Whole(j)'
  BY <1>2 DEF IInv, TargetOK, Whole
<1>3. target.by \in Runs => run'[target.by].pc = "done"
  BY DEF IInv, TargetOK
<1>4. TargetOK'
  BY <1>2, <1>3 DEF IInv, TargetOK
<1> QED
  BY <1>1, <1>4 DEF IInv

LEMMA Moves ==
    ASSUME RunsOK, NEW k \in Runs, NEW to \in Stages, run' = [run EXCEPT ![k].pc = to]
    PROVE  /\ RunsOK'
           /\ run'[k].pc = to /\ run'[k].components = run[k].components
           /\ \A j \in Runs \ {k} : run'[j] = run[j]
BY DEF RunsOK

LEMMA BeginsStep ==
    ASSUME IInv, NEW k \in Runs, NEW components \in Selections[k], Begins(k, components)
    PROVE  IInv'
<1>1. /\ run[k].pc = "new" /\ run'[k].pc \in {"checked", "failed"} /\ RunsOK'
      /\ \A j \in Runs \ {k} : run'[j] = run[j]
  <2>1. PICK pc \in {"checked", "failed"} :
           run' = [run EXCEPT ![k] = [@ EXCEPT !.components = components, !.pc = pc]]
    BY DEF Begins
  <2>2. run[k] \in [pc : Stages, components : SUBSET Components, degraded : BOOLEAN]
        /\ components \in SUBSET Components /\ pc \in Stages
    BY SelectionsAssumption DEF IInv, RunsOK, Stages
  <2>3. run'[k] \in [pc : Stages, components : SUBSET Components, degraded : BOOLEAN]
        /\ run'[k].pc = pc
    BY <2>1, <2>2 DEF IInv, RunsOK
  <2> QED
    BY <2>1, <2>3 DEF Begins, IInv, RunsOK
<1>2. UNCHANGED <<target, staging>>
  BY DEF Begins
<1>3. StagingAt(k)'
  BY <1>1, <1>2 DEF IInv, StagingOK, StagingAt
<1> QED
  BY <1>1, <1>2, <1>3, LocalStep DEF IInv, StagingOK

LEMMA MakesStagingStep ==
    ASSUME IInv, NEW k \in Runs, MakesStaging(k)
    PROVE  IInv'
<1>1. CASE Advances(k, "checked", "failed") /\ UNCHANGED staging
  <2>1. /\ run[k].pc = "checked" /\ run'[k].pc = "failed" /\ RunsOK'
        /\ \A j \in Runs \ {k} : run'[j] = run[j]
    BY <1>1, Moves DEF Advances, IInv, Stages
  <2>2. UNCHANGED <<target, staging>> /\ DOMAIN staging' = Runs
    BY <1>1 DEF MakesStaging, IInv, StagingOK
  <2>3. StagingAt(k)'
    BY <2>1, <2>2 DEF IInv, StagingOK, StagingAt
  <2> QED
    BY <2>1, <2>2, <2>3, LocalStep
<1>2. CASE /\ Advances(k, "checked", "materializing")
           /\ staging' = [staging EXCEPT ![k] = Empty(k)]
  <2>1. /\ run[k].pc = "checked" /\ run'[k].pc = "materializing" /\ RunsOK'
        /\ \A j \in Runs \ {k} : run'[j] = run[j]
    BY <1>2, Moves DEF Advances, IInv, Stages
  <2>2. /\ staging'[k] = Empty(k) /\ DOMAIN staging' = Runs /\ UNCHANGED target
        /\ \A j \in Runs \ {k} : staging'[j] = staging[j]
    BY <1>2 DEF MakesStaging, IInv, StagingOK
  <2>3. Partial(k, <<>>)'
    BY DEF Partial
  <2>4. StagingAt(k)'
    BY <2>1, <2>2, <2>3 DEF StagingAt, Empty, Partial
  <2> QED
    BY <2>1, <2>2, <2>4, LocalStep
<1> QED
  BY <1>1, <1>2 DEF MakesStaging

LEMMA MaterializesStep ==
    ASSUME IInv, NEW k \in Runs, Materializes(k)
    PROVE  IInv'
<1> DEFINE files == staging[k].files
<1>1. /\ run[k].pc = "materializing" /\ UNCHANGED target /\ DOMAIN staging = Runs
      /\ staging[k] = [kind |-> "dir", by |-> k, files |-> files] /\ Partial(k, files)
  BY DEF Materializes, IInv, StagingOK, StagingAt
<1>2. CASE Advances(k, "materializing", "module") /\ Missing(k) = {} /\ UNCHANGED staging
  <2>1. /\ run'[k].pc = "module" /\ run'[k].components = run[k].components /\ RunsOK'
        /\ \A j \in Runs \ {k} : run'[j] = run[j]
    BY <1>2, Moves DEF Advances, IInv, Stages
  <2>2. DOMAIN files = Kept(Disabled(k))
    BY <1>1, <1>2 DEF Missing, Partial
  <2>3. files = Project(run[k].components)
    BY <1>1, <2>2 DEF Partial, Project, Disabled
  <2>4. StagingAt(k)'
    BY <1>1, <1>2, <2>1, <2>3 DEF StagingAt, Whole
  <2> QED
    BY <1>1, <1>2, <2>1, <2>4, LocalStep
<1>3. CASE Advances(k, "materializing", "failing") /\ UNCHANGED staging
  <2>1. /\ run'[k].pc = "failing" /\ RunsOK' /\ \A j \in Runs \ {k} : run'[j] = run[j]
    BY <1>3, Moves DEF Advances, IInv, Stages
  <2> QED
    BY <1>1, <1>3, <2>1, LocalStep DEF StagingAt
<1>4. ASSUME NEW p \in Missing(k), UNCHANGED run,
             staging' = [staging EXCEPT ![k].files =
                [q \in {p} \cup DOMAIN @ |-> IF q = p THEN Materialized(p, Disabled(k), "app") ELSE @[q]]]
      PROVE  IInv'
  <2> DEFINE more == [q \in {p} \cup DOMAIN files |->
                        IF q = p THEN Materialized(p, Disabled(k), "app") ELSE files[q]]
  <2>1. /\ staging'[k] = [kind |-> "dir", by |-> k, files |-> more] /\ DOMAIN staging' = Runs
        /\ \A j \in Runs \ {k} : staging'[j] = staging[j]
    BY <1>1, <1>4
  <2>2. Partial(k, more)
    BY <1>1, <1>4 DEF Partial, Missing
  <2>3. StagingAt(k)'
    BY <1>1, <1>4, <2>1, <2>2 DEF StagingAt, Partial, Disabled
  <2>4. RunsOK'
    BY <1>4 DEF IInv, RunsOK
  <2> QED
    BY <1>1, <1>4, <2>1, <2>3, <2>4, LocalStep
<1> QED
  BY <1>2, <1>3, <1>4 DEF Materializes

LEMMA QuietSteps ==
    ASSUME IInv, NEW k \in Runs, SetsUpModule(k) \/ CleansUp(k) \/ Killed(k)
    PROVE  IInv'
<1>1. CASE SetsUpModule(k)
  <2>1. PICK to \in {"built", "failing"} :
           run' = [run EXCEPT ![k].pc = to] \/ run' = [run EXCEPT ![k].pc = to, ![k].degraded = TRUE]
    BY <1>1 DEF SetsUpModule, Advances
  <2>2. /\ run[k].pc = "module" /\ UNCHANGED <<target, staging>>
        /\ run'[k].pc = to /\ run'[k].components = run[k].components /\ RunsOK'
        /\ \A j \in Runs \ {k} : run'[j] = run[j]
    BY <1>1, <2>1 DEF SetsUpModule, Advances, IInv, RunsOK, Stages
  <2>3. StagingAt(k)'
    BY <2>2 DEF IInv, StagingOK, StagingAt, Whole
  <2> QED
    BY <2>2, <2>3, LocalStep DEF IInv, StagingOK
<1>2. CASE CleansUp(k)
  <2>1. /\ run[k].pc = "failing" /\ run'[k].pc = "failed" /\ RunsOK' /\ UNCHANGED target
        /\ \A j \in Runs \ {k} : run'[j] = run[j]
    BY <1>2, Moves DEF CleansUp, Advances, IInv, Stages
  <2>2. /\ staging'[k] = Absent /\ DOMAIN staging' = Runs
        /\ \A j \in Runs \ {k} : staging'[j] = staging[j]
    BY <1>2 DEF CleansUp, IInv, StagingOK
  <2> QED
    BY <2>1, <2>2, LocalStep DEF StagingAt
<1>3. CASE Killed(k)
  <2>1. /\ run[k].pc # "done" /\ run'[k].pc = "killed" /\ RunsOK' /\ UNCHANGED <<target, staging>>
        /\ \A j \in Runs \ {k} : run'[j] = run[j]
    BY <1>3, Moves DEF Killed, Ended, IInv, Stages
  <2> QED
    BY <2>1, LocalStep DEF StagingAt, IInv, StagingOK
<1> QED
  BY <1>1, <1>2, <1>3

LEMMA RemovesTargetStep ==
    ASSUME IInv, NEW k \in Runs, RemovesTarget(k)
    PROVE  IInv'
<1>1. /\ run[k].pc = "built" /\ run'[k].pc = "removed" /\ run'[k].components = run[k].components
      /\ RunsOK' /\ UNCHANGED staging /\ \A j \in Runs \ {k} : run'[j] = run[j]
  BY Moves DEF RemovesTarget, Advances, IInv, Stages
<1>2. StagingAt(k)'
  BY <1>1 DEF IInv, StagingOK, StagingAt, Whole
<1>3. CASE UNCHANGED target
  BY <1>1, <1>2, <1>3, LocalStep DEF IInv, StagingOK
<1>4. CASE target' = Absent /\ (IsEmptyDir(target) \/ target.kind = "file")
  <2>1. \A j \in Runs : run'[j].pc # "done"
    BY <1>1, <1>4, FreeTarget
  <2>2. TargetOK'
    BY <1>4, <2>1, RunsAssumption DEF TargetOK, Absent
  <2>3. StagingOK'
    BY <1>1, <1>2, LocalStaging DEF IInv, StagingOK
  <2> QED
    BY <1>1, <2>2, <2>3 DEF IInv
<1> QED
  BY <1>3, <1>4 DEF RemovesTarget

LEMMA RenamesStep ==
    ASSUME IInv, NEW k \in Runs, Renames(k)
    PROVE  IInv'
<1>1. CASE target = Absent
  <2>1. /\ run[k].pc = "removed" /\ run'[k].pc = "done" /\ run'[k].components = run[k].components
        /\ RunsOK' /\ \A j \in Runs \ {k} : run'[j] = run[j]
    BY <1>1, Moves DEF Renames, Advances, IInv, Stages
  <2>2. /\ target' = staging[k] /\ staging'[k] = Absent /\ DOMAIN staging' = Runs
        /\ \A j \in Runs \ {k} : staging'[j] = staging[j]
    BY <1>1 DEF Renames, IInv, StagingOK
  <2>3. target' = Whole(k)'
    BY <2>1, <2>2 DEF IInv, StagingOK, StagingAt, Whole
  <2>4. \A j \in Runs : run[j].pc # "done"
    BY <1>1, FreeTarget DEF Absent
  <2>5. TargetOK'
    BY <2>1, <2>3, <2>4 DEF TargetOK, Whole
  <2>6. StagingOK'
    BY <2>1, <2>2, LocalStaging DEF StagingAt
  <2> QED
    BY <2>1, <2>5, <2>6 DEF IInv
<1>2. CASE target # Absent
  <2>1. /\ run[k].pc = "removed" /\ run'[k].pc = "failing" /\ RunsOK'
        /\ UNCHANGED <<target, staging>> /\ \A j \in Runs \ {k} : run'[j] = run[j]
    BY <1>2, Moves DEF Renames, Advances, IInv, Stages
  <2> QED
    BY <2>1, LocalStep DEF StagingAt, IInv, StagingOK
<1> QED
  BY <1>1, <1>2

LEMMA UserStep ==
    ASSUME IInv, UserActs
    PROVE  IInv'
<1>1. UNCHANGED <<staging, run>> /\ (target = Absent \/ IsEmptyDir(target))
  BY DEF UserActs
<1>2. (\A k \in Runs : run[k].pc # "done") /\ target.by \notin Runs
  BY <1>1, FreeTarget DEF Absent
<1>3. TargetOK'
  <2>1. CASE target' \in {Empty("user"), [kind |-> "file", by |-> "user", files |-> <<>>]}
    BY <1>1, <1>2, <2>1, RunsAssumption DEF TargetOK, Empty, Absent
  <2>2. CASE IsEmptyDir(target) /\ target' = [target EXCEPT !.files = [p \in {"notes"} |-> File("none", {}, <<>>)]]
    <3>1. target = [kind |-> "dir", by |-> target.by, files |-> target.files]
      BY <2>2 DEF IInv, TargetOK, IsEmptyDir
    <3>2. target' = [kind |-> "dir", by |-> target.by, files |-> [p \in {"notes"} |-> File("none", {}, <<>>)]]
      BY <2>2, <3>1
    <3> QED
      BY <1>1, <1>2, <3>2 DEF TargetOK, Absent
  <2> QED
    BY <2>1, <2>2 DEF UserActs
<1> QED
  BY <1>1, <1>3 DEF IInv, RunsOK, StagingOK, StagingAt, Whole, Partial, Disabled

LEMMA DeploysStep ==
    ASSUME IInv, NEW k \in Runs, Deploys(k)
    PROVE  IInv'
<1>1. run' = [j \in Runs |-> NotBegun] /\ staging' = [j \in Runs |-> Absent] /\ target' = Absent
  BY DEF Deploys
<1> QED
  BY <1>1, RunsAssumption DEF IInv, RunsOK, StagingOK, StagingAt, TargetOK, NotBegun, Absent, Stages

LEMMA Inductive == IInv /\ [Next]_vars => IInv'
<1> SUFFICES ASSUME IInv, [Next]_vars PROVE IInv'
  OBVIOUS
<1>1. CASE UNCHANGED scaffoldVars
  <2>1. UNCHANGED <<target, staging, run>>
    BY <1>1 DEF scaffoldVars
  <2>2. RunsOK' /\ TargetOK'
    BY <2>1 DEF IInv, RunsOK, TargetOK, Whole
  <2>3. ASSUME NEW k \in Runs PROVE StagingAt(k)'
    <3>1. StagingAt(k) /\ Whole(k)' = Whole(k) /\ Disabled(k)' = Disabled(k)
      BY <2>1 DEF IInv, StagingOK, Whole, Disabled
    <3> QED
      BY <2>1, <3>1 DEF StagingAt, Partial
  <2> QED
    BY <2>1, <2>2, <2>3 DEF IInv, StagingOK
<1>2. CASE ScaffoldNext
  BY <1>2, UserStep, BeginsStep, MakesStagingStep, MaterializesStep, QuietSteps,
     RemovesTargetStep, RenamesStep DEF ScaffoldNext
<1> QED
  BY <1>1, <1>2, DeploysStep DEF Next, vars, scaffoldVars

(***************************************************************************)
(* Of any number of runs for one target one at most reports success, its   *)
(* project is at the target, and what a run has put there reported it.     *)
(***************************************************************************)
THEOREM OneProject == Spec => []TargetKept
<1>1. IInv => TargetKept
  <2> SUFFICES ASSUME IInv PROVE TargetKept
    OBVIOUS
  <2>1. ASSUME NEW k \in Runs, run[k].pc = "done" PROVE target.by = k
    BY <2>1, WholeNotEmpty DEF IInv, TargetOK
  <2>2. ASSUME NEW k \in Runs, target.by = k PROVE run[k].pc = "done"
    BY <2>2 DEF IInv, TargetOK
  <2> QED
    BY <2>1, <2>2 DEF TargetKept
<1> QED
  BY <1>1, Initial, Inductive, PTL DEF Spec

(***************************************************************************)
(* No run that has ended by itself leaves its staging directory behind.    *)
(***************************************************************************)
THEOREM NothingLeftBehind == Spec => []NoStagingLeft
<1>1. IInv => NoStagingLeft
  BY DEF IInv, StagingOK, StagingAt, NoStagingLeft
<1> QED
  BY <1>1, Initial, Inductive, PTL DEF Spec

(***************************************************************************)
(* What a run puts at the target is its whole project, which builds if the *)
(* template does so for each choice.                                       *)
(***************************************************************************)
THEOREM WholeProjects ==
    ASSUME TemplateBuilds
    PROVE  Spec => []NeverHalf
<1>1. IInv => NeverHalf
  <2> SUFFICES ASSUME IInv, NEW k \in Runs, target.by = k
               PROVE  /\ DOMAIN target.files = Wanted(run[k].components)
                      /\ Builds(target.files)
                      /\ Sections(target.files) = run[k].components
                      /\ Components \cap Range(StartSteps(target.files)) = run[k].components
                      /\ InOrder(StartSteps(target.files))
    BY DEF NeverHalf
  <2>1. target.files = Project(run[k].components) /\ run[k].components \in SUBSET Components
    BY DEF IInv, TargetOK, Whole, RunsOK
  <2>2. Kept(Components \ run[k].components) = Wanted(run[k].components)
    BY DEF Kept, fileOwnedByDisabled, Wanted
  <2> QED
    BY <2>1, <2>2 DEF TemplateBuilds, Project
<1> QED
  BY <1>1, Initial, Inductive, PTL DEF Spec

(***************************************************************************)
(* Whatever the runs and the user do, a directory at the target with       *)
(* something in it is left alone (new.go:73 removes empty ones only).      *)
(***************************************************************************)
THEOREM FullDirectoriesStay == Spec => DirectoriesStay
<1>1. [Next]_vars => [target.kind = "dir" /\ ~IsEmptyDir(target) /\ ~deployed' => target' = target]_vars
  <2> SUFFICES ASSUME [Next]_vars, target.kind = "dir", ~IsEmptyDir(target), ~deployed'
               PROVE  target' = target
    OBVIOUS
  <2>1. target # Absent
    BY DEF Absent
  <2>2. CASE ScaffoldNext
    BY <2>1, <2>2 DEF ScaffoldNext, UserActs, Begins, MakesStaging, Materializes, SetsUpModule,
                      RemovesTarget, Renames, CleansUp, Killed
  <2> QED
    BY <2>2 DEF Next, Deploys, vars, scaffoldVars
<1> QED
  BY <1>1, PTL DEF Spec, DirectoriesStay

(***************************************************************************)
(* For any number of processes of the service of a project, of requests    *)
(* and of signals: no request meets a closed backend, an orderly stop cuts *)
(* none short, an upgrade hands over to a child that accepts connections,  *)
(* and the pid file names no process that was stopped in order.            *)
(*                                                                         *)
(* The invariant ties what a process has open to what it has deferred,     *)
(* which is always a first part of the start command (ProcOK), and says    *)
(* which server a request keeps waiting (CallOK).  That the start command  *)
(* of each project is InOrder is part of TemplateBuilds.                   *)
(***************************************************************************)
Steps == DOMAIN Order

\* Where a process has not begun to stop.
Coming == {"starting", "notifying", "loop", "upgrading"}

ProcRecord ==
    [pc : Coming \cup {"none", "stopping", "gone"}, ip : Nat, defers : Seq(Steps),
     open : SUBSET (Servers \cup Backends), accepting : SUBSET Servers, failing : BOOLEAN,
     serve : [Servers -> {"none", "spawned", "serving", "returned"}],
     parent : Procs \cup {None}, child : Procs \cup {None}, up : BOOLEAN, exit : BOOLEAN,
     notified : BOOLEAN, signal : Sigs \cup {None}, fate : Fates \cup {None}]

\* d is what the first n steps deferred.
FirstPart(d) == \E n \in 0..Len(code) : d = SubSeq(code, 1, n)

ProcOK(q) ==
    /\ q \in ProcRecord
    /\ FirstPart(q.defers)
    /\ q.pc \in Coming => q.ip \in 1..Len(code) /\ q.defers = SubSeq(code, 1, q.ip - 1)
    /\ q.pc \in {"notifying", "loop", "upgrading"} => code[q.ip] = "ready"
    /\ q.pc \in {"none", "gone"} => q.accepting = {}
    /\ q.pc \in {"none", "starting"} => ~q.up
    /\ q.accepting \subseteq q.open \cap Range(q.defers)
    /\ q.open \subseteq Range(q.defers) \cup Servers
    /\ Backends \cap Range(q.defers) \subseteq q.open
    /\ q.pc \in Coming => Servers \cap Range(q.defers) \subseteq q.accepting
    /\ \A s \in Servers \ q.accepting : q.serve[s] = "spawned" =>
          q.pc = "stopping" /\ q.defers # <<>> /\ Last(q.defers) = s

\* A busy call waits in a process that has not stopped its server.
Waited(q, s) ==
    /\ q.pc \notin {"none", "gone"}
    /\ s \in Servers \cap Range(q.defers)
    /\ q.serve[s] # "spawned"

\* An end that may cut calls.
Cutting(fate, up) == fate \in Fates \ {"stopped", "late"} /\ (fate = "failed" => ~up)

\* A call is cut by the end of its process.
CutBy(q) == q.pc = "gone" /\ Cutting(q.fate, q.up)

CallOK(c) ==
    /\ call[c] \in [state : {"new", "busy", "done", "cut"}, by : Procs \cup {None}]
    /\ call[c].state \in {"busy", "cut"} => call[c].by \in Procs
    /\ call[c].state = "busy" => Waited(proc[call[c].by], To[c])
    /\ call[c].state = "cut" => CutBy(proc[call[c].by])

\* Who has been replaced has a child that was ready.
ChildOK(p) ==
    /\ proc[p].exit => proc[p].child \in Procs /\ proc[proc[p].child].up
    /\ proc[p].pc = "upgrading" =>
          /\ ~proc[p].exit
          /\ proc[p].child \in Procs \ {p} /\ proc[proc[p].child].pc # "none"

PidOK ==
    /\ pidfile \in Procs \cup {None}
    /\ pidfile \in Procs =>
          /\ proc[pidfile].pc # "none"
          /\ proc[pidfile].pc = "gone" => proc[pidfile].fate # "stopped"
    /\ \A p \in Procs : proc[p].pc \in {"notifying", "loop"} =>
          pidfile = p \/ \E q \in Procs \ {p} : proc[q].pc # "none"

ServiceInv ==
    /\ proc = [p \in Procs |-> proc[p]]
    /\ call = [c \in Calls |-> call[c]]
    /\ \A p \in Procs : ProcOK(proc[p])
    /\ \A c \in Calls : CallOK(c)
    /\ \A p \in Procs : ChildOK(p)
    /\ PidOK

\* Before the service is installed nothing of it is there.
Pristine ==
    /\ proc = [p \in Procs |-> NoProcess]
    /\ call = [c \in Calls |-> NewCall]
    /\ pidfile = None

DInv ==
    /\ IInv
    /\ target.kind \in {"absent", "dir", "file"}
    /\ deployed \in BOOLEAN
    /\ deployed => InOrder(code)
    /\ ~deployed => Pristine
    /\ deployed => ServiceInv

(***************************************************************************)
(* The steps that a process has deferred: a first part of its code.        *)
(***************************************************************************)
LEMMA CodeTyped ==
    ASSUME InOrder(code)
    PROVE  /\ code \in Seq(Steps) /\ Len(code) \in Nat /\ Len(code) # 0
           /\ code \in [1..Len(code) -> Steps]
           /\ code[Len(code)] = "ready"
           /\ \A i, j \in 1..Len(code) : i < j => Order[code[i]] < Order[code[j]]
           /\ \A x \in Steps : Order[x] \in Nat /\ Order[x] <= 7
           /\ Range(code) = {code[i] : i \in 1..Len(code)}
<1>1. code \in Seq(Steps)
  BY DEF InOrder, Steps
<1>2. Len(code) \in Nat /\ code \in [1..Len(code) -> Steps] /\ DOMAIN code = 1..Len(code)
  BY <1>1, LenProperties
<1>3. Len(code) # 0
  BY <1>1, EmptySeq DEF InOrder
<1>4. \A x \in Steps : Order[x] \in Nat /\ Order[x] <= 7
  BY DEF Steps, Order
<1> QED
  BY <1>1, <1>2, <1>3, <1>4 DEF InOrder, Last, Range

LEMMA FirstPartFacts ==
    ASSUME InOrder(code), NEW n \in 0..Len(code), NEW d, d = SubSeq(code, 1, n)
    PROVE  /\ d \in Seq(Steps) /\ Len(d) = n
           /\ \A i \in 1..n : d[i] = code[i]
           /\ Range(d) = {code[i] : i \in 1..n}
           /\ d # <<>> <=> n # 0
           /\ n # 0 => Last(d) = code[n] /\ Front(d) = SubSeq(code, 1, n - 1)
<1> USE CodeTyped
<1>1. \A i \in 1..n : code[i] \in Steps
  OBVIOUS
<1>2. d \in Seq(Steps) /\ Len(d) = n /\ \A i \in 1..n : d[i] = code[i]
  BY <1>1, SubSeqProperties
<1>3. DOMAIN d = 1..n
  BY <1>2, LenProperties
<1>4. Range(d) = {code[i] : i \in 1..n}
  BY <1>2, <1>3 DEF Range
<1>5. d # <<>> <=> n # 0
  BY <1>2, EmptySeq
<1>6. ASSUME n # 0 PROVE Last(d) = code[n] /\ Front(d) = SubSeq(code, 1, n - 1)
  <2>1. Front(d) = SubSeq(d, 1, n - 1)
    BY <1>2 DEF Front
  <2>2. SubSeq(d, 1, n - 1) = SubSeq(code, 1, n - 1)
    <3>1. /\ SubSeq(d, 1, n - 1) \in Seq(Steps) /\ SubSeq(code, 1, n - 1) \in Seq(Steps)
          /\ Len(SubSeq(d, 1, n - 1)) = n - 1 /\ Len(SubSeq(code, 1, n - 1)) = n - 1
          /\ \A i \in 1..(n - 1) : SubSeq(d, 1, n - 1)[i] = d[i] /\ SubSeq(code, 1, n - 1)[i] = code[i]
      <4>1. n - 1 \in Nat /\ \A i \in 1..(n - 1) : d[i] \in Steps /\ code[i] \in Steps
        BY <1>1, <1>2, <1>6
      <4> QED
        BY <4>1, SubSeqProperties
    <3> QED
      BY <1>2, <3>1, SeqEqual
  <2> QED
    BY <1>2, <1>6, <2>1, <2>2 DEF Last
<1> QED
  BY <1>2, <1>4, <1>5, <1>6

\* What is below a deferred step in the order of the code is deferred too.
LEMMA Below ==
    ASSUME InOrder(code), NEW d, FirstPart(d), NEW x \in Range(d), NEW y \in Range(code),
           Order[y] < Order[x]
    PROVE  y \in Range(d)
<1>1. PICK n \in 0..Len(code) : d = SubSeq(code, 1, n)
  BY DEF FirstPart
<1>2. PICK i \in 1..n : x = code[i]
  <2>1. Range(d) = {code[k] : k \in 1..n}
    BY <1>1, FirstPartFacts
  <2> QED
    BY <2>1
<1>3. PICK j \in 1..Len(code) : y = code[j]
  BY CodeTyped
<1>4. j <= i
  <2>1. SUFFICES ASSUME i < j PROVE FALSE
    BY CodeTyped
  <2>2. Order[x] < Order[y] /\ Order[x] \in Nat /\ Order[y] \in Nat
    BY <1>2, <1>3, <2>1, CodeTyped
  <2> QED
    BY <2>2
<1>5. Range(d) = {code[k] : k \in 1..n}
  BY <1>1, FirstPartFacts
<1> QED
  BY <1>2, <1>3, <1>4, <1>5, CodeTyped

\* A stop takes the last step away, which is above all others.
LEMMA Popped ==
    ASSUME InOrder(code), NEW d, FirstPart(d), d # <<>>
    PROVE  /\ FirstPart(Front(d)) /\ Front(d) \in Seq(Steps)
           /\ Range(d) = Range(Front(d)) \cup {Last(d)} /\ Range(d) \subseteq Range(code)
           /\ Last(d) \in Steps
           /\ \A x \in Range(Front(d)) : x # Last(d) /\ Order[x] < Order[Last(d)]
<1> USE CodeTyped
<1>1. PICK n \in 0..Len(code) : d = SubSeq(code, 1, n)
  BY DEF FirstPart
<1>2. /\ n # 0 /\ Last(d) = code[n] /\ Front(d) = SubSeq(code, 1, n - 1)
      /\ Range(d) = {code[i] : i \in 1..n}
  BY <1>1, FirstPartFacts
<1>3. n - 1 \in 0..Len(code)
  BY <1>2
<1>4. Range(Front(d)) = {code[i] : i \in 1..(n - 1)} /\ Front(d) \in Seq(Steps)
  BY <1>2, <1>3, FirstPartFacts
<1>5. \A i \in 1..(n - 1) : Order[code[i]] < Order[code[n]] /\ code[i] # code[n]
  <2> TAKE i \in 1..(n - 1)
  <2>1. i \in 1..Len(code) /\ i < n
    BY <1>3
  <2>2. Order[code[i]] < Order[code[n]] /\ Order[code[n]] \in Nat
    BY <1>2, <2>1
  <2> QED
    BY <2>2
<1>6. \A i \in 1..n : i \in 1..(n - 1) \/ i = n
  BY <1>2
<1>7. FirstPart(Front(d))
  BY <1>2, <1>3 DEF FirstPart
<1> QED
  BY <1>2, <1>4, <1>5, <1>6, <1>7

LEMMA ReadyLast ==
    ASSUME InOrder(code), NEW i \in 1..Len(code), code[i] = "ready"
    PROVE  i = Len(code)
<1> DEFINE n == Len(code)
<1>1. /\ n \in Nat /\ n \in 1..n /\ code[n] = "ready" /\ code[i] \in Steps
      /\ i < n => Order[code[i]] < Order[code[n]]
      /\ Order[code[i]] \in Nat
  <2>1. n \in Nat /\ n # 0 /\ code[n] = "ready" /\ code[i] \in Steps
    BY CodeTyped
  <2>2. n \in 1..n
    BY <2>1
  <2>3. i < n => Order[code[i]] < Order[code[n]]
    BY <2>2, CodeTyped
  <2>4. Order[code[i]] \in Nat
    BY <2>1, CodeTyped
  <2> QED
    BY <2>1, <2>2, <2>3, <2>4
<1> QED
  BY <1>1

\* A start adds the next step, which is new.
LEMMA Pushed ==
    ASSUME InOrder(code), NEW i \in 1..Len(code), NEW d, d = SubSeq(code, 1, i - 1)
    PROVE  /\ Append(d, code[i]) = SubSeq(code, 1, i)
           /\ Append(d, code[i]) \in Seq(Steps)
           /\ FirstPart(d) /\ FirstPart(Append(d, code[i]))
           /\ Range(Append(d, code[i])) = Range(d) \cup {code[i]}
           /\ code[i] \notin Range(d) /\ code[i] \in Steps
           /\ code[i] # "ready" => i + 1 \in 1..Len(code)
           /\ code[i] = "ready" => Range(code) = Range(d) \cup {"ready"}
<1> USE CodeTyped
<1>1. i - 1 \in 0..Len(code) /\ i \in 0..Len(code)
  OBVIOUS
<1>2. d \in Seq(Steps) /\ Len(d) = i - 1 /\ \A j \in 1..(i - 1) : d[j] = code[j]
  BY <1>1, FirstPartFacts
<1>3. Range(d) = {code[j] : j \in 1..(i - 1)}
  BY <1>1, FirstPartFacts
<1>4. SubSeq(code, 1, i) \in Seq(Steps) /\ Len(SubSeq(code, 1, i)) = i
      /\ \A j \in 1..i : SubSeq(code, 1, i)[j] = code[j]
  BY <1>1, FirstPartFacts
<1>5. Range(SubSeq(code, 1, i)) = {code[j] : j \in 1..i}
  BY <1>1, FirstPartFacts
<1>6. Append(d, code[i]) = SubSeq(code, 1, i)
  <2>1. /\ Append(d, code[i]) \in Seq(Steps) /\ Len(Append(d, code[i])) = i
        /\ \A j \in 1..(i - 1) : Append(d, code[i])[j] = d[j]
        /\ Append(d, code[i])[i] = code[i]
    BY <1>2, AppendProperties
  <2>2. \A j \in 1..i : Append(d, code[i])[j] = SubSeq(code, 1, i)[j]
    <3> TAKE j \in 1..i
    <3>1. SubSeq(code, 1, i)[j] = code[j]
      BY <1>4
    <3>2. CASE j = i
      BY <2>1, <3>1, <3>2
    <3>3. CASE j # i
      <4>1. j \in 1..(i - 1)
        BY <3>3
      <4> QED
        BY <1>2, <2>1, <3>1, <4>1
    <3> QED
      BY <3>2, <3>3
  <2> QED
    BY <1>4, <2>1, <2>2, SeqEqual
<1>7. \A j \in 1..(i - 1) : code[j] # code[i]
  <2> TAKE j \in 1..(i - 1)
  <2>1. j \in 1..Len(code) /\ j < i
    OBVIOUS
  <2>2. Order[code[j]] < Order[code[i]] /\ Order[code[i]] \in Nat
    BY <2>1
  <2> QED
    BY <2>2
<1>8. \A j \in 1..i : j \in 1..(i - 1) \/ j = i
  BY SMTT(30)
<1>9. \A j \in 1..(i - 1) : j \in 1..i
  BY SMTT(30)
<1>10. code[i] = "ready" => i = Len(code)
  BY ReadyLast
<1>11. FirstPart(d) /\ FirstPart(Append(d, code[i]))
  BY <1>1, <1>6 DEF FirstPart
<1>12. Range(Append(d, code[i])) = Range(d) \cup {code[i]}
  <2>1. {code[j] : j \in 1..i} = {code[j] : j \in 1..(i - 1)} \cup {code[i]}
    BY <1>8, <1>9
  <2> QED
    BY <1>3, <1>5, <1>6, <2>1
<1>13. code[i] # "ready" => i + 1 \in 1..Len(code)
  <2>1. Len(code) \in Nat /\ code[Len(code)] = "ready"
    OBVIOUS
  <2> QED
    BY <2>1, SMTT(30)
<1>14. code[i] = "ready" => Range(code) = Range(d) \cup {"ready"}
  BY <1>3, <1>8, <1>9, <1>10
<1> QED
  BY <1>3, <1>4, <1>6, <1>7, <1>11, <1>12, <1>13, <1>14

(***************************************************************************)
(* What a step of one process may do.                                      *)
(***************************************************************************)
LEMMA StillOK ==
    ASSUME UNCHANGED code, \A r \in Procs : ProcOK(proc'[r])
    PROVE  \A r \in Procs : ProcOK(proc[r])'
BY DEF ProcOK, FirstPart

LEMMA OneStep ==
    ASSUME ServiceInv, NEW p \in Procs, NEW q, Becomes(p, q), UNCHANGED <<code, call>>,
           ProcOK(q), proc[p].pc # "gone", q.pc \notin {"none", "gone"},
           proc[p].up => q.up,
           \A s \in Servers : Waited(proc[p], s) /\ InFlight(p, s) # {} => Waited(q, s),
           q.exit => q.child \in Procs /\ proc[q.child].up,
           q.pc = "upgrading" => ~q.exit /\ q.child \in Procs \ {p} /\ proc[q.child].pc # "none",
           pidfile' \in {pidfile, p},
           q.pc \in {"notifying", "loop"} => \/ pidfile' = p
                                            \/ proc[p].pc \in {"notifying", "loop"}
                                            \/ \E r \in Procs \ {p} : proc[r].pc # "none"
    PROVE  ServiceInv'
<1>1. /\ proc' = [r \in Procs |-> proc'[r]] /\ proc'[p] = q
      /\ \A r \in Procs \ {p} : proc'[r] = proc[r]
  BY DEF ServiceInv, Becomes
<1>2. \A r \in Procs : ProcOK(proc'[r])
  BY <1>1 DEF ServiceInv
<1>3. \A r \in Procs : ProcOK(proc[r])'
  BY <1>2, StillOK
<1>4. ASSUME NEW c \in Calls PROVE CallOK(c)'
  <2>1. CallOK(c)
    BY DEF ServiceInv
  <2>2. ASSUME call[c].state = "busy" PROVE Waited(proc'[call[c].by], To[c])
    <3>1. call[c].by \in Procs /\ Waited(proc[call[c].by], To[c]) /\ To[c] \in Servers
      BY <2>1, <2>2 DEF CallOK, Waited
    <3>2. call[c].by = p => InFlight(p, To[c]) # {}
      BY <2>2 DEF InFlight
    <3> QED
      BY <1>1, <3>1, <3>2
  <2>3. ASSUME call[c].state = "cut" PROVE CutBy(proc'[call[c].by])
    <3>1. call[c].by \in Procs /\ CutBy(proc[call[c].by])
      BY <2>1, <2>3 DEF CallOK
    <3>2. call[c].by # p
      BY <3>1 DEF CutBy
    <3> QED
      BY <1>1, <3>1, <3>2
  <2> QED
    BY <2>1, <2>2, <2>3 DEF CallOK, Waited, CutBy
<1>5. ASSUME NEW r \in Procs PROVE ChildOK(r)'
  <2>1. \A x \in Procs : (proc[x].up => proc'[x].up) /\ (proc[x].pc # "none" => proc'[x].pc # "none")
    BY <1>1
  <2>2. CASE r = p
    BY <1>1, <2>1, <2>2 DEF ChildOK
  <2>3. CASE r # p
    BY <1>1, <2>1, <2>3 DEF ChildOK, ServiceInv
  <2> QED
    BY <2>2, <2>3
<1>6. PidOK'
  <2>1. pidfile' \in Procs \cup {None}
    BY DEF ServiceInv, PidOK
  <2>2. ASSUME pidfile' \in Procs
        PROVE  /\ proc'[pidfile'].pc # "none"
               /\ proc'[pidfile'].pc = "gone" => proc'[pidfile'].fate # "stopped"
    <3>1. CASE pidfile' = p
      BY <1>1, <3>1
    <3>2. CASE pidfile' # p
      BY <1>1, <2>2, <3>2 DEF ServiceInv, PidOK
    <3> QED
      BY <3>1, <3>2
  <2>3. ASSUME NEW r \in Procs, proc'[r].pc \in {"notifying", "loop"}
        PROVE  pidfile' = r \/ \E x \in Procs \ {r} : proc'[x].pc # "none"
    <3>1. CASE r # p
      BY <1>1, <3>1
    <3>2. CASE r = p
      BY <1>1, <2>3, <3>2 DEF ServiceInv, PidOK
    <3> QED
      BY <3>1, <3>2
  <2> QED
    BY <2>1, <2>2, <2>3 DEF PidOK
<1>7. call' = [c \in Calls |-> call'[c]]
  BY DEF ServiceInv
<1> QED
  BY <1>1, <1>3, <1>4, <1>5, <1>6, <1>7 DEF ServiceInv

\* A process that has not done a step yet, or has ended, is in order.
LEMMA ProcessOK ==
    ASSUME InOrder(code), NEW pc \in {"none", "starting", "gone"},
           NEW parent \in Procs \cup {None}, NEW child \in Procs \cup {None},
           NEW up \in BOOLEAN, NEW exit \in BOOLEAN, NEW fate \in Fates \cup {None}, pc = "gone" \/ ~up
    PROVE  ProcOK(Process(pc, parent, child, up, exit, fate))
<1> DEFINE q == Process(pc, parent, child, up, exit, fate)
<1>1. q \in ProcRecord
  <2>1. <<>> \in Seq(Steps)
    BY EmptySeq
  <2>2. [s \in Servers |-> "none"] \in [Servers -> {"none", "spawned", "serving", "returned"}]
    OBVIOUS
  <2> QED
    BY <2>1, <2>2 DEF ProcRecord, Process, Coming
<1>2. /\ q.pc = pc /\ q.ip = 1 /\ q.up = up /\ q.defers = <<>> /\ q.open = {}
      /\ q.accepting = {} /\ q.serve = [s \in Servers |-> "none"]
  BY DEF Process
<1> HIDE DEF q
<1>3. FirstPart(<<>>) /\ Range(<<>>) = {} /\ SubSeq(code, 1, 0) = <<>>
  <2>1. SubSeq(code, 1, 0) = <<>> /\ 0 \in 0..Len(code)
    BY CodeTyped, SubSeqEmpty
  <2>2. Range(SubSeq(code, 1, 0)) = {code[i] : i \in 1..0}
    BY <2>1, FirstPartFacts
  <2>3. {code[i] : i \in 1..0} = {}
    OBVIOUS
  <2>4. FirstPart(<<>>)
    BY <2>1 DEF FirstPart
  <2> QED
    BY <2>1, <2>2, <2>3, <2>4
<1>4. 1 \in 1..Len(code)
  BY CodeTyped
<1>5. \A s \in Servers : q.serve[s] = "none"
  BY <1>2
<1>6. ProcOK(q)
  BY <1>1, <1>2, <1>3, <1>4, <1>5 DEF ProcOK
<1> QED
  BY <1>6 DEF q

\* A process ends, and cuts the calls that are under way in it.
LEMMA DyingStep ==
    ASSUME ServiceInv, InOrder(code), NEW p \in Procs, Alive(p), NEW fate \in Fates,
           Becomes(p, Ends(proc[p], fate)), UNCHANGED code,
           call' = [c \in Calls |-> IF call[c].state = "busy" /\ call[c].by = p
                                     THEN [call[c] EXCEPT !.state = "cut"] ELSE call[c]],
           \A c \in Calls : call[c].state = "busy" /\ call[c].by = p => Cutting(fate, proc[p].up),
           pidfile' = None \/ (fate # "stopped" /\ pidfile' \in {pidfile, p})
    PROVE  ServiceInv'
<1> DEFINE q == Ends(proc[p], fate)
<1>0. proc[p] \in ProcRecord /\ proc[p].pc \notin {"none", "gone"}
  BY DEF ServiceInv, ProcOK, Alive
<1>1. /\ proc' = [r \in Procs |-> proc'[r]] /\ proc'[p] = q
      /\ \A r \in Procs \ {p} : proc'[r] = proc[r]
  BY DEF ServiceInv, Becomes
<1>2. /\ q.pc = "gone" /\ q.fate = fate /\ q.up = proc[p].up
      /\ q.exit = proc[p].exit /\ q.child = proc[p].child
  BY DEF Ends, Process
<1>3. ProcOK(q)
  BY <1>0, ProcessOK DEF Ends, ProcRecord, Fates
<1> HIDE DEF q
<1>4. \A r \in Procs : ProcOK(proc'[r])
  BY <1>1, <1>3 DEF ServiceInv
<1>5. \A r \in Procs : ProcOK(proc[r])'
  BY <1>4, StillOK
<1>6. ASSUME NEW c \in Calls PROVE CallOK(c)'
  <2>1. CallOK(c)
    BY DEF ServiceInv
  <2>2. CASE call[c].state = "busy" /\ call[c].by = p
    <3>1. call'[c] = [state |-> "cut", by |-> p]
      BY <2>1, <2>2 DEF CallOK
    <3> QED
      BY <1>1, <1>2, <2>2, <3>1 DEF CallOK, CutBy
  <2>3. CASE ~(call[c].state = "busy" /\ call[c].by = p)
    <3>1. call'[c] = call[c]
      BY <2>3
    <3>2. call[c].state \in {"busy", "cut"} => call[c].by \in Procs \ {p}
      BY <1>0, <2>1, <2>3 DEF CallOK, CutBy
    <3> QED
      BY <1>1, <2>1, <3>1, <3>2 DEF CallOK, CutBy, Waited
  <2> QED
    BY <2>2, <2>3
<1>7. ASSUME NEW r \in Procs PROVE ChildOK(r)'
  <2>1. \A x \in Procs : (proc[x].up => proc'[x].up) /\ (proc[x].pc # "none" => proc'[x].pc # "none")
    BY <1>1, <1>2
  <2>2. ChildOK(r)
    BY DEF ServiceInv
  <2>3. CASE r = p
    BY <1>1, <1>2, <2>1, <2>2, <2>3 DEF ChildOK
  <2>4. CASE r # p
    BY <1>1, <2>1, <2>2, <2>4 DEF ChildOK
  <2> QED
    BY <2>3, <2>4
<1>8. PidOK'
  <2>1. pidfile' \in Procs \cup {None}
    BY DEF ServiceInv, PidOK
  <2>2. ASSUME pidfile' \in Procs
        PROVE  /\ proc'[pidfile'].pc # "none"
               /\ proc'[pidfile'].pc = "gone" => proc'[pidfile'].fate # "stopped"
    <3>1. fate # "stopped" /\ pidfile' \in {pidfile, p}
      BY <2>2, NoneAssumption
    <3>2. CASE pidfile' = p
      BY <1>1, <1>2, <3>1, <3>2
    <3>3. CASE pidfile' # p
      BY <1>1, <2>2, <3>1, <3>3 DEF ServiceInv, PidOK
    <3> QED
      BY <3>2, <3>3
  <2>3. ASSUME NEW r \in Procs, proc'[r].pc \in {"notifying", "loop"}
        PROVE  \E x \in Procs \ {r} : proc'[x].pc # "none"
    BY <1>1, <1>2, <2>3
  <2> QED
    BY <2>1, <2>2, <2>3 DEF PidOK
<1>9. call' = [c \in Calls |-> call'[c]]
  OBVIOUS
<1> QED
  BY <1>1, <1>5, <1>6, <1>7, <1>8, <1>9 DEF ServiceInv

(***************************************************************************)
(* The start command.                                                      *)
(***************************************************************************)
StepDone(q, r) ==
    /\ r \in ProcRecord /\ r.pc = "starting" /\ r.ip = q.ip + 1
    /\ r.up = q.up /\ r.exit = q.exit /\ r.child = q.child
    /\ r.defers = Append(q.defers, code[q.ip])
    /\ \/ /\ code[q.ip] \notin Servers
          /\ r.open = q.open \cup (Backends \cap {code[q.ip]})
          /\ r.accepting = q.accepting /\ r.serve = q.serve
       \/ /\ code[q.ip] \in Servers
          /\ r.open = q.open \cup {code[q.ip]} /\ r.accepting = q.accepting \cup {code[q.ip]}
          /\ r.serve = [q.serve EXCEPT ![code[q.ip]] = "spawned"]

LEMMA StepDoneOK ==
    ASSUME InOrder(code), NEW q, ProcOK(q), q.pc = "starting", code[q.ip] # "ready",
           NEW r, StepDone(q, r)
    PROVE  /\ ProcOK(r) /\ Range(q.defers) \subseteq Range(r.defers)
           /\ \A s \in Servers : Waited(q, s) => Waited(r, s)
<1> DEFINE step == code[q.ip]
<1> USE DEF StepDone
<1>1. /\ q \in ProcRecord /\ q.ip \in 1..Len(code) /\ q.defers = SubSeq(code, 1, q.ip - 1)
      /\ q.serve \in [Servers -> {"none", "spawned", "serving", "returned"}]
  BY DEF ProcOK, Coming, ProcRecord
<1>a. r.defers = Append(q.defers, code[q.ip]) /\ r.ip = q.ip + 1
  OBVIOUS
<1>b. /\ Append(q.defers, code[q.ip]) = SubSeq(code, 1, q.ip) /\ FirstPart(Append(q.defers, code[q.ip]))
      /\ Range(Append(q.defers, code[q.ip])) = Range(q.defers) \cup {step}
      /\ step \notin Range(q.defers) /\ step \in Steps /\ q.ip + 1 \in 1..Len(code)
  <2> HIDE DEF StepDone
  <2> QED
    BY <1>1, Pushed
<1>2. /\ r.defers = SubSeq(code, 1, q.ip) /\ FirstPart(r.defers)
      /\ Range(r.defers) = Range(q.defers) \cup {step} /\ step \notin Range(q.defers)
      /\ step \in Steps /\ r.ip \in 1..Len(code) /\ r.ip - 1 = q.ip
  BY <1>1, <1>a, <1>b, CodeTyped
<1>3. step \in Servers => step \notin Backends
  BY DEF Servers, Backends
<1>4. \A s \in Servers \ {step} : r.serve[s] = q.serve[s]
  BY <1>1
<1>5. r.accepting \subseteq r.open \cap Range(r.defers)
  BY <1>2 DEF ProcOK
<1>6. r.open \subseteq Range(r.defers) \cup Servers
  BY <1>2 DEF ProcOK
<1>7. Backends \cap Range(r.defers) \subseteq r.open
  BY <1>2, <1>3 DEF ProcOK
<1>8. Servers \cap Range(r.defers) \subseteq r.accepting
  BY <1>2 DEF ProcOK, Coming
<1>9. \A s \in Servers \ r.accepting : r.serve[s] # "spawned"
  BY <1>2, <1>4 DEF ProcOK
<1>10. ProcOK(r)
  BY <1>2, <1>5, <1>6, <1>7, <1>8, <1>9 DEF ProcOK
<1>11. \A s \in Servers : Waited(q, s) => Waited(r, s)
  BY <1>2, <1>4 DEF Waited
<1> QED
  BY <1>2, <1>10, <1>11

LEMMA StepRecord ==
    ASSUME NEW q \in ProcRecord, NEW step \in Steps
    PROVE  /\ Deferred(q, step) \in ProcRecord
           /\ Deferred(q, step).pc = q.pc /\ Deferred(q, step).ip = q.ip + 1
           /\ Deferred(q, step).up = q.up /\ Deferred(q, step).exit = q.exit
           /\ Deferred(q, step).child = q.child
           /\ Deferred(q, step).defers = Append(q.defers, step)
           /\ Deferred(q, step).open = q.open /\ Deferred(q, step).accepting = q.accepting
           /\ Deferred(q, step).serve = q.serve
<1>1. Append(q.defers, step) \in Seq(Steps) /\ q.ip + 1 \in Nat
  BY AppendProperties DEF ProcRecord
<1> QED
  BY <1>1 DEF Deferred, ProcRecord

\* The steps of the start command that are done one by one.
LEMMA CommandStep ==
    ASSUME ServiceInv, InOrder(code), NEW p \in Procs,
           \/ UpdatePidFile(p) \/ NewUpgrader(p)
           \/ \E b \in Backends : OpensBackend(p, b)
           \/ \E s \in Servers : Listens(p, s)
    PROVE  ServiceInv'
<1> DEFINE q == proc[p]
<1> DEFINE step == code[q.ip]
<1>1. /\ ProcOK(q) /\ q \in ProcRecord /\ q.pc = "starting" /\ step # "ready" /\ step \in Steps
      /\ UNCHANGED <<code, call>> /\ pidfile' \in {pidfile, p}
  <2>1. /\ q.pc = "starting" /\ step # "ready" /\ UNCHANGED <<code, call>> /\ pidfile' \in {pidfile, p}
    BY DEF UpdatePidFile, NewUpgrader, OpensBackend, Listens, Starting, Servers, Backends
  <2>2. ProcOK(q) /\ q \in ProcRecord
    BY DEF ServiceInv, ProcOK
  <2>3. q.ip \in 1..Len(code)
    BY <2>1, <2>2 DEF ProcOK, Coming
  <2> QED
    BY <2>1, <2>2, <2>3, CodeTyped
<1>2. PICK r : Becomes(p, r) /\ StepDone(q, r)
  <2> DEFINE d == Deferred(q, step)
  <2>0. /\ d \in ProcRecord /\ d.pc = "starting" /\ d.ip = q.ip + 1 /\ d.up = q.up
        /\ d.exit = q.exit /\ d.child = q.child /\ d.defers = Append(q.defers, step)
        /\ d.open = q.open /\ d.accepting = q.accepting /\ d.serve = q.serve
    BY <1>1, StepRecord
  <2> HIDE DEF d
  <2>1. CASE UpdatePidFile(p) \/ NewUpgrader(p)
    <3>1. Becomes(p, d) /\ step \in {"pid", "upgrader"}
      BY <2>1 DEF UpdatePidFile, NewUpgrader, Starting, d
    <3>2. step \notin Servers /\ q.open = q.open \cup (Backends \cap {step})
      BY <3>1 DEF Servers, Backends
    <3> QED
      BY <2>0, <3>1, <3>2 DEF StepDone
  <2>2. ASSUME NEW b \in Backends, OpensBackend(p, b) PROVE \E r : Becomes(p, r) /\ StepDone(q, r)
    <3> DEFINE e == [d EXCEPT !.open = @ \cup {b}]
    <3>1. Becomes(p, e) /\ step = b
      BY <2>2 DEF OpensBackend, Starting, d
    <3>2. step \notin Servers /\ Backends \cap {step} = {b}
      BY <3>1 DEF Servers, Backends
    <3>3. /\ e \in ProcRecord /\ e.pc = "starting" /\ e.ip = d.ip /\ e.up = d.up
          /\ e.exit = d.exit /\ e.child = d.child /\ e.defers = d.defers
          /\ e.open = d.open \cup {b} /\ e.accepting = d.accepting /\ e.serve = d.serve
      BY <2>0 DEF ProcRecord
    <3> HIDE DEF e
    <3> QED
      BY <2>0, <3>1, <3>2, <3>3 DEF StepDone
  <2>3. ASSUME NEW s \in Servers, Listens(p, s) PROVE \E r : Becomes(p, r) /\ StepDone(q, r)
    <3> DEFINE e == [d EXCEPT !.open = @ \cup {s}, !.accepting = @ \cup {s}, !.serve[s] = "spawned"]
    <3>1. Becomes(p, e) /\ step = s
      BY <2>3 DEF Listens, Starting, d
    <3>2. [d.serve EXCEPT ![s] = "spawned"] \in [Servers -> {"none", "spawned", "serving", "returned"}]
      BY <2>0 DEF ProcRecord
    <3>3. /\ e \in ProcRecord /\ e.pc = "starting" /\ e.ip = d.ip /\ e.up = d.up
          /\ e.exit = d.exit /\ e.child = d.child /\ e.defers = d.defers
          /\ e.open = d.open \cup {s} /\ e.accepting = d.accepting \cup {s}
          /\ e.serve = [d.serve EXCEPT ![s] = "spawned"]
      BY <2>0, <3>2 DEF ProcRecord
    <3> HIDE DEF e
    <3> QED
      BY <2>0, <3>1, <3>3 DEF StepDone
  <2> QED
    BY <2>1, <2>2, <2>3
<1>3. ProcOK(r) /\ \A s \in Servers : Waited(q, s) => Waited(r, s)
  BY <1>1, <1>2, StepDoneOK
<1>4. r.exit => r.child \in Procs /\ proc[r.child].up
  BY <1>2 DEF ServiceInv, ChildOK, StepDone
<1> QED
  BY <1>1, <1>2, <1>3, <1>4, OneStep DEF StepDone

LEMMA StartsStep ==
    ASSUME ServiceInv, InOrder(code), NEW p \in Procs, Starts(p)
    PROVE  ServiceInv'
<1> DEFINE q == StartedBy(p, None)
<1>1. ProcOK(q)
  BY ProcessOK DEF StartedBy, Fates
<1>2. q.pc = "starting" /\ ~q.up /\ ~q.exit
  BY DEF StartedBy, Process
<1>3. Becomes(p, q) /\ UNCHANGED <<code, call, pidfile>> /\ proc[p].pc = "none"
  BY DEF Starts
<1> HIDE DEF q
<1>4. ~proc[p].up
  BY <1>3 DEF ServiceInv, ProcOK
<1>5. \A s \in Servers : ~Waited(proc[p], s)
  BY <1>3 DEF Waited
<1> QED
  BY <1>1, <1>2, <1>3, <1>4, <1>5, OneStep

(***************************************************************************)
(* Steps that leave alone what a process has open and deferred.            *)
(***************************************************************************)
SameShape(q, r) ==
    /\ r \in ProcRecord
    /\ r.ip = q.ip /\ r.defers = q.defers /\ r.open = q.open
    /\ r.accepting = q.accepting /\ r.serve = q.serve

LEMMA Reshaped ==
    ASSUME NEW q, ProcOK(q), NEW r, SameShape(q, r), q.pc \in Coming \cup {"stopping"},
           r.pc = "stopping" \/ (r.pc \in Coming /\ q.pc \in Coming),
           r.pc \in {"notifying", "loop", "upgrading"} => code[q.ip] = "ready",
           r.pc = "starting" => ~r.up
    PROVE  ProcOK(r) /\ \A s \in Servers : Waited(q, s) => Waited(r, s)
<1>1. ProcOK(r)
  BY DEF ProcOK, SameShape, Coming
<1>2. r.pc \notin {"none", "gone"}
  BY DEF Coming
<1> QED
  BY <1>1, <1>2 DEF Waited, SameShape

LEMMA QuietStep ==
    ASSUME ServiceInv, NEW p \in Procs, NEW r, SameShape(proc[p], r), Becomes(p, r),
           UNCHANGED <<code, call>>, pidfile' \in {pidfile, p},
           proc[p].pc \in Coming \cup {"stopping"},
           r.pc = "stopping" \/ (r.pc \in Coming /\ proc[p].pc \in Coming),
           r.pc \in {"notifying", "loop", "upgrading"} => code[proc[p].ip] = "ready",
           r.pc = "starting" => ~r.up, proc[p].up => r.up,
           r.exit => r.child \in Procs /\ proc[r.child].up,
           r.pc = "upgrading" => ~r.exit /\ r.child \in Procs \ {p} /\ proc[r.child].pc # "none",
           r.pc \in {"notifying", "loop"} => \/ pidfile' = p
                                            \/ proc[p].pc \in {"notifying", "loop"}
                                            \/ \E x \in Procs \ {p} : proc[x].pc # "none"
    PROVE  ServiceInv'
<1>1. ProcOK(proc[p])
  BY DEF ServiceInv
<1>2. ProcOK(r) /\ \A s \in Servers : Waited(proc[p], s) => Waited(r, s)
  BY <1>1, Reshaped
<1>3. proc[p].pc # "gone" /\ r.pc \notin {"none", "gone"}
  BY DEF Coming
<1> QED
  BY <1>2, <1>3, OneStep

LEMMA ReadyStep ==
    ASSUME ServiceInv, InOrder(code), NEW p \in Procs, Ready(p)
    PROVE  ServiceInv'
<1> DEFINE q == proc[p]
<1>1. ProcOK(q) /\ q \in ProcRecord /\ ChildOK(p)
  BY DEF ServiceInv, ProcOK
<1>2. q.pc = "starting" /\ code[q.ip] = "ready" /\ pidfile' = p /\ ~q.up /\ Alive(p)
  BY <1>1 DEF Ready, Starting, ProcOK, Alive
<1>3. CASE Dies(p, "failed")
  BY <1>2, <1>3, DyingStep DEF Dies, Fates, Cutting
<1>4. CASE ~Dies(p, "failed")
  <2> DEFINE r == [q EXCEPT !.pc = "notifying", !.up = TRUE]
  <2>1. Becomes(p, r) /\ UNCHANGED <<code, call>>
    BY <1>4 DEF Ready
  <2>2. SameShape(q, r) /\ r.pc = "notifying" /\ r.up = TRUE /\ r.exit = q.exit /\ r.child = q.child
    BY <1>1 DEF ProcRecord, SameShape, Coming
  <2> HIDE DEF r
  <2> QED
    BY <1>1, <1>2, <2>1, <2>2, QuietStep DEF ChildOK, Coming
<1> QED
  BY <1>3, <1>4

LEMMA LoopStep ==
    ASSUME ServiceInv, InOrder(code), NEW p \in Procs,
           Notify(p) \/ TakesStop(p) \/ TakesTtin(p) \/ UpgraderExits(p)
    PROVE  ServiceInv'
<1> DEFINE q == proc[p]
<1>1. ProcOK(q) /\ q \in ProcRecord /\ ChildOK(p)
  BY DEF ServiceInv, ProcOK
<1>2. UNCHANGED <<code, pidfile, call>> /\ q.pc \in {"notifying", "loop"} /\ code[q.ip] = "ready"
  BY <1>1 DEF Notify, TakesStop, TakesTtin, UpgraderExits, ProcOK
<1>3. CASE Notify(p)
  <2> DEFINE r == [q EXCEPT !.pc = "loop", !.notified = TRUE]
  <2>1. Becomes(p, r)
    BY <1>3 DEF Notify
  <2>2. SameShape(q, r) /\ r.pc = "loop" /\ r.up = q.up /\ r.exit = q.exit /\ r.child = q.child
    BY <1>1 DEF ProcRecord, SameShape, Coming
  <2> HIDE DEF r
  <2> QED
    BY <1>1, <1>2, <2>1, <2>2, QuietStep DEF ChildOK, Coming
<1>4. CASE TakesStop(p) \/ UpgraderExits(p)
  <2> DEFINE r == [q EXCEPT !.pc = "stopping", !.signal = None]
  <2>1. Becomes(p, r)
    BY <1>4 DEF TakesStop, UpgraderExits
  <2>2. SameShape(q, r) /\ r.pc = "stopping" /\ r.up = q.up /\ r.exit = q.exit /\ r.child = q.child
    BY <1>1 DEF ProcRecord, SameShape, Coming
  <2> HIDE DEF r
  <2> QED
    BY <1>1, <1>2, <2>1, <2>2, QuietStep DEF ChildOK, Coming
<1>5. CASE TakesTtin(p)
  <2> DEFINE r == [q EXCEPT !.signal = None]
  <2>1. Becomes(p, r) /\ q.pc = "loop"
    BY <1>5 DEF TakesTtin
  <2>2. SameShape(q, r) /\ r.pc = "loop" /\ r.up = q.up /\ r.exit = q.exit /\ r.child = q.child
    BY <1>1, <2>1 DEF ProcRecord, SameShape, Coming
  <2> HIDE DEF r
  <2> QED
    BY <1>1, <1>2, <2>1, <2>2, QuietStep DEF ChildOK, Coming
<1> QED
  BY <1>3, <1>4, <1>5

LEMMA FailingStep ==
    ASSUME ServiceInv, InOrder(code), NEW p \in Procs,
           StepFails(p) \/ \E s \in Servers : ListenFails(p, s)
    PROVE  ServiceInv'
<1> DEFINE q == proc[p]
<1>1. ProcOK(q) /\ q \in ProcRecord /\ ChildOK(p)
  BY DEF ServiceInv, ProcOK
<1>2. q.pc = "starting" /\ UNCHANGED pidfile /\ ~q.up /\ Alive(p)
  BY <1>1 DEF StepFails, ListenFails, Starting, ProcOK, Alive
<1>3. CASE Dies(p, "failed")
  BY <1>2, <1>3, DyingStep DEF Dies, Fates, Cutting
<1>4. CASE ~Dies(p, "failed")
  <2> DEFINE r == [q EXCEPT !.pc = "stopping", !.failing = TRUE]
  <2>1. Becomes(p, r) /\ UNCHANGED <<code, call>>
    BY <1>4 DEF StepFails, ListenFails
  <2>2. SameShape(q, r) /\ r.pc = "stopping" /\ r.up = q.up /\ r.exit = q.exit /\ r.child = q.child
    BY <1>1 DEF ProcRecord, SameShape, Coming
  <2> HIDE DEF r
  <2> QED
    BY <1>1, <1>2, <2>1, <2>2, QuietStep DEF ChildOK, Coming
<1> QED
  BY <1>3, <1>4

(***************************************************************************)
(* Signals and upgrades.                                                   *)
(***************************************************************************)
LEMMA SignalledStep ==
    ASSUME ServiceInv, InOrder(code), NEW p \in Procs, NEW sig \in Sigs,
           Signalled(p, sig)
    PROVE  ServiceInv'
<1> DEFINE q == proc[p]
<1>1. ProcOK(q) /\ q \in ProcRecord /\ ChildOK(p) /\ q.pc \in Coming \cup {"stopping"}
  BY DEF ServiceInv, ProcOK, ProcRecord, Signalled, Alive
<1>2. UNCHANGED <<code, pidfile>> /\ Alive(p)
  BY DEF Signalled
<1>3. CASE ~q.notified
  <2>1. Becomes(p, Ends(q, "signalled"))
    BY <1>3 DEF Signalled
  <2>2. call' = [c \in Calls |-> IF call[c].state = "busy" /\ call[c].by = p
                                 THEN [call[c] EXCEPT !.state = "cut"] ELSE call[c]]
    BY <1>3 DEF Signalled
  <2> QED
    BY <1>2, <2>1, <2>2, DyingStep DEF Fates, Cutting
<1>4. CASE q.notified
  <2>1. PICK sig2 \in Sigs \cup {None} : Becomes(p, [q EXCEPT !.signal = sig2])
    BY <1>1, <1>4 DEF Signalled, ProcRecord
  <2> DEFINE r == [q EXCEPT !.signal = sig2]
  <2>2. SameShape(q, r) /\ r.pc = q.pc /\ r.up = q.up /\ r.exit = q.exit /\ r.child = q.child
    BY <1>1 DEF ProcRecord, SameShape, Coming
  <2>3. UNCHANGED call
    BY <1>4 DEF Signalled
  <2>4. Becomes(p, r)
    BY <2>1
  <2> HIDE DEF r
  <2>5. r.pc = "starting" => ~r.up
    BY <1>1, <2>2 DEF ProcOK
  <2> QED
    BY <1>1, <1>2, <2>4, <2>2, <2>3, <2>5, QuietStep DEF ChildOK, ProcOK, Coming
<1> QED
  BY <1>3, <1>4

\* A child is started: its parent waits for it.
LEMMA ForkStep ==
    ASSUME ServiceInv, InOrder(code), NEW p \in Procs, NEW c \in Procs, proc[c].pc = "none",
           NEW q, ProcOK(q), q.pc = "upgrading", q.child = c, ~q.exit, q.up = proc[p].up,
           proc[p].pc = "loop", \A s \in Servers : Waited(proc[p], s) => Waited(q, s),
           proc' = [proc EXCEPT ![p] = q, ![c] = StartedBy(c, p)],
           UNCHANGED <<code, pidfile, call>>
    PROVE  ServiceInv'
<1> DEFINE n == StartedBy(c, p)
<1>1. c # p
  OBVIOUS
<1>2. ProcOK(n) /\ n.pc = "starting" /\ ~n.up /\ ~n.exit
  <2>1. ProcOK(n)
    BY ProcessOK DEF StartedBy, Fates
  <2> QED
    BY <2>1 DEF StartedBy, Process
<1>3. /\ proc' = [r \in Procs |-> proc'[r]] /\ proc'[p] = q /\ proc'[c] = n
      /\ \A r \in Procs \ {p, c} : proc'[r] = proc[r]
  BY <1>1 DEF ServiceInv
<1> HIDE DEF n
<1>4. ~proc[c].up
  BY DEF ServiceInv, ProcOK
<1>5. \A r \in Procs : ProcOK(proc'[r])
  BY <1>2, <1>3 DEF ServiceInv
<1>6. \A r \in Procs : ProcOK(proc[r])'
  BY <1>5, StillOK
<1>7. ASSUME NEW x \in Calls PROVE CallOK(x)'
  <2>1. CallOK(x)
    BY DEF ServiceInv
  <2>2. ASSUME call[x].state = "busy" PROVE Waited(proc'[call[x].by], To[x])
    <3>1. call[x].by \in Procs /\ Waited(proc[call[x].by], To[x]) /\ To[x] \in Servers
      BY <2>1, <2>2 DEF CallOK, Waited
    <3>2. call[x].by # c
      BY <3>1 DEF Waited
    <3> QED
      BY <1>3, <3>1, <3>2
  <2>3. ASSUME call[x].state = "cut" PROVE CutBy(proc'[call[x].by])
    <3>1. call[x].by \in Procs /\ CutBy(proc[call[x].by])
      BY <2>1, <2>3 DEF CallOK
    <3>2. call[x].by \notin {p, c}
      BY <3>1 DEF CutBy
    <3> QED
      BY <1>3, <3>1, <3>2
  <2> QED
    BY <2>1, <2>2, <2>3 DEF CallOK, Waited, CutBy
<1>8. ASSUME NEW r \in Procs PROVE ChildOK(r)'
  <2>1. \A x \in Procs : (proc[x].up => proc'[x].up) /\ (proc[x].pc # "none" => proc'[x].pc # "none")
    BY <1>2, <1>3, <1>4
  <2>2. ChildOK(r)
    BY DEF ServiceInv
  <2>3. CASE r = p
    BY <1>1, <1>2, <1>3, <2>3 DEF ChildOK
  <2>4. CASE r = c
    BY <1>2, <1>3, <2>4 DEF ChildOK
  <2>5. CASE r \notin {p, c}
    BY <1>3, <2>1, <2>2, <2>5 DEF ChildOK
  <2> QED
    BY <2>3, <2>4, <2>5
<1>9. PidOK'
  <2>1. PidOK /\ \A x \in Procs : proc[x].pc # "none" => proc'[x].pc # "none"
    BY <1>2, <1>3 DEF ServiceInv
  <2>2. pidfile \in Procs => pidfile # c
    BY <2>1 DEF PidOK
  <2>3. pidfile \in Procs => /\ proc'[pidfile].pc # "none"
                             /\ proc'[pidfile].pc = "gone" => proc'[pidfile].fate # "stopped"
    BY <1>3, <2>1, <2>2 DEF PidOK
  <2>4. ASSUME NEW r \in Procs, proc'[r].pc \in {"notifying", "loop"}
        PROVE  pidfile = r \/ \E x \in Procs \ {r} : proc'[x].pc # "none"
    <3>1. r \notin {p, c}
      BY <1>2, <1>3, <2>4
    <3> QED
      BY <1>3, <2>1, <2>4, <3>1 DEF PidOK
  <2> QED
    BY <2>1, <2>3, <2>4 DEF PidOK
<1> QED
  BY <1>3, <1>6, <1>7, <1>8, <1>9 DEF ServiceInv

LEMMA TakesHupStep ==
    ASSUME ServiceInv, InOrder(code), NEW p \in Procs, TakesHup(p)
    PROVE  ServiceInv'
<1> DEFINE q == proc[p]
<1>1. ProcOK(q) /\ q \in ProcRecord /\ ChildOK(p)
  BY DEF ServiceInv, ProcOK
<1>2. UNCHANGED <<code, pidfile, call>> /\ q.pc = "loop" /\ code[q.ip] = "ready"
  BY <1>1 DEF TakesHup, ProcOK
<1> DEFINE heard == [q EXCEPT !.signal = None]
<1>3. /\ SameShape(q, heard) /\ heard.pc = "loop" /\ heard.up = q.up /\ heard.exit = q.exit
      /\ heard.child = q.child
  BY <1>1, <1>2 DEF ProcRecord, SameShape, Coming
<1>4. CASE Becomes(p, heard)
  <2> HIDE DEF heard
  <2> QED
    BY <1>1, <1>2, <1>3, <1>4, QuietStep DEF ChildOK, Coming
<1>5. CASE ~Becomes(p, heard)
  <2>1. PICK c \in Procs :
           /\ proc[c].pc = "none"
           /\ proc' = [proc EXCEPT ![p] = [heard EXCEPT !.pc = "upgrading", !.child = c],
                                   ![c] = StartedBy(c, p)]
    BY <1>5 DEF TakesHup
  <2> DEFINE r == [heard EXCEPT !.pc = "upgrading", !.child = c]
  <2>2. ~q.exit
    BY <1>5 DEF TakesHup
  <2> HIDE DEF heard
  <2>3. SameShape(q, r) /\ r.pc = "upgrading" /\ r.up = q.up /\ r.exit = q.exit /\ r.child = c
    BY <1>3 DEF ProcRecord, SameShape, Coming
  <2>4. proc' = [proc EXCEPT ![p] = r, ![c] = StartedBy(c, p)]
    BY <2>1
  <2> HIDE DEF r
  <2>5. ProcOK(r) /\ \A s \in Servers : Waited(q, s) => Waited(r, s)
    BY <1>1, <1>2, <2>3, Reshaped DEF Coming
  <2> QED
    BY <1>2, <2>1, <2>2, <2>3, <2>4, <2>5, ForkStep
<1> QED
  BY <1>4, <1>5

LEMMA UpgradeEndsStep ==
    ASSUME ServiceInv, InOrder(code), NEW p \in Procs, UpgradeReturns(p) \/ UpgradeTimesOut(p)
    PROVE  ServiceInv'
<1> DEFINE q == proc[p]
<1>1. ProcOK(q) /\ q \in ProcRecord /\ ChildOK(p)
  BY DEF ServiceInv, ProcOK
<1>2. UNCHANGED <<code, pidfile>> /\ q.pc = "upgrading" /\ code[q.ip] = "ready"
  BY <1>1 DEF UpgradeReturns, UpgradeTimesOut, Dies, ProcOK
<1>3. q.child \in Procs \ {p} /\ proc[q.child].pc # "none" /\ proc[q.child] \in ProcRecord
  BY <1>1, <1>2 DEF ChildOK, ServiceInv, ProcOK
<1>4. CASE UpgradeReturns(p)
  <2>1. UNCHANGED call /\ ~q.exit
    BY <1>1, <1>2, <1>4 DEF UpgradeReturns, ChildOK
  <2>2. CASE proc[q.child].up /\ Becomes(p, [q EXCEPT !.pc = "loop", !.exit = TRUE])
    <3> DEFINE r == [q EXCEPT !.pc = "loop", !.exit = TRUE]
    <3>1. Becomes(p, r)
      BY <2>2
    <3>2. SameShape(q, r) /\ r.pc = "loop" /\ r.up = q.up /\ r.child = q.child
      BY <1>1 DEF ProcRecord, SameShape, Coming
    <3> HIDE DEF r
    <3> QED
      BY <1>2, <1>3, <2>1, <2>2, <3>1, <3>2, QuietStep DEF Coming
  <2>3. CASE Becomes(p, [q EXCEPT !.pc = "loop", !.child = None])
    <3> DEFINE r == [q EXCEPT !.pc = "loop", !.child = None]
    <3>1. Becomes(p, r)
      BY <2>3
    <3>2. SameShape(q, r) /\ r.pc = "loop" /\ r.up = q.up /\ r.exit = q.exit
      BY <1>1 DEF ProcRecord, SameShape, Coming
    <3> HIDE DEF r
    <3> QED
      BY <1>2, <1>3, <2>1, <3>1, <3>2, QuietStep DEF Coming
  <2> QED
    BY <1>4, <2>2, <2>3 DEF UpgradeReturns
<1>5. CASE UpgradeTimesOut(p)
  <2>1. Alive(q.child) /\ Dies(q.child, "killed")
    BY <1>5 DEF UpgradeTimesOut
  <2> QED
    BY <1>2, <1>3, <2>1, DyingStep DEF Dies, Fates, Cutting
<1> QED
  BY <1>4, <1>5

(***************************************************************************)
(* The servers.                                                            *)
(***************************************************************************)
LEMMA AnswersStep ==
    ASSUME ServiceInv, NEW p \in Procs, NEW c \in Calls, Accepts(p, c) \/ Answers(c)
    PROVE  ServiceInv'
<1>1. UNCHANGED <<code, proc, pidfile>> /\ CallOK(c)
  BY DEF Accepts, Answers, ServiceInv
<1>2. \A r \in Procs : ProcOK(proc[r])' /\ ChildOK(r)'
  BY <1>1, StillOK DEF ServiceInv, ChildOK
<1>3. PidOK'
  BY <1>1 DEF ServiceInv, PidOK
<1>4. /\ call' = [x \in Calls |-> call'[x]]
      /\ \A x \in Calls \ {c} : call'[x] = call[x]
  BY DEF ServiceInv, Accepts, Answers
<1>5. CASE Answers(c)
  <2>1. call'[c] = [state |-> "done", by |-> call[c].by]
    BY <1>1, <1>5 DEF Answers, CallOK, ServiceInv
  <2>2. call[c].by \in Procs \cup {None}
    BY <1>1 DEF CallOK
  <2> QED
    BY <1>1, <1>2, <1>3, <1>4, <2>1, <2>2 DEF ServiceInv, CallOK, Waited, CutBy
<1>6. CASE Accepts(p, c)
  <2>1. call'[c] = [state |-> "busy", by |-> p] /\ proc[p].serve[To[c]] = "serving"
    BY <1>4, <1>6 DEF Accepts, ServiceInv
  <2>2. ProcOK(proc[p]) /\ To[c] \in proc[p].accepting
    BY <1>6 DEF Accepts, ServiceInv
  <2>3. proc[p].pc \notin {"none", "gone"} /\ To[c] \in Servers \cap Range(proc[p].defers)
    BY <2>2 DEF ProcOK, ProcRecord
  <2>4. Waited(proc[p], To[c])
    BY <2>1, <2>3 DEF Waited
  <2> QED
    BY <1>1, <1>2, <1>3, <1>4, <2>1, <2>4 DEF ServiceInv, CallOK, Waited, CutBy
<1> QED
  BY <1>5, <1>6

\* What a goroutine of a server and the close of its listener change.
LEMMA ServerStep ==
    ASSUME ServiceInv, InOrder(code), NEW p \in Procs, NEW s \in Servers,
           NEW r, r \in ProcRecord, Becomes(p, r), UNCHANGED <<code, call, pidfile>>, Alive(p),
           r.pc = proc[p].pc, r.ip = proc[p].ip, r.defers = proc[p].defers, r.open = proc[p].open,
           r.up = proc[p].up, r.exit = proc[p].exit, r.child = proc[p].child,
           \A x \in Servers \ {s} : r.serve[x] = proc[p].serve[x],
           \/ r.accepting = proc[p].accepting
           \/ /\ r.accepting = proc[p].accepting \ {s}
              /\ proc[p].pc = "stopping" /\ proc[p].defers # <<>> /\ Last(proc[p].defers) = s,
           r.serve[s] # "spawned" \/ r.serve[s] = proc[p].serve[s]
    PROVE  ServiceInv'
<1> DEFINE q == proc[p]
<1>1. ProcOK(q) /\ ChildOK(p) /\ q.pc \notin {"none", "gone"}
  BY DEF ServiceInv, Alive
<1>2. ProcOK(r)
  <2>1. r.accepting \subseteq q.accepting
    OBVIOUS
  <2>2. r.pc \in Coming => r.accepting = q.accepting
    BY DEF Coming
  <2>3. \A x \in Servers \ r.accepting : r.serve[x] = "spawned" =>
           r.pc = "stopping" /\ r.defers # <<>> /\ Last(r.defers) = x
    BY <1>1 DEF ProcOK
  <2> QED
    BY <1>1, <2>1, <2>2, <2>3 DEF ProcOK
<1>3. \A x \in Servers : Waited(q, x) => Waited(r, x)
  BY <1>1 DEF Waited
<1> QED
  BY <1>1, <1>2, <1>3, OneStep DEF ChildOK

LEMMA ServesStep ==
    ASSUME ServiceInv, InOrder(code), NEW p \in Procs, NEW s \in Servers,
           Serves(p, s) \/ ClosesListener(p, s)
    PROVE  ServiceInv'
<1> DEFINE q == proc[p]
<1>1. ProcOK(q) /\ q \in ProcRecord /\ Alive(p) /\ UNCHANGED <<code, call, pidfile>>
  BY DEF ServiceInv, ProcOK, Alive, Serves, ClosesListener, Stops
<1>2. CASE Serves(p, s)
  <2> DEFINE r == [q EXCEPT !.serve[s] = "serving"]
  <2>1. Becomes(p, r) /\ s \in q.accepting
    BY <1>2 DEF Serves
  <2>2. [q.serve EXCEPT ![s] = "serving"] \in [Servers -> {"none", "spawned", "serving", "returned"}]
    BY <1>1 DEF ProcRecord
  <2>3. /\ r \in ProcRecord /\ r.pc = q.pc /\ r.ip = q.ip /\ r.defers = q.defers /\ r.open = q.open
        /\ r.up = q.up /\ r.exit = q.exit /\ r.child = q.child /\ r.accepting = q.accepting
        /\ r.serve = [q.serve EXCEPT ![s] = "serving"]
    BY <1>1, <2>2 DEF ProcRecord
  <2>4. r.serve[s] = "serving" /\ \A x \in Servers \ {s} : r.serve[x] = q.serve[x]
    BY <1>1, <2>3 DEF ProcRecord
  <2> HIDE DEF r
  <2> QED
    BY <1>1, <2>1, <2>3, <2>4, ServerStep
<1>3. CASE ClosesListener(p, s)
  <2> DEFINE r == [q EXCEPT !.accepting = @ \ {s}]
  <2>1. Becomes(p, r) /\ q.pc = "stopping" /\ q.defers # <<>> /\ Last(q.defers) = s
    BY <1>3 DEF ClosesListener, Stops
  <2>2. /\ r \in ProcRecord /\ r.pc = q.pc /\ r.ip = q.ip /\ r.defers = q.defers /\ r.open = q.open
        /\ r.up = q.up /\ r.exit = q.exit /\ r.child = q.child /\ r.accepting = q.accepting \ {s}
        /\ r.serve = q.serve
    BY <1>1 DEF ProcRecord
  <2> HIDE DEF r
  <2> QED
    BY <1>1, <2>1, <2>2, ServerStep
<1> QED
  BY <1>2, <1>3

\* A gRPC server that is stopped before it serves ends the process; the HTTP
\* server has been stopped by then, and has no request left.
LEMMA ServeReturnsStep ==
    ASSUME ServiceInv, InOrder(code), NEW p \in Procs, NEW s \in Servers, ServeReturns(p, s)
    PROVE  ServiceInv'
<1> DEFINE q == proc[p]
<1>1. ProcOK(q) /\ q \in ProcRecord /\ Alive(p) /\ UNCHANGED <<code, pidfile>> /\ s \notin q.accepting
  BY DEF ServiceInv, ProcOK, ServeReturns, Dies
<1>2. CASE s = "grpc" /\ q.serve[s] = "spawned"
  <2>1. Dies(p, "late")
    BY <1>2 DEF ServeReturns
  <2>2. q.pc = "stopping" /\ q.defers # <<>> /\ Last(q.defers) = "grpc" /\ FirstPart(q.defers)
    BY <1>1, <1>2 DEF ProcOK
  <2>3. "http" \notin Range(q.defers)
    BY <2>2, Popped DEF Order
  <2>4. ASSUME NEW c \in Calls, call[c].state = "busy", call[c].by = p PROVE FALSE
    BY <1>2, <2>3, <2>4 DEF ServiceInv, CallOK, Waited, Servers
  <2> QED
    BY <1>1, <2>1, <2>4, DyingStep DEF Dies, Fates
<1>3. CASE ~(s = "grpc" /\ q.serve[s] = "spawned")
  <2> DEFINE r == [q EXCEPT !.serve[s] = "returned"]
  <2>1. Becomes(p, r) /\ UNCHANGED call
    BY <1>3 DEF ServeReturns
  <2>2. [q.serve EXCEPT ![s] = "returned"] \in [Servers -> {"none", "spawned", "serving", "returned"}]
    BY <1>1 DEF ProcRecord
  <2>3. /\ r \in ProcRecord /\ r.pc = q.pc /\ r.ip = q.ip /\ r.defers = q.defers /\ r.open = q.open
        /\ r.up = q.up /\ r.exit = q.exit /\ r.child = q.child /\ r.accepting = q.accepting
        /\ r.serve = [q.serve EXCEPT ![s] = "returned"]
    BY <1>1, <2>2 DEF ProcRecord
  <2>4. r.serve[s] = "returned" /\ \A x \in Servers \ {s} : r.serve[x] = q.serve[x]
    BY <1>1, <2>3 DEF ProcRecord
  <2> HIDE DEF r
  <2> QED
    BY <1>1, <2>1, <2>3, <2>4, ServerStep
<1> QED
  BY <1>2, <1>3

(***************************************************************************)
(* The deferred stops.                                                     *)
(***************************************************************************)
Closed(q, gone) == [Undeferred(q) EXCEPT !.open = @ \ gone]

LEMMA UndeferredRecord ==
    ASSUME NEW q \in ProcRecord, Front(q.defers) \in Seq(Steps)
    PROVE  /\ Undeferred(q) \in ProcRecord
           /\ Undeferred(q).pc = q.pc /\ Undeferred(q).defers = Front(q.defers) /\ Undeferred(q).open = q.open
           /\ Undeferred(q).accepting = q.accepting /\ Undeferred(q).serve = q.serve
           /\ Undeferred(q).up = q.up /\ Undeferred(q).exit = q.exit /\ Undeferred(q).child = q.child
BY DEF ProcRecord, Undeferred

LEMMA ClosedRecord ==
    ASSUME NEW q \in ProcRecord, Front(q.defers) \in Seq(Steps),
           NEW gone \in SUBSET (Servers \cup Backends)
    PROVE  /\ Closed(q, gone) \in ProcRecord
           /\ Closed(q, gone).pc = q.pc /\ Closed(q, gone).defers = Front(q.defers) /\ Closed(q, gone).open = q.open \ gone
           /\ Closed(q, gone).accepting = q.accepting /\ Closed(q, gone).serve = q.serve
           /\ Closed(q, gone).up = q.up /\ Closed(q, gone).exit = q.exit /\ Closed(q, gone).child = q.child
BY DEF ProcRecord, Undeferred, Closed

\* A stop is done: what it stood for is closed, and nothing else.
StopDone(q, r) ==
    /\ r \in ProcRecord /\ r.pc = "stopping" /\ r.defers = Front(q.defers)
    /\ r.accepting = q.accepting /\ r.serve = q.serve
    /\ r.up = q.up /\ r.exit = q.exit /\ r.child = q.child
    /\ r.accepting \subseteq r.open \cap Range(r.defers)
    /\ r.open \subseteq Range(r.defers) \cup Servers
    /\ Backends \cap Range(r.defers) \subseteq r.open
    /\ \A s \in Servers \ q.accepting : q.serve[s] = "spawned" => Last(q.defers) # s

LEMMA StopDoneOK ==
    ASSUME ServiceInv, InOrder(code), NEW p \in Procs, NEW r, StopDone(proc[p], r),
           proc[p].pc = "stopping", proc[p].defers # <<>>, Becomes(p, r),
           Last(proc[p].defers) \in Servers => InFlight(p, Last(proc[p].defers)) = {},
           UNCHANGED <<code, call, pidfile>>
    PROVE  ServiceInv'
<1> DEFINE q == proc[p]
<1>1. ProcOK(q) /\ ChildOK(p)
  BY DEF ServiceInv
<1>2. /\ FirstPart(Front(q.defers))
      /\ Range(q.defers) = Range(Front(q.defers)) \cup {Last(q.defers)}
  BY <1>1, Popped DEF ProcOK
<1>3. \A s \in Servers \ r.accepting : r.serve[s] # "spawned"
  BY <1>1 DEF ProcOK, StopDone
<1>4. ProcOK(r)
  BY <1>2, <1>3 DEF ProcOK, StopDone, Coming
<1>5. ASSUME NEW s \in Servers, Waited(q, s), InFlight(p, s) # {} PROVE Waited(r, s)
  <2>1. s # Last(q.defers)
    BY <1>5
  <2> QED
    BY <1>2, <1>5, <2>1 DEF Waited, StopDone
<1> QED
  BY <1>1, <1>4, <1>5, OneStep DEF ChildOK, StopDone

LEMMA StopStep ==
    ASSUME ServiceInv, InOrder(code), NEW p \in Procs,
           \/ \E s \in Servers : ServerStopped(p, s)
           \/ \E b \in Backends : ClosesBackend(p, b)
           \/ UpgraderStops(p)
    PROVE  ServiceInv'
<1> DEFINE q == proc[p]
<1> DEFINE last == Last(q.defers)
<1>1. /\ ProcOK(q) /\ q \in ProcRecord /\ q.pc = "stopping" /\ q.defers # <<>>
      /\ UNCHANGED <<code, call, pidfile>>
  BY DEF ServiceInv, ProcOK, ServerStopped, ClosesBackend, UpgraderStops, Stops
<1>2. /\ Front(q.defers) \in Seq(Steps)
      /\ Range(q.defers) = Range(Front(q.defers)) \cup {last} /\ last \in Steps
      /\ \A x \in Range(Front(q.defers)) : x # last /\ Order[x] < Order[last]
  BY <1>1, Popped DEF ProcOK
<1>3. /\ q.accepting \subseteq q.open \cap Range(q.defers)
      /\ q.open \subseteq Range(q.defers) \cup Servers
      /\ Backends \cap Range(q.defers) \subseteq q.open
      /\ q.open \subseteq Servers \cup Backends
      /\ q.accepting \subseteq Servers
  BY <1>1 DEF ProcOK, ProcRecord
<1>4. CASE \E s \in Servers : ServerStopped(p, s)
  <2>1. PICK s \in Servers : ServerStopped(p, s)
    BY <1>4
  <2> DEFINE r == Undeferred(q)
  <2>2. /\ Becomes(p, r) /\ last = s /\ InFlight(p, s) = {}
        /\ s \notin q.accepting /\ q.serve[s] = "returned"
    BY <2>1 DEF ServerStopped, Stops
  <2>3. /\ r \in ProcRecord /\ r.pc = q.pc /\ r.defers = Front(q.defers) /\ r.open = q.open
        /\ r.accepting = q.accepting /\ r.serve = q.serve
        /\ r.up = q.up /\ r.exit = q.exit /\ r.child = q.child
    BY <1>1, <1>2, UndeferredRecord
  <2> HIDE DEF r
  <2>4. s \notin Backends
    BY DEF Servers, Backends
  <2>5. StopDone(q, r)
    BY <1>1, <1>2, <1>3, <2>2, <2>3, <2>4 DEF StopDone
  <2> QED
    BY <1>1, <2>2, <2>5, StopDoneOK
<1>5. CASE \E b \in Backends : ClosesBackend(p, b)
  <2>1. PICK b \in Backends : ClosesBackend(p, b)
    BY <1>5
  <2> DEFINE r == Closed(q, {b})
  <2>2. Becomes(p, r) /\ last = b
    BY <2>1 DEF ClosesBackend, Stops, Closed
  <2>3. /\ r \in ProcRecord /\ r.pc = q.pc /\ r.defers = Front(q.defers) /\ r.open = q.open \ {b}
        /\ r.accepting = q.accepting /\ r.serve = q.serve
        /\ r.up = q.up /\ r.exit = q.exit /\ r.child = q.child
    BY <1>1, <1>2, ClosedRecord
  <2> HIDE DEF r
  <2>4. b \notin Servers /\ \A s \in Servers : s \notin Range(q.defers)
    BY <1>2, <2>2 DEF Servers, Backends, Order
  <2>5. StopDone(q, r)
    BY <1>1, <1>2, <1>3, <2>2, <2>3, <2>4 DEF StopDone
  <2> QED
    BY <1>1, <2>2, <2>4, <2>5, StopDoneOK
<1>6. CASE UpgraderStops(p)
  <2> DEFINE r == Closed(q, Servers)
  <2>2. Becomes(p, r) /\ last = "upgrader"
    BY <1>6 DEF UpgraderStops, Stops, Closed
  <2>3. /\ r \in ProcRecord /\ r.pc = q.pc /\ r.defers = Front(q.defers) /\ r.open = q.open \ Servers
        /\ r.accepting = q.accepting /\ r.serve = q.serve
        /\ r.up = q.up /\ r.exit = q.exit /\ r.child = q.child
    BY <1>1, <1>2, ClosedRecord
  <2> HIDE DEF r
  <2>4. /\ "upgrader" \notin Servers \cup Backends
        /\ \A s \in Servers : s \notin Range(q.defers) /\ s \notin Backends
    BY <1>2, <2>2 DEF Servers, Backends, Order
  <2>5. StopDone(q, r)
    BY <1>1, <1>2, <1>3, <2>2, <2>3, <2>4 DEF StopDone
  <2> QED
    BY <1>1, <2>2, <2>4, <2>5, StopDoneOK
<1> QED
  BY <1>4, <1>5, <1>6

\* The last stop: no server is left that a request could wait in.
LEMMA EndStep ==
    ASSUME ServiceInv, InOrder(code), NEW p \in Procs,
           LastStop(p) \/ Killed9(p) \/ RotationExits(p) \/ \E s \in Servers : ServeFails(p, s)
    PROVE  ServiceInv'
<1> DEFINE q == proc[p]
<1>1. CASE Killed9(p) \/ RotationExits(p) \/ \E s \in Servers : ServeFails(p, s)
  <2>1. Alive(p) /\ UNCHANGED pidfile
    BY <1>1 DEF Killed9, RotationExits, ServeFails, Alive, ServiceInv, ProcOK
  <2>2. PICK fate \in {"killed", "crashed"} : Dies(p, fate)
    BY <1>1 DEF Killed9, RotationExits, ServeFails
  <2> QED
    BY <2>1, <2>2, DyingStep DEF Dies, Fates, Cutting
<1>2. CASE LastStop(p)
  <2>1. ProcOK(q) /\ q.pc = "stopping" /\ q.defers # <<>> /\ Last(q.defers) = "pid" /\ Alive(p)
    BY <1>2 DEF LastStop, Stops, Alive, ServiceInv
  <2>2. \A s \in Servers : s \notin Range(q.defers)
    BY <2>1, Popped DEF ProcOK, Servers, Order
  <2>3. ASSUME NEW c \in Calls, call[c].state = "busy", call[c].by = p PROVE FALSE
    BY <2>2, <2>3 DEF ServiceInv, CallOK, Waited
  <2>4. CASE q.failing
    BY <1>2, <2>1, <2>3, <2>4, DyingStep DEF LastStop, Dies, Fates
  <2>5. CASE ~q.failing
    BY <1>2, <2>1, <2>3, <2>5, DyingStep DEF LastStop, Dies, RemovePidFile, Fates
  <2> QED
    BY <2>4, <2>5
<1> QED
  BY <1>1, <1>2

LEMMA ServiceStep ==
    ASSUME ServiceInv, InOrder(code), ServiceNext
    PROVE  ServiceInv' /\ UNCHANGED code
<1>1. ASSUME NEW p \in Procs, Proceeds(p) PROVE ServiceInv' /\ UNCHANGED code
  <2>1. CASE \/ UpdatePidFile(p) \/ NewUpgrader(p) \/ Ready(p)
             \/ \E b \in Backends : OpensBackend(p, b)
             \/ \E s \in Servers : Listens(p, s) \/ ListenFails(p, s)
    <3>1. ServiceInv'
      BY <2>1, CommandStep, ReadyStep, FailingStep
    <3> QED
      BY <2>1, <3>1 DEF UpdatePidFile, NewUpgrader, Ready, OpensBackend, Listens, ListenFails, Dies
  <2>2. CASE \/ Notify(p) \/ TakesStop(p) \/ TakesTtin(p) \/ TakesHup(p)
             \/ UpgradeReturns(p) \/ UpgraderExits(p)
    <3>1. ServiceInv'
      BY <2>2, LoopStep, TakesHupStep, UpgradeEndsStep
    <3> QED
      BY <2>2, <3>1 DEF Notify, TakesStop, TakesTtin, TakesHup, UpgradeReturns, UpgraderExits
  <2>3. CASE \/ \E b \in Backends : ClosesBackend(p, b)
             \/ \E s \in Servers : ClosesListener(p, s) \/ ServerStopped(p, s)
             \/ UpgraderStops(p) \/ LastStop(p)
    <3>1. ServiceInv'
      BY <2>3, ServesStep, StopStep, EndStep
    <3> QED
      BY <2>3, <3>1 DEF ClosesBackend, ClosesListener, ServerStopped, UpgraderStops, LastStop, Dies
  <2> QED
    BY <1>1, <2>1, <2>2, <2>3 DEF Proceeds
<1>2. ASSUME NEW p \in Procs,
             \/ Starts(p) \/ StepFails(p) \/ UpgradeTimesOut(p) \/ RotationExits(p) \/ Killed9(p)
             \/ \E s \in Servers : ServeFails(p, s)
      PROVE  ServiceInv' /\ UNCHANGED code
  BY <1>2, StartsStep, FailingStep, UpgradeEndsStep, EndStep
     DEF Starts, StepFails, UpgradeTimesOut, RotationExits, ServeFails, Killed9, Dies
<1>3. ASSUME NEW p \in Procs, NEW s \in Servers, Goroutine(p, s)
      PROVE  ServiceInv' /\ UNCHANGED code
  BY <1>3, ServesStep, ServeReturnsStep DEF Goroutine, Serves, ServeReturns, Dies
<1>4. ASSUME NEW p \in Procs, NEW sig \in Sigs, Signalled(p, sig)
      PROVE  ServiceInv' /\ UNCHANGED code
  BY <1>4, SignalledStep DEF Signalled
<1>5. ASSUME NEW c \in Calls, Answers(c) \/ \E p \in Procs : Accepts(p, c)
      PROVE  ServiceInv' /\ UNCHANGED code
  <2>1. PICK p \in Procs : Answers(c) \/ Accepts(p, c)
    <3>1. Answers(c) => call[c].by \in Procs
      BY DEF Answers, ServiceInv, CallOK
    <3> QED
      BY <1>5, <3>1
  <2> QED
    BY <2>1, AnswersStep DEF Answers, Accepts
<1> QED
  BY <1>1, <1>2, <1>3, <1>4, <1>5 DEF ServiceNext

(***************************************************************************)
(* The invariant of the deployment.                                        *)
(***************************************************************************)
LEMMA PristineOK ==
    ASSUME InOrder(code), Pristine
    PROVE  ServiceInv
<1>1. ProcOK(NoProcess) /\ NoProcess.pc = "none" /\ ~NoProcess.exit
  <2>1. ProcOK(NoProcess)
    BY ProcessOK DEF NoProcess, Fates
  <2> QED
    BY <2>1 DEF NoProcess, Process
<1> HIDE DEF NoProcess
<1>2. /\ proc = [p \in Procs |-> proc[p]] /\ \A p \in Procs : proc[p] = NoProcess
      /\ call = [c \in Calls |-> call[c]] /\ \A c \in Calls : call[c] = NewCall
      /\ pidfile = None
  BY DEF Pristine
<1>3. \A c \in Calls : CallOK(c)
  BY <1>2 DEF CallOK, NewCall
<1>4. \A p \in Procs : ChildOK(p)
  BY <1>1, <1>2 DEF ChildOK
<1>5. PidOK
  BY <1>1, <1>2, NoneAssumption DEF PidOK
<1> QED
  BY <1>1, <1>2, <1>3, <1>4, <1>5 DEF ServiceInv

LEMMA DInitial == Init => DInv
<1> SUFFICES ASSUME Init PROVE DInv
  OBVIOUS
<1>1. IInv
  BY Initial
<1>2. target.kind \in {"absent", "dir", "file"}
  BY DEF Init, ScaffoldInit, Absent, Empty
<1>3. Pristine /\ deployed = FALSE
  BY DEF Init, ServiceInit, Pristine
<1> QED
  BY <1>1, <1>2, <1>3 DEF DInv

LEMMA TargetKind ==
    ASSUME IInv, target.kind \in {"absent", "dir", "file"}, [Next]_vars
    PROVE  target'.kind \in {"absent", "dir", "file"}
<1>1. CASE UNCHANGED target
  BY <1>1
<1>2. CASE \E k \in Runs : Deploys(k)
  BY <1>2 DEF Deploys, Absent
<1>3. CASE UserActs
  <2>1. CASE target' \in {Empty("user"), [kind |-> "file", by |-> "user", files |-> <<>>]}
    BY <2>1 DEF Empty
  <2>2. CASE target' = [target EXCEPT !.files = [p \in {"notes"} |-> File("none", {}, <<>>)]]
    <3>1. target = [kind |-> target.kind, by |-> target.by, files |-> target.files]
      BY DEF IInv, TargetOK
    <3>2. target'.kind = target.kind
      BY <2>2, <3>1
    <3> QED
      BY <3>2
  <2> QED
    BY <1>3, <2>1, <2>2 DEF UserActs
<1>4. CASE \E k \in Runs : RemovesTarget(k)
  BY <1>4 DEF RemovesTarget, Absent
<1>5. ASSUME NEW k \in Runs, Renames(k) PROVE target'.kind \in {"absent", "dir", "file"}
  <2>1. (target' = staging[k] /\ run[k].pc = "removed") \/ UNCHANGED target
    BY <1>5 DEF Renames, Advances
  <2>2. run[k].pc = "removed" => staging[k].kind = "dir"
    BY WholeNotEmpty DEF IInv, StagingOK, StagingAt
  <2> QED
    BY <2>1, <2>2
<1> QED
  BY <1>1, <1>2, <1>3, <1>4, <1>5 DEF Next, ScaffoldNext, Begins, MakesStaging, Materializes,
     SetsUpModule, CleansUp, Killed, vars, scaffoldVars

\* The service that is installed is the one of a whole project.
LEMMA InstallsStep ==
    ASSUME TemplateBuilds, DInv, NEW k \in Runs, Deploys(k)
    PROVE  InOrder(code)' /\ ServiceInv'
<1>1. target.files = Project(run[k].components) /\ run[k].components \in SUBSET Components
  BY DEF DInv, IInv, TargetOK, RunsOK, Whole, Deploys
<1>2. code' = StartSteps(Project(run[k].components))
  BY <1>1 DEF Deploys
<1>3. InOrder(code')
  BY <1>1, <1>2 DEF TemplateBuilds
<1>4. InOrder(code)'
  BY <1>3 DEF InOrder
<1>5. Pristine'
  BY DEF Deploys, DInv, Pristine
<1> QED
  BY <1>4, <1>5, PristineOK, PTL

LEMMA DInductive ==
    ASSUME TemplateBuilds
    PROVE  DInv /\ [Next]_vars => DInv'
<1> SUFFICES ASSUME DInv, [Next]_vars PROVE DInv'
  OBVIOUS
<1>1. IInv' /\ target'.kind \in {"absent", "dir", "file"}
  BY Inductive, TargetKind DEF DInv
<1>2. CASE \E k \in Runs : Deploys(k)
  BY <1>1, <1>2, InstallsStep DEF DInv, Deploys
<1>3. CASE deployed /\ ServiceNext /\ UNCHANGED deployed
  <2>1. ServiceInv' /\ UNCHANGED code
    BY <1>3, ServiceStep DEF DInv
  <2>2. InOrder(code)'
    BY <1>3, <2>1 DEF DInv, InOrder
  <2> QED
    BY <1>1, <1>3, <2>1, <2>2 DEF DInv
<1>4. CASE UNCHANGED <<serviceVars, deployed>>
  <2>1. UNCHANGED <<code, proc, pidfile, call, deployed>>
    BY <1>4 DEF serviceVars
  <2>2. InOrder(code) => InOrder(code)'
    BY <2>1 DEF InOrder
  <2>3. Pristine => Pristine'
    BY <2>1 DEF Pristine
  <2>4. ServiceInv => ServiceInv'
    <3>1. SUFFICES ASSUME ServiceInv PROVE ServiceInv'
      OBVIOUS
    <3>2. \A p \in Procs : ProcOK(proc[p])'
      BY <2>1, <3>1, StillOK DEF ServiceInv
    <3> QED
      BY <2>1, <3>1, <3>2 DEF ServiceInv, CallOK, Waited, CutBy, ChildOK, PidOK
  <2> QED
    BY <1>1, <2>1, <2>2, <2>3, <2>4 DEF DInv
<1> QED
  BY <1>2, <1>3, <1>4 DEF Next, vars, serviceVars

(***************************************************************************)
(* Every variable of the deployment has its type.                          *)
(***************************************************************************)
THEOREM DeploymentTyped ==
    ASSUME TemplateBuilds
    PROVE  Spec => []TypeOK
<1>1. ASSUME DInv PROVE ServiceInv \/ Pristine
  BY <1>1 DEF DInv
<1>2. ServiceInv => ServiceTypeOK
  <2> SUFFICES ASSUME ServiceInv PROVE ServiceTypeOK
    OBVIOUS
  <2>1. pidfile \in Procs \cup {None} /\ \A c \in Calls : call[c].by \in Procs \cup {None}
    BY DEF ServiceInv, PidOK, CallOK
  <2>2. ASSUME NEW p \in Procs
        PROVE  /\ proc[p].pc \in {"none", "starting", "notifying", "loop", "upgrading", "stopping", "gone"}
               /\ proc[p].accepting \subseteq proc[p].open
               /\ proc[p].open \subseteq Range(proc[p].defers) \cup Servers
               /\ proc[p].signal \in Sigs \cup {None}
               /\ proc[p].fate \in Fates \cup {None}
    <3>1. ProcOK(proc[p])
      BY DEF ServiceInv
    <3> QED
      BY <3>1 DEF ProcOK, ProcRecord, Coming
  <2> QED
    BY <2>1, <2>2 DEF ServiceTypeOK
<1>3. Pristine => ServiceTypeOK
  BY DEF Pristine, NoProcess, Process, NewCall, ServiceTypeOK
<1>4. DInv => TypeOK
  BY <1>1, <1>2, <1>3 DEF DInv, IInv, RunsOK, TypeOK
<1> QED
  BY <1>4, DInitial, DInductive, PTL DEF Spec

(***************************************************************************)
(* A request that is being handled never meets a database or a Redis       *)
(* client that is not open: what a server uses is deferred below it.       *)
(***************************************************************************)
THEOREM NoClosedBackend ==
    ASSUME TemplateBuilds
    PROVE  Spec => []BackendsOpen
<1>1. DInv => BackendsOpen
  <2> SUFFICES ASSUME DInv, NEW c \in Calls, call[c].state = "busy",
                      NEW b \in Backends \cap Range(code)
               PROVE  b \in proc[call[c].by].open
    BY DEF BackendsOpen
  <2>1. ServiceInv /\ InOrder(code)
    BY DEF DInv, Pristine, NewCall
  <2> DEFINE q == proc[call[c].by]
  <2>2. ProcOK(q) /\ To[c] \in Servers \cap Range(q.defers)
    BY <2>1 DEF ServiceInv, CallOK, Waited
  <2>3. Order[b] < Order[To[c]]
    BY <2>2 DEF Servers, Backends, Order
  <2>4. b \in Range(q.defers)
    BY <2>1, <2>2, <2>3, Below DEF ProcOK
  <2> QED
    BY <2>2, <2>4 DEF ProcOK
<1> QED
  BY <1>1, DInitial, DInductive, PTL DEF Spec

(***************************************************************************)
(* An orderly stop, by signal or by an upgrade, cuts no request short.     *)
(***************************************************************************)
THEOREM NoneCutShort ==
    ASSUME TemplateBuilds
    PROVE  Spec => []StopsCutNothing
<1>1. DInv => StopsCutNothing
  BY DEF DInv, Pristine, NewCall, ServiceInv, CallOK, CutBy, Cutting, StopsCutNothing
<1> QED
  BY <1>1, DInitial, DInductive, PTL DEF Spec

(***************************************************************************)
(* A process that leaves because of an upgrade has a child that was ready, *)
(* and that accepts connections on every server until it is told to stop.  *)
(***************************************************************************)
THEOREM HandsOver ==
    ASSUME TemplateBuilds
    PROVE  Spec => []UpgradeHandsOver
<1>1. DInv => UpgradeHandsOver
  <2> SUFFICES ASSUME DInv, NEW p \in Procs, proc[p].exit
               PROVE  LET c == proc[proc[p].child] IN
                      /\ c.up
                      /\ c.pc \in {"notifying", "loop", "upgrading"} =>
                            Servers \cap Range(code) \subseteq c.accepting
    BY DEF UpgradeHandsOver
  <2>1. ServiceInv /\ InOrder(code)
    BY DEF DInv, Pristine, NoProcess, Process
  <2> DEFINE c == proc[proc[p].child]
  <2>2. ProcOK(c) /\ c.up
    BY <2>1 DEF ServiceInv, ChildOK
  <2>3. ASSUME c.pc \in {"notifying", "loop", "upgrading"}
        PROVE  Servers \cap Range(code) \subseteq c.accepting
    <3>1. /\ c.ip \in 1..Len(code) /\ c.defers = SubSeq(code, 1, c.ip - 1) /\ code[c.ip] = "ready"
          /\ Servers \cap Range(c.defers) \subseteq c.accepting
      BY <2>2, <2>3 DEF ProcOK, Coming
    <3>2. Range(code) = Range(c.defers) \cup {"ready"}
      BY <2>1, <3>1, Pushed
    <3> QED
      BY <3>1, <3>2 DEF Servers
  <2> QED
    BY <2>2, <2>3
<1> QED
  BY <1>1, DInitial, DInductive, PTL DEF Spec

(***************************************************************************)
(* The pid file names no process that was stopped in order, and it names   *)
(* the one process that runs when there never was another.                 *)
(***************************************************************************)
THEOREM HonestPidFile ==
    ASSUME TemplateBuilds
    PROVE  Spec => []PidFileHonest
<1>1. DInv => PidFileHonest
  <2> SUFFICES ASSUME DInv PROVE PidFileHonest
    OBVIOUS
  <2>1. CASE Pristine
    BY <2>1, NoneAssumption DEF Pristine, NoProcess, Process, PidFileHonest
  <2>2. CASE ServiceInv
    BY <2>2 DEF ServiceInv, PidOK, PidFileHonest, Alive
  <2> QED
    BY <2>1, <2>2 DEF DInv
<1> QED
  BY <1>1, DInitial, DInductive, PTL DEF Spec
==============================================================================
