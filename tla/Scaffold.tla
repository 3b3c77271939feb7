------------------------------ MODULE Scaffold -------------------------------
(***************************************************************************)
(* `kate new` (src/cmd/kate/new.go): a project is built in a staging       *)
(* directory beside the target and renamed to it at the end.               *)
(*                                                                         *)
(* Runs of the command may overlap and may be killed, and meanwhile the    *)
(* user may put something at the target.  A target or a staging directory  *)
(* is a record: what is there, and the tree of its files.                  *)
(***************************************************************************)
EXTENDS Integers, Template

CONSTANTS
    Runs,
    Selections     \* Selections[k]: the sets of components that run k may be asked for

ASSUME RunsAssumption == {"none", "user"} \cap Runs = {}
ASSUME SelectionsAssumption == Selections \in [Runs -> SUBSET (SUBSET Components)]

VARIABLES
    target,     \* what is at the target
    staging,    \* staging[k]: the directory of run k
    run         \* run[k]: where run k is, and what it was asked for

scaffoldVars == <<target, staging, run>>

Absent == [kind |-> "absent", by |-> "none", files |-> <<>>]
Empty(by) == [kind |-> "dir", by |-> by, files |-> <<>>]
IsEmptyDir(d) == d.kind = "dir" /\ DOMAIN d.files = {}

NotBegun == [pc |-> "new", components |-> {}, degraded |-> FALSE]

ScaffoldInit ==
    /\ target \in {Absent, Empty("user")}
    /\ staging = [k \in Runs |-> Absent]
    /\ run = [k \in Runs |-> NotBegun]

Disabled(k) == Components \ run[k].components

Advances(k, from, to) ==
    /\ run[k].pc = from
    /\ run' = [run EXCEPT ![k].pc = to]

(***************************************************************************)
(* runNew                                                                  *)
(***************************************************************************)
ensureTargetUsable == target = Absent \/ IsEmptyDir(target)

\* The arguments are parsed and the target is looked at; either may be refused.
Begins(k, components) ==
    /\ run[k].pc = "new"
    /\ \E pc \in {"failed"} \cup (IF ensureTargetUsable THEN {"checked"} ELSE {}) :
          run' = [run EXCEPT ![k] = [@ EXCEPT !.components = components, !.pc = pc]]
    /\ UNCHANGED <<target, staging>>

\* MkdirTemp takes a name of its own, if it can make a directory.
MakesStaging(k) ==
    /\ \/ /\ Advances(k, "checked", "materializing")
          /\ staging' = [staging EXCEPT ![k] = Empty(k)]
       \/ Advances(k, "checked", "failed") /\ UNCHANGED staging
    /\ UNCHANGED target

\* The walk writes file after file, until one cannot be made or written.
Missing(k) == Kept(Disabled(k)) \ DOMAIN staging[k].files

Materializes(k) ==
    /\ run[k].pc = "materializing"
    /\ \/ /\ Missing(k) = {}
          /\ Advances(k, "materializing", "module")
          /\ UNCHANGED staging
       \/ /\ Missing(k) # {}
          /\ Advances(k, "materializing", "failing")
          /\ UNCHANGED staging
       \/ LET p == CHOOSE q \in Missing(k) : TRUE IN
          /\ Missing(k) # {}
          /\ WellFormed(p, Disabled(k))
          /\ staging' = [staging EXCEPT ![k].files =
                [q \in {p} \cup DOMAIN @ |-> IF q = p THEN Materialized(p, Disabled(k), "app") ELSE @[q]]]
          /\ UNCHANGED run
    /\ UNCHANGED target

\* setupGoModule: what touches go.mod only must succeed, what needs the
\* network may fail and is left to the user, and else the tree must build.
SetsUpModule(k) ==
    /\ run[k].pc = "module"
    /\ \/ Advances(k, "module", "failing")
       \/ run' = [run EXCEPT ![k].pc = "built", ![k].degraded = TRUE]
       \/ Advances(k, "module", IF Builds(staging[k].files) THEN "built" ELSE "failing")
    /\ UNCHANGED <<target, staging>>

RemovesTarget_all(k) ==
    /\ Advances(k, "built", "removed")
    /\ target' = Absent
    /\ UNCHANGED staging

\* os.Remove takes an empty directory, and also a file.
RemovesTarget(k) ==
    /\ Advances(k, "built", "removed")
    /\ target' = IF IsEmptyDir(target) \/ target.kind = "file" THEN Absent ELSE target
    /\ UNCHANGED staging

Renames_no_cleanup(k) ==
    /\ IF target = Absent
       THEN /\ Advances(k, "removed", "done")
            /\ target' = staging[k]
            /\ staging' = [staging EXCEPT ![k] = Absent]
       ELSE Advances(k, "removed", "failed") /\ UNCHANGED <<target, staging>>

\* os.Rename does not take a target that is there.
Renames(k) ==
    /\ IF target = Absent
       THEN /\ Advances(k, "removed", "done")
            /\ target' = staging[k]
            /\ staging' = [staging EXCEPT ![k] = Absent]
       ELSE Advances(k, "removed", "failing") /\ UNCHANGED <<target, staging>>

\* The deferred RemoveAll.
CleansUp(k) ==
    /\ Advances(k, "failing", "failed")
    /\ staging' = [staging EXCEPT ![k] = Absent]
    /\ UNCHANGED target

Ended == {"new", "done", "failed", "killed"}

Killed(k) ==
    /\ run[k].pc \notin Ended
    /\ run' = [run EXCEPT ![k].pc = "killed"]
    /\ UNCHANGED <<target, staging>>

\* The user makes the target, or puts a file into it.
UserActs ==
    /\ \/ target = Absent /\ target' \in {Empty("user"), [kind |-> "file", by |-> "user", files |-> <<>>]}
       \/ IsEmptyDir(target) /\ target' = [target EXCEPT !.files = [p \in {"notes"} |-> File("none", {}, <<>>)]]
    /\ UNCHANGED <<staging, run>>

ScaffoldNext ==
    \/ UserActs
    \/ \E k \in Runs :
          \/ \E components \in Selections[k] : Begins(k, components)
          \/ MakesStaging(k) \/ Materializes(k) \/ SetsUpModule(k)
          \/ RemovesTarget(k) \/ Renames(k) \/ CleansUp(k) \/ Killed(k)

(***************************************************************************)
(* Properties                                                              *)
(***************************************************************************)
\* The project that a set of components stands for.
Wanted(components) ==
    {p \in DOMAIN TemplateFS : \A comp \in Components \ components : p \notin componentFiles(comp)}

\* What run k puts at the target is never a part of a project: it has the
\* files of its components and of no others, it builds, also when the
\* dependencies could not be fetched and nothing was built, its configuration
\* has a section for each of them, and its start command starts these components
\* in an order that stops can undo.
NeverHalf ==
    \A k \in Runs : target.by = k =>
        /\ DOMAIN target.files = Wanted(run[k].components)
        /\ Builds(target.files)
        /\ Sections(target.files) = run[k].components
        /\ Components \cap Range(StartSteps(target.files)) = run[k].components
        /\ InOrder(StartSteps(target.files))

\* Of runs that overlap one at most says that it made the project, and its
\* project is at the target.
TargetKept ==
    /\ \A k \in Runs : run[k].pc = "done" => target.by = k
    /\ \A k \in Runs : target.by = k => run[k].pc = "done"

\* A run that ends leaves no staging directory behind, unless it is killed.
NoStagingLeft ==
    \A k \in Runs : run[k].pc \in {"done", "failed"} => staging[k] = Absent
==============================================================================
