------------------------------ MODULE Template -------------------------------
(***************************************************************************)
(* What `kate new` makes of the template of a service: the files, the      *)
(* anchors of the optional components, the imports (src/cmd/kate/prune.go, *)
(* rewrite.go, materialize in new.go).                                     *)
(*                                                                         *)
(* A file is a sequence of lines.  A line is an anchor, an import of       *)
(* <<module, package>>, a section of the configuration, the line that      *)
(* names the app, or code, which has a step of the start command (or none) *)
(* and the names that it uses.  "T" is the module of the template, "kate"  *)
(* the framework, "M" the module of the new service.                       *)
(***************************************************************************)
EXTENDS Integers, Sequences, SequencesExt, FiniteSets

Components == {"grpc", "mysql", "redis"}

Begin(comp) == [op |-> "begin", comp |-> comp]
End(comp) == [op |-> "end", comp |-> comp]
Import(module, package) == [op |-> "import", path |-> <<module, package>>]
Code(step, uses) == [op |-> "code", step |-> step, uses |-> uses]
Section(name) == [op |-> "section", name |-> name]
AppLine(name) == [op |-> "app", name |-> name]

Anchored(comp, line) == <<Begin(comp), line, End(comp)>>

(***************************************************************************)
(* The files of the template that the components, or the name of the app,  *)
(* have a part in.  dev.ini stands for test.ini and prod.ini as well.      *)
(***************************************************************************)
\* startCmdFunc: what it starts, each with its deferred stop.
CmdStart_ready_first ==
    <<Import("T", "config"), Import("T", "httpsrv"),
      Code("pid", {"config"}), Code("upgrader", {}), Code("ready", {}), Code("http", {"httpsrv"})>>

CmdStart_model_last ==
    Anchored("redis", Import("kate", "rdb"))
    \o <<Import("T", "config")>>
    \o Anchored("grpc", Import("T", "grpcsrv"))
    \o <<Import("T", "httpsrv")>>
    \o Anchored("mysql", Import("T", "model"))
    \o <<Code("pid", {"config"})>>
    \o Anchored("redis", Code("redis", {"rdb", "config.Redis"}))
    \o <<Code("upgrader", {})>>
    \o Anchored("grpc", Code("grpc", {"grpcsrv"}))
    \o <<Code("http", {"httpsrv"})>>
    \o Anchored("mysql", Code("mysql", {"model"}))
    \o <<Code("ready", {})>>

CmdStart ==
    Anchored("redis", Import("kate", "rdb"))
    \o <<Import("T", "config")>>
    \o Anchored("grpc", Import("T", "grpcsrv"))
    \o <<Import("T", "httpsrv")>>
    \o Anchored("mysql", Import("T", "model"))
    \o <<Code("pid", {"config"})>>
    \o Anchored("redis", Code("redis", {"rdb", "config.Redis"}))
    \o Anchored("mysql", Code("mysql", {"model"}))
    \o <<Code("upgrader", {})>>
    \o Anchored("grpc", Code("grpc", {"grpcsrv"}))
    \o <<Code("http", {"httpsrv"}), Code("ready", {})>>

ConfigGo ==
    Anchored("mysql", Code("none", {"config.DB"}))
    \o Anchored("redis", Code("none", {"config.Redis"}))
    \o Anchored("grpc", Code("none", {"config.GRPC"}))

HandlerHealth ==
    Anchored("redis", Import("kate", "rdb"))
    \o Anchored("mysql", Import("T", "model"))
    \o Anchored("mysql", Code("none", {"model"}))
    \o Anchored("redis", Code("none", {"rdb"}))

GrpcSrv == <<Import("T", "config"), Code("none", {"config", "config.GRPC"})>>
ModelInit == <<Import("T", "config"), Code("none", {"config", "config.DB"})>>
ConfigRedis == <<Import("kate", "rdb"), Code("none", {"rdb"})>>

Makefile == <<AppLine("kateapp")>>
BuildSh == <<AppLine("kateapp")>>

DevIni ==
    Anchored("grpc", Section("grpc")) \o Anchored("redis", Section("redis"))
    \o Anchored("mysql", Section("mysql"))

\* The package of a file, the name that it declares there, and its lines.
File(package, declares, lines) == [package |-> package, declares |-> declares, lines |-> lines]

TemplateFS ==
    [p \in {"Makefile", "build.sh", "dev.ini", "cmd_start.go", "config.go", "db.go", "grpc.go",
            "redis.go", "grpcsrv.go", "handler_health.go", "init.go"} |->
        CASE p = "Makefile" -> File("none", {}, Makefile)
          [] p = "build.sh" -> File("none", {}, BuildSh)
          [] p = "dev.ini" -> File("none", {}, DevIni)
          [] p = "cmd_start.go" -> File("cmd", {}, CmdStart)
          [] p = "config.go" -> File("config", {}, ConfigGo)
          [] p = "db.go" -> File("config", {"config.DB"}, <<>>)
          [] p = "grpc.go" -> File("config", {"config.GRPC"}, <<>>)
          [] p = "redis.go" -> File("config", {"config.Redis"}, ConfigRedis)
          [] p = "grpcsrv.go" -> File("grpcsrv", {}, GrpcSrv)
          [] p = "handler_health.go" -> File("httpsrv", {}, HandlerHealth)
          [] p = "init.go" -> File("model", {}, ModelInit)]

\* componentFiles: whole directories, and single files of config/.
componentFiles(comp) ==
    CASE comp = "grpc" -> {"grpcsrv.go", "grpc.go"}
      [] comp = "mysql" -> {"init.go", "db.go"}
      [] comp = "redis" -> {"redis.go"}

fileOwnedByDisabled(rel, disabled) == \E comp \in disabled : rel \in componentFiles(comp)

(***************************************************************************)
(* prune.go                                                                *)
(***************************************************************************)
PruneLine_end_forgotten(disabled, st, line) ==
    CASE line.op = "begin" ->
            [st EXCEPT !.stack = Append(@, line.comp),
                       !.dropDepth = IF line.comp \in disabled \/ @ > 0 THEN @ + 1 ELSE @]
      [] line.op = "end" -> [st EXCEPT !.stack = Front(@)]
      [] OTHER -> IF st.dropDepth = 0 THEN [st EXCEPT !.out = Append(@, line)] ELSE st

\* One line: the anchors go, and so does what is inside a disabled one.
PruneLine(disabled, st, line) ==
    CASE line.op = "begin" ->
            [st EXCEPT !.stack = Append(@, line.comp),
                       !.dropDepth = IF line.comp \in disabled \/ @ > 0 THEN @ + 1 ELSE @]
      [] line.op = "end" ->
            IF st.stack = <<>> \/ Last(st.stack) # line.comp THEN [st EXCEPT !.ok = FALSE]
            ELSE [st EXCEPT !.stack = Front(@), !.dropDepth = IF @ > 0 THEN @ - 1 ELSE 0]
      [] OTHER -> IF st.dropDepth = 0 THEN [st EXCEPT !.out = Append(@, line)] ELSE st

Pruned(lines, disabled) ==
    FoldLeft(LAMBDA st, line : PruneLine(disabled, st, line),
             [out |-> <<>>, stack |-> <<>>, dropDepth |-> 0, ok |-> TRUE], lines)

pruneAnchors(lines, disabled) == Pruned(lines, disabled).out

\* Anchors that do not match are an error.
Balanced(lines) == LET st == Pruned(lines, {}) IN st.ok /\ st.stack = <<>>

(***************************************************************************)
(* rewrite.go                                                              *)
(***************************************************************************)
rewriteImports(lines) ==
    [i \in DOMAIN lines |->
        IF lines[i].op = "import" /\ lines[i].path[1] = "T"
        THEN [lines[i] EXCEPT !.path[1] = "M"] ELSE lines[i]]

rewriteAnchorLine(lines, appName) ==
    [i \in DOMAIN lines |-> IF lines[i] = AppLine("kateapp") THEN AppLine(appName) ELSE lines[i]]

\* The line must be there.
AnchorLineFound(lines) == AppLine("kateapp") \in Range(lines)

\* No anchor and no anchor line of the file is an error.
WellFormed(p, disabled) ==
    /\ Balanced(TemplateFS[p].lines)
    /\ p \in {"Makefile", "build.sh"} => AnchorLineFound(pruneAnchors(TemplateFS[p].lines, disabled))

\* A file as it is written.
Materialized(p, disabled, appName) ==
    [TemplateFS[p] EXCEPT !.lines =
        rewriteAnchorLine(rewriteImports(pruneAnchors(@, disabled)), appName)]

\* The files that are written.
Kept(disabled) == {p \in DOMAIN TemplateFS : ~fileOwnedByDisabled(p, disabled)}

(***************************************************************************)
(* What the Go compiler asks of a tree of files: every import is there and *)
(* is used, and every name that is used is imported or declared.           *)
(***************************************************************************)
ImportsOf(file) == {line.path : line \in {l \in Range(file.lines) : l.op = "import"}}
UsesOf(file) == UNION {line.uses : line \in {l \in Range(file.lines) : l.op = "code"}}

Resolves(tree, p) ==
    LET imports == ImportsOf(tree[p])
        names == {path[2] : path \in imports}
        packages == {tree[q].package : q \in DOMAIN tree}
        declared == UNION {tree[q].declares : q \in DOMAIN tree}
    IN /\ \A path \in imports : path[1] # "T" /\ (path[1] = "M" => path[2] \in packages)
       /\ names \subseteq UsesOf(tree[p])
       /\ UsesOf(tree[p]) \subseteq names \cup declared

\* httpsrv.go, the other files of config/ and of cmd/ have no part in this.
Builds(tree) == \A p \in DOMAIN tree : Resolves(tree, p)

\* The sections of the configuration of a tree that are about components.
Sections(tree) == {line.name : line \in {l \in Range(tree["dev.ini"].lines) : l.op = "section"}}

\* The steps of the start command of a tree.
StartSteps(tree) ==
    LET code == SelectSeq(tree["cmd_start.go"].lines, LAMBDA line : line.op = "code")
    IN [i \in DOMAIN code |-> code[i].step]

\* The order that a start command needs, as the stops are deferred: what a
\* server uses is opened before it and closed after it, the sockets are given
\* back after the servers, and the process is ready when all of them run.
Order == [pid |-> 1, redis |-> 2, mysql |-> 3, upgrader |-> 4, grpc |-> 5, http |-> 6, ready |-> 7]

InOrder(steps) ==
    /\ steps \in Seq(DOMAIN Order)
    /\ steps # <<>> /\ Last(steps) = "ready"
    /\ \A i, j \in DOMAIN steps : i < j => Order[steps[i]] < Order[steps[j]]
==============================================================================
