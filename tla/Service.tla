------------------------------- MODULE Service -------------------------------
(***************************************************************************)
(* A service that was made from the template: the start command            *)
(* (cmd_start.go), its HTTP and gRPC servers (httpsrv.go, grpcsrv.go), the *)
(* database and Redis handles (model/init.go, src/rdb), the pid file       *)
(* (src/app/app.go), and upgrades through tableflip.                       *)
(*                                                                         *)
(* The start command does the steps of the code one by one and defers a    *)
(* stop for each; when it returns, the stops run, the last one first.      *)
(* Processes share the pid file and the listening sockets.  A process may  *)
(* be started by hand or be the child of an upgrade; it gets signals, may  *)
(* fail in a step, while it serves or when its logs are rotated, and may   *)
(* be killed.                                                              *)
(***************************************************************************)
EXTENDS Integers, Sequences, SequencesExt, FiniteSets

CONSTANTS
    Procs,
    Calls,      \* the requests of clients
    To,         \* To[c]: the server that call c goes to, "http" or "grpc"
    None,
    MaxSignals  \* bound: the signals that are sent

ASSUME NoneAssumption == None \notin Procs

VARIABLES
    code,       \* the steps of the start command
    proc,       \* proc[p]: the state of a process
    pidfile,    \* the process that the pid file names
    call,       \* call[c]: how far a request got, and in which process
    signals     \* how many signals were sent

serviceVars == <<code, proc, pidfile, call, signals>>

Servers == {"grpc", "http"}
Backends == {"redis", "mysql"}

\* SIGINT, SIGQUIT and SIGTERM are one: "stop".
Sigs == {"stop", "HUP", "TTIN"}

\* up: the process has been ready; serve: where the goroutine of a server is;
\* fate: what ended the process.  It was "stopped" in order; "late" in that a
\* gRPC server was stopped before it served; "signalled" before it listened to
\* signals; "failed" in a step of its start; "crashed" when Serve or the rotation
\* of a log failed; or was "killed".
Process(pc, parent, child, up, exit, fate) ==
    [pc |-> pc, ip |-> 1, defers |-> <<>>, open |-> {}, accepting |-> {}, failing |-> FALSE,
     serve |-> [s \in Servers |-> "none"], parent |-> parent, child |-> child, up |-> up,
     exit |-> exit, notified |-> FALSE, signal |-> None, fate |-> fate]

NoProcess == Process("none", None, None, FALSE, FALSE, None)

NewCall == [state |-> "new", by |-> None]

ServiceInit(steps) ==
    /\ code = steps
    /\ proc = [p \in Procs |-> NoProcess]
    /\ pidfile = None
    /\ call = [c \in Calls |-> NewCall]
    /\ signals = 0

Alive(p) == proc[p].pc \notin {"none", "gone"}
InFlight(p, s) == {c \in Calls : call[c].state = "busy" /\ call[c].by = p /\ To[c] = s}

Becomes(p, record) == proc' = [proc EXCEPT ![p] = record]

\* Fatal of the logger, and signals that nobody handles: the process ends at
\* once, with what is under way in it.
Ends(q, fate) == Process("gone", q.parent, q.child, q.up, q.exit, fate)

Dies(p, fate) ==
    /\ Becomes(p, Ends(proc[p], fate))
    /\ call' = [c \in Calls |-> IF call[c].state = "busy" /\ call[c].by = p
                                THEN [call[c] EXCEPT !.state = "cut"] ELSE call[c]]
    /\ UNCHANGED <<code, signals>>

(***************************************************************************)
(* startCmdFunc                                                            *)
(***************************************************************************)
Starting(p, step) == proc[p].pc = "starting" /\ code[proc[p].ip] = step

\* A process is started by hand; the fds of an upgrade go to the child only.
StartedBy(p, parent) == Process("starting", parent, None, FALSE, FALSE, None)

Starts(p) ==
    /\ proc[p].pc = "none"
    /\ Becomes(p, StartedBy(p, None))
    /\ UNCHANGED <<code, pidfile, call, signals>>

Deferred_forgotten(q, step) == [q EXCEPT !.ip = @ + 1]

Deferred(q, step) == [q EXCEPT !.ip = @ + 1, !.defers = Append(@, step)]

UpdatePidFile(p) ==
    /\ Starting(p, "pid")
    /\ Becomes(p, Deferred(proc[p], "pid"))
    /\ pidfile' = p
    /\ UNCHANGED <<code, call, signals>>

\* rdb.Init and model.Init.
OpensBackend(p, b) ==
    /\ Starting(p, b)
    /\ Becomes(p, [Deferred(proc[p], b) EXCEPT !.open = @ \cup {b}])
    /\ UNCHANGED <<code, pidfile, call, signals>>

NewUpgrader(p) ==
    /\ Starting(p, "upgrader")
    /\ Becomes(p, Deferred(proc[p], "upgrader"))
    /\ UNCHANGED <<code, pidfile, call, signals>>

\* upgrader.Listen: the socket comes from the parent, or it must be free.
Holds(q, s) == Alive(q) /\ s \in proc[q].open

MayListen(p, s) == \A q \in Procs : Holds(q, s) => q = proc[p].parent

Listens(p, s) ==
    /\ Starting(p, s)
    /\ MayListen(p, s)
    /\ Becomes(p, [Deferred(proc[p], s) EXCEPT !.open = @ \cup {s}, !.accepting = @ \cup {s},
                                               !.serve[s] = "spawned"])
    /\ UNCHANGED <<code, pidfile, call, signals>>

ListenFails(p, s) ==
    /\ Starting(p, s)
    /\ ~MayListen(p, s)
    /\ Dies(p, "failed")
    /\ UNCHANGED pidfile

\* A step fails: with Fatal, or with a panic when the file of an access log
\* cannot be opened, or when the addresses of Redis were not loaded (a
\* configuration that cannot be loaded is only reported).
StepFails(p) ==
    LET q == proc[p] IN
    /\ q.pc = "starting"
    /\ \/ /\ code[q.ip] # "redis"
          /\ Dies(p, "failed")
       \/ /\ code[q.ip] \in Servers \cup {"redis"}
          /\ Becomes(p, [q EXCEPT !.pc = "stopping", !.failing = TRUE])
          /\ UNCHANGED <<code, call, signals>>
    /\ UNCHANGED pidfile

\* upgrader.Ready writes the pid file; a child whose parent is gone fails.
Ready(p) ==
    LET q == proc[p] IN
    /\ Starting(p, "ready")
    /\ pidfile' = p
    /\ IF q.parent # None /\ ~Alive(q.parent)
       THEN Dies(p, "failed")
       ELSE /\ Becomes(p, [q EXCEPT !.pc = "notifying", !.up = TRUE])
            /\ UNCHANGED <<code, call, signals>>

\* signal.Notify.
Notify(p) ==
    /\ proc[p].pc = "notifying"
    /\ Becomes(p, [proc[p] EXCEPT !.pc = "loop", !.notified = TRUE])
    /\ UNCHANGED <<code, pidfile, call, signals>>

(***************************************************************************)
(* waitForShutdown                                                         *)
(***************************************************************************)
\* The channel has room for one signal, and others are dropped; before
\* signal.Notify a signal ends the process.
Signalled(p, sig) ==
    /\ Alive(p)
    /\ signals < MaxSignals
    /\ IF proc[p].notified
       THEN /\ Becomes(p, [proc[p] EXCEPT !.signal = IF @ = None THEN sig ELSE @])
            /\ signals' = signals + 1
            /\ UNCHANGED <<code, call>>
       ELSE /\ Becomes(p, Ends(proc[p], "signalled"))
            /\ signals' = signals + 1
            /\ call' = [c \in Calls |-> IF call[c].state = "busy" /\ call[c].by = p
                                        THEN [call[c] EXCEPT !.state = "cut"] ELSE call[c]]
            /\ UNCHANGED code
    /\ UNCHANGED pidfile

TakesStop(p) ==
    /\ proc[p].pc = "loop" /\ proc[p].signal = "stop"
    /\ Becomes(p, [proc[p] EXCEPT !.pc = "stopping", !.signal = None])
    /\ UNCHANGED <<code, pidfile, call, signals>>

\* SIGTTIN is listened to as well, but nothing is done about it.
TakesTtin(p) ==
    /\ proc[p].pc = "loop" /\ proc[p].signal = "TTIN"
    /\ Becomes(p, [proc[p] EXCEPT !.signal = None])
    /\ UNCHANGED <<code, pidfile, call, signals>>

\* Upgrade starts a child, unless there is one already, the own parent is still
\* there, or the child cannot be started.
TakesHup(p) ==
    LET q == proc[p]
        heard == [q EXCEPT !.signal = None]
    IN /\ q.pc = "loop" /\ q.signal = "HUP"
       /\ \/ Becomes(p, heard)
          \/ \E c \in Procs :
                  /\ ~q.exit /\ (q.parent # None => ~Alive(q.parent))
                  /\ proc[c].pc = "none"
                  /\ proc' = [proc EXCEPT ![p] = [heard EXCEPT !.pc = "upgrading", !.child = c],
                                          ![c] = StartedBy(c, p)]
       /\ UNCHANGED <<code, pidfile, call, signals>>

\* Upgrade returns: the child is ready, or it ended.  Of a child that was ready
\* and has ended it may say either.
UpgradeReturns(p) ==
    LET q == proc[p] IN
    /\ q.pc = "upgrading"
    /\ \/ proc[q.child].up /\ Becomes(p, [q EXCEPT !.pc = "loop", !.exit = TRUE])
       \/ ~Alive(q.child) /\ Becomes(p, [q EXCEPT !.pc = "loop", !.child = None])
    /\ UNCHANGED <<code, pidfile, call, signals>>

\* After UpgradeTimeout the child is killed.
UpgradeTimesOut(p) ==
    /\ proc[p].pc = "upgrading"
    /\ Alive(proc[p].child) /\ ~proc[proc[p].child].up
    /\ Dies(proc[p].child, "killed")
    /\ UNCHANGED pidfile

UpgraderExits(p) ==
    /\ proc[p].pc = "loop" /\ proc[p].exit
    /\ Becomes(p, [proc[p] EXCEPT !.pc = "stopping", !.signal = None])
    /\ UNCHANGED <<code, pidfile, call, signals>>

(***************************************************************************)
(* The servers                                                             *)
(***************************************************************************)
Serves(p, s) ==
    /\ s \in proc[p].accepting /\ proc[p].serve[s] = "spawned"
    /\ Becomes(p, [proc[p] EXCEPT !.serve[s] = "serving"])
    /\ UNCHANGED <<code, pidfile, call, signals>>

Accepts(p, c) ==
    /\ call[c].state = "new"
    /\ To[c] \in proc[p].accepting /\ proc[p].serve[To[c]] = "serving"
    /\ call' = [call EXCEPT ![c] = [state |-> "busy", by |-> p]]
    /\ UNCHANGED <<code, proc, pidfile, signals>>

Answers(c) ==
    /\ call[c].state = "busy"
    /\ call' = [call EXCEPT ![c].state = "done"]
    /\ UNCHANGED <<code, proc, pidfile, signals>>

\* Serve returns when the server is shut down.  http.ErrServerClosed is
\* expected; a gRPC server that was stopped before Serve makes it an error.
ServeReturns_late_never(p, s) ==
    LET q == proc[p] IN
    /\ Alive(p) /\ s \notin q.accepting /\ q.serve[s] = "serving"
    /\ Becomes(p, [q EXCEPT !.serve[s] = "returned"])
    /\ UNCHANGED <<code, pidfile, call, signals>>

ServeReturns(p, s) ==
    LET q == proc[p] IN
    /\ Alive(p) /\ s \notin q.accepting /\ q.serve[s] \in {"spawned", "serving"}
    /\ IF s = "grpc" /\ q.serve[s] = "spawned"
       THEN Dies(p, "late")
       ELSE /\ Becomes(p, [q EXCEPT !.serve[s] = "returned"])
            /\ UNCHANGED <<code, call, signals>>
    /\ UNCHANGED pidfile

\* Serve of a running server returns an error, which is fatal.
ServeFails(p, s) ==
    /\ s \in proc[p].accepting /\ proc[p].serve[s] = "serving"
    /\ Dies(p, "crashed")
    /\ UNCHANGED pidfile

(***************************************************************************)
(* The deferred stops                                                      *)
(***************************************************************************)
Stops(p, step) ==
    proc[p].pc = "stopping" /\ proc[p].defers # <<>> /\ Last(proc[p].defers) = step

Undeferred(q) == [q EXCEPT !.defers = Front(@)]

\* Shutdown and GracefulStop close the listener and wait for the requests;
\* then the wait is for the goroutine.
ClosesListener(p, s) ==
    /\ Stops(p, s)
    /\ s \in proc[p].accepting
    /\ Becomes(p, [proc[p] EXCEPT !.accepting = @ \ {s}])
    /\ UNCHANGED <<code, pidfile, call, signals>>

ServerStopped_at_once(p, s) ==
    /\ Stops(p, s)
    /\ s \notin proc[p].accepting /\ proc[p].serve[s] = "returned"
    /\ Becomes(p, Undeferred(proc[p]))
    /\ UNCHANGED <<code, pidfile, call, signals>>

ServerStopped(p, s) ==
    /\ Stops(p, s)
    /\ s \notin proc[p].accepting /\ proc[p].serve[s] = "returned"
    /\ InFlight(p, s) = {}
    /\ Becomes(p, Undeferred(proc[p]))
    /\ UNCHANGED <<code, pidfile, call, signals>>

\* tableflip holds the sockets until here.
UpgraderStops(p) ==
    /\ Stops(p, "upgrader")
    /\ Becomes(p, [Undeferred(proc[p]) EXCEPT !.open = @ \ Servers])
    /\ UNCHANGED <<code, pidfile, call, signals>>

ClosesBackend(p, b) ==
    /\ Stops(p, b)
    /\ Becomes(p, [Undeferred(proc[p]) EXCEPT !.open = @ \ {b}])
    /\ UNCHANGED <<code, pidfile, call, signals>>

\* The file goes, whoever is named in it.
RemovePidFile == pidfile' = None

\* The recovered panic is fatal.
LastStop_file_kept(p) ==
    /\ Stops(p, "pid")
    /\ Dies(p, IF proc[p].failing THEN "failed" ELSE "stopped")
    /\ UNCHANGED pidfile

LastStop(p) ==
    /\ Stops(p, "pid")
    /\ IF proc[p].failing
       THEN Dies(p, "failed") /\ UNCHANGED pidfile
       ELSE Dies(p, "stopped") /\ RemovePidFile

\* A log writer finds that another one has renamed the file it rotates, and
\* exits: that of another process, or of the other server, as both have one
\* access log unless they are configured otherwise.
RotationExits(p) ==
    /\ Alive(p)
    /\ \/ \E q \in Procs \ {p} : Alive(q)
       \/ \A s \in Servers : proc[p].serve[s] # "none"
    /\ Dies(p, "crashed")
    /\ UNCHANGED pidfile

Killed9(p) ==
    /\ Alive(p)
    /\ Dies(p, "killed")
    /\ UNCHANGED pidfile

(***************************************************************************)
(* The specification                                                       *)
(***************************************************************************)
\* What the code of a process does by itself.
Proceeds(p) ==
    \/ UpdatePidFile(p) \/ NewUpgrader(p) \/ Ready(p) \/ Notify(p)
    \/ \E b \in Backends : OpensBackend(p, b) \/ ClosesBackend(p, b)
    \/ \E s \in Servers : Listens(p, s) \/ ListenFails(p, s) \/ ClosesListener(p, s) \/ ServerStopped(p, s)
    \/ TakesStop(p) \/ TakesTtin(p) \/ TakesHup(p) \/ UpgradeReturns(p) \/ UpgraderExits(p)
    \/ UpgraderStops(p) \/ LastStop(p)

\* The goroutine of a server runs.
Goroutine(p, s) == Serves(p, s) \/ ServeReturns(p, s)

ServiceNext ==
    \/ \E p \in Procs :
          \/ Starts(p) \/ Proceeds(p) \/ StepFails(p) \/ UpgradeTimesOut(p)
          \/ RotationExits(p) \/ Killed9(p)
          \/ \E s \in Servers : Goroutine(p, s) \/ ServeFails(p, s)
          \/ \E sig \in Sigs : Signalled(p, sig)
          \/ \E c \in Calls : Accepts(p, c)
    \/ \E c \in Calls : Answers(c)

\* The scheduler runs every goroutine, an upgrade times out, and requests end:
\* HandleTimeout ends the context of those over HTTP (routes.go:27), but nothing
\* limits a gRPC call, whose end is the duty of the service that is registered.
\* What fails, and what kills, is left outside of the fairness.
ServiceFairness ==
    /\ \A p \in Procs :
          /\ WF_serviceVars(Proceeds(p))
          /\ WF_serviceVars(UpgradeTimesOut(p))
          /\ \A s \in Servers : WF_serviceVars(Goroutine(p, s))
    /\ \A c \in Calls : WF_serviceVars(Answers(c))

(***************************************************************************)
(* Properties                                                              *)
(***************************************************************************)
Fates == {"stopped", "late", "signalled", "failed", "crashed", "killed"}

ServiceTypeOK ==
    /\ pidfile \in Procs \cup {None}
    /\ \A p \in Procs :
          /\ proc[p].pc \in {"none", "starting", "notifying", "loop", "upgrading", "stopping", "gone"}
          /\ proc[p].accepting \subseteq proc[p].open
          /\ proc[p].open \subseteq Range(proc[p].defers) \cup Servers
          /\ proc[p].signal \in Sigs \cup {None}
          /\ proc[p].fate \in Fates \cup {None}
    /\ \A c \in Calls : call[c].by \in Procs \cup {None}

\* A request that is being handled never meets a database or a Redis client
\* that is not open yet or closed already, through start, stop and upgrade.
BackendsOpen ==
    \A c \in Calls : call[c].state = "busy" =>
        Backends \cap Range(code) \subseteq proc[call[c].by].open

\* A process that stops in order, also because of an upgrade, cuts no request
\* short, not even when a gRPC server that did not serve yet ends it by Fatal in
\* the middle of the stop; and no start that fails does once it was ready.
StopsCutNothing ==
    \A c \in Calls : call[c].state = "cut" =>
        LET p == proc[call[c].by] IN
        /\ p.fate \notin {"stopped", "late"}
        /\ p.fate = "failed" => ~p.up

\* A process leaves because of an upgrade only when its child was ready; as
\* long as the child lives and was not told to stop, it accepts connections
\* on every server of the service.
UpgradeHandsOver ==
    \A p \in Procs : proc[p].exit =>
        LET c == proc[proc[p].child] IN
        /\ c.up
        /\ c.pc \in {"notifying", "loop", "upgrading"} =>
              Servers \cap Range(code) \subseteq c.accepting

\* The pid file names no process that was stopped in order, and it names the
\* one process that runs when there never was another.
PidFileHonest ==
    \A p \in Procs :
        /\ pidfile = p /\ ~Alive(p) => proc[p].fate # "stopped"
        /\ proc[p].pc = "loop" /\ (\A q \in Procs \ {p} : proc[q].pc = "none") => pidfile = p

\* A process that took a signal to stop, or has been replaced, ends at last,
\* also when the signal came during an upgrade.
StopsEnd ==
    \A p \in Procs :
        Alive(p) /\ (proc[p].pc = "stopping" \/ proc[p].signal = "stop" \/ proc[p].exit)
            ~> ~Alive(p)
==============================================================================
