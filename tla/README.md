# A verification of kate

kate (`github.com/stn81/kate`) is a Go framework for services: a set of
libraries and a scaffold that generates a service on top of them. This directory
holds TLA+ models of the parts of it that are hard to test, the TLC
configurations that check them on small instances, and theorems about them that
TLAPS proves for every instance. Every definition is taken from the code; the
table `map` of `PROJECT.json` names the lines of each one.

    tlc -workers 2 -config RedsyncQuorum.cfg MCRedsync      # a run
    tlapm RedsyncProofs.tla                                 # the proofs of a module

## 1. The system

| part | source | state | operations | hard because |
|---|---|---|---|---|
| distributed lock | `redsync` | a key with token and expiry in each Redis pool; in each `Mutex` object a token, drawn once | `Lock`, `Unlock`, `Extend` | callers on different hosts, several pools, lost and late commands, expiry, clocks |
| task engine | `taskengine` | `shutdown` flag, channel of tokens, `WaitGroup` | `Schedule`, `run`, `Shutdown` | no lock at all: flag, group and channel are separate accesses |
| timer engine | `timerengine` | ring of lists, tick index, channel of requests, the fields of each `TimerTask` | `Start`, `Stop`, `Schedule`, `Cancel`, the loop, the walk of a bucket at each tick | loop and walks share the lists without a lock; jobs go to a task engine that may be full or shut down |
| log writer | `log/writer.go` | the open file, a RW lock; the files of the last days | `Write`, `Sync`, `Close`, the daily rotation | the rotation races with the rest; crashes; two writers may share a file |
| sampler of debug output | `debug` | atomic counters | `Check`, reset | the reset races with the count |
| HTTP framework | the package at the root | per request: context, form, response, cached body; per service: the cache | chains, routers, handlers, middlewares | the order in which header, status and body are written; panics; deadlines; the cache is shared by requests |
| request parameters | `base_handler.go`, `utils/bind.go`, `conv.go`, `default.go` | the struct of the handler | `ParseRequest` | four sources write the same fields, with widths and defaults |
| log lines | `log/encoders/simple`, `log/context.go` | the buffer of an encoder, the namespaces it has open | `With`, the fields of a line, `EncodeEntry` | fields are encoded at different times into one text; escapes, separators, nesting |
| service | `cmd/kate/template/service`, `app`, `rdb` | what is open, the deferred stops, the pid file, the listening sockets | start, signals, upgrade, stop | partial starts, order of the stop, goroutines of servers, the successor process |
| scaffold | `cmd/kate` | the staging directory, the target | `new`: materialize, prune, rewrite, set up the module, rename | a step that fails half-way, two runs for one target, choices of components |
| helpers | the rest of `utils`, `queryparams`, `datetime`, `traceid` | none to speak of | conversions | |

How they interact: a `TimerEngine` owns a `TaskEngine` and hands it the tasks
whose time has come, from the goroutines that walk the buckets and from callers
of `Schedule`; the timer engine's `Stop` shuts the task engine down. `redsync`
talks to Redis through `rdb`. `kate new` writes the start command of a service; the
command opens the database and Redis, starts the HTTP and gRPC servers, each of
which opens a log writer, and is replaced by its successor through `tableflip`. A
request passes the adapter of the router, the chain of middlewares and a handler,
which parses its parameters, answers through the one response writer and logs
through the logger of its context; requests meet in the cache. The three
concurrent libraries are the core logic of the repository, with the log writer,
whose rotation runs beside every other goroutine, and the framework of requests.

What makes each part correct is stated with its module below; the hazards that
the properties are aimed at are listed, with their lines, in `PROJECT.json`.

## 2. The modules

| module | what it is |
|---|---|
| `LeaseLock` | abstract: a lock that grants leases; what users of `redsync` are promised |
| `Redsync` | `Lock`, `Unlock` and `Extend`, pool by pool |
| `RedsyncProofs` | exclusion, its invariant and the refinement of `LeaseLock`, proved |
| `Executor` | abstract: a bounded pool of jobs that can be shut down |
| `TaskEngine` | `Schedule`, the goroutine of a task, and `Shutdown`, access by access |
| `TaskEngineProofs` | type, bound, drain and the refinement of `Executor`, proved |
| `TimerEngine` | the timer engine, on top of `Executor` |
| `LineLog` | abstract: a log of lines, from which only old ones disappear |
| `LogWriter` | the rotating writer, over a file system, days, and crashes |
| `FoldFacts` | what the folds of the community modules compute, for any operator, proved |
| `LogWriterProofs` | type, that no rotation fails a write, and the refinement of `LineLog`, proved |
| `Reply` | pure: errors, and the answers that are made of them |
| `Params` | pure: from body, query and route to the struct of a handler |
| `Encoder` | pure: the encoder of log lines, and a reader of them to compare with |
| `EncoderProofs` | that a line reads as what was logged, proved |
| `Request` | requests through router, chain, cache, handler and response, on top of the three |
| `Template` | pure: the files of the template, pruned and rewritten for a choice of components |
| `Scaffold` | runs of `kate new` for one target |
| `Service` | processes of a service: start, signals, upgrade, stop; pid file and sockets |
| `Deployment` | composes `Scaffold` and `Service`: the start command that runs is the one that was generated |
| `TimerEngineProofs` | executed once, honest, and on time, proved |
| `DeploymentProofs` | whole projects, one at most, nothing replaced or left behind; backends open, no request cut short, the upgrade hands over, an honest pid file; proved |
| `RequestProofs` | cache, access log, log lines, panics, CORS and parameters of requests, proved |
| `MCRedsync`, `MCTaskEngine`, `MCTimerEngine`, `MCLogWriter`, `MCRequest`, `MCDeployment` | the values of constants for TLC |

`Executor` stands between two models: `TaskEngine` is checked and proved to
implement it (`ImplementsExecutor`), and `TimerEngine` uses it in place of the task engine,
with the variables `level`, `pool` and `job` as a part of its own state. So the
timer engine is checked against everything that the task engine may do to it,
including jobs that are refused, run late, or are lost with a panic, without the
cost of the detail. The definitions of `LeaseLock`, `Executor` and `LineLog`
translate no particular line and are not in the map. Operators named after
another one with a suffix (`Quorum_half`, `Removed_never`) are what a plausible bug
would make of it; `PROJECT.json` says which property each one breaks.

### Redsync

A caller is a goroutine, `MutexOf[c]` the `Mutex` object that it calls. The token
is drawn once per object, so the object stands for it. `call[c]` is the program
counter of the method: which loop over the pools it is in (`acquire` and `undo` of
`Lock`, `unlock`, `extend` and `giveup` of `Extend`), at which pool, which pools
have said yes, when the attempt began and which attempt it is. Each visit of a
pool is one of four steps: `Answered`, `AnswerLost` (carried out, but the client
sees an error), `NotSent`, and `GivenUp` (to be carried out later by
`CarriedOutLate`). `KeyAfter` and `Answer` are the server's side of `SET NX PX` and
of the two scripts. `lease[c]` is what a user may conclude from the code's
answers: after `Lock`, until `m.until`, which the code computes as start + expiry
- drift + 2 ms; after `Extend`, which computes nothing, the same from the start
of `Extend`. `now` is real time; a pool's clock may be off by `ClockErr` over one
expiry, which is what the drift factor is for.

A caller of `Unlock` or `Extend` was given the lock by `Lock` before (the code says
that anything else is "a run-time error", and does not check it); it may have
overrun its lease. Left out: the text of tokens, and the failure to draw one.

### TaskEngine

`task[t]` and `stop[s]` are program counters of a call of `Schedule` together with
the goroutine that it starts, and of a call of `Shutdown`. The code takes no lock,
so the read of the flag, `Add`, the send of the token, the start, the end of the
task, the receive, `Done`, and on the other side the read and the write of the
flag, `Wait`, its wake-up and `close` are all steps of their own. A task may have
been scheduled by another task, while that one runs (`ParentOf`). Panics are
modelled where the code has them: the send on the closed channel, the second
`close`, the `WaitGroup` that is used again before `Wait` has returned, and the
`Shutdown` that finds the flag set. The data race on the flag lets a reader see an
older value; that is the same as having read earlier.

### TimerEngine

A timer is one call of `Schedule`, and the `TimerTask` that it makes. `bucket[i]` is
what a walk of the list can still reach, `walk[i]` the program counter of the
goroutine that walks it, with the element it is at and the one it will go to next
(which the code looks up before it deals with the current one). `ready`, `dispose`,
the wait for the task engine and `Remove` are separate steps, so that `Cancel`, the
loop and ticks come in between. `caller[t]` is the goroutine in `Schedule`;
`cancel[t]` what `Cancel` last said. Delays are in half seconds, and cut to whole
ones as the code does.

The list is shared without a lock. When the loop appends while the last element
is being removed, the new element may be linked behind the removed one: from then
on `broken[i]`, appended elements are out of reach, and a walk that finds the list
empty but its length positive takes the root of the list for an element, whose
type assertion panics; an append that meets the removal of another element may lose an
update of that length. An append may also find the link of the removed element nil
(`AppendPanics`), which the loop recovers and makes fatal. No goroutine of the engine
recovers from the panic of a walk, nor from the one of a job that is lost in a closed
task engine: `crashed`. `OnTime` says when such an end is out of reach.

Assumed: a walk ends within `MaxLag` ticks, and so before the next walk of its
bucket, an hour later; `TakesTick` carries this assumption as a guard (`Prompt`).
The 32-bit tick index does not wrap (136 years).

### LogWriter

A writer is a process with a `Writer` on the location. The file system is modelled
as far as the code relies on it: names (`current` for the location, `dated[d]` for
the location with a date), files (`content[f]`, in the order of the appends), open
files (`file[w]`, which stay what they are when their name changes), rename that
replaces, and `O_CREATE` with `O_APPEND`. `rotate` is four steps: the tick with the
look-up of the file (`Notices`), `Renames`, `Removes`, and `Reopens`, which takes the
write lock and so waits for every `Write` between `WriteBegins` and `WriteEnds`. `Dies`
ends the process at any step and `Opens` starts it again. The loop reads
`lastTickDay` in its own goroutine (`LoopStarts`), so midnight may fall between the
opening and that. Days are whole; a rotation is done in the first hour of its day, so
`24 * i` hours ago is `i` days ago, or one more when a day of 23 hours lies between
(`ShortDays`, `DayBefore`). A rotation, and the start and the end of a loop, take
less than a day (the guard of `Midnight`). Errors of the file system other than a
missing file end the process in the code (`os.Exit(-1)`), which `Dies` covers.

`ImplementsLineLog` maps the dated files in the order of their dates, followed by
the file at the location, to one log: lines are only added at its end, and only
lines that are `MaxRotateCount` days old may disappear, one stretch of them at a time.

### Request, with Reply, Params and Encoder

A site is a router with one route: its kind (`Router` or `RESTRouter`), its chain
in the order of the layers, the style of its handlers (errors with status 200 and an
errno as in `BaseHandler`, or with a status as in `RESTHandler`), and the requests that
come. `router` is the router while it is set up, because the limit that holds for a
route is the one at its registration. `req[r]` is a request: `pc` and `at` say whether
it is on its way down or up the chain and at which layer, `ip` where its handler is,
`panicking` whether a panic unwinds the layers, `late` whether the deadline of its
context has passed. `w` is the response: on the side of kate `wroteHeader`,
`statusCode` and `rawBody`, as `response.go` keeps them, and on the side of `net/http`
what has gone out: `status` and `sent` (the header at the time of the first status) and
`body`. One action is a layer that is entered or left, or one call of the handler.
The handler is a script of calls (`parse`, `ok`, `error`, `status`, `write`, `flush`, `wait`,
`panic`, `with`, `log`, ...), which stands for the code of a service. `cache` is the
shared LRU with its key, made as `getCacheKey` makes it; entries expire and are
evicted. `handled`, `panicked`, `hit` and `logged` are history.

`Params` has the conversions with the width of words: what is no number becomes 0, what is
beyond 64 bits becomes the limit, and `SetInt` and `SetUint` keep the low bits. Words have 5
bits in the run and fields 3, so that all three ranges are small. `AsWritten` is the
reference: it knows the texts, and nothing of the conversions. `Encoder` builds a line token
by token, as the code does with its buffer, the separator looked up at its end; `Read` is a
reader of JSON with a stack, `Meaning` what the calls said, and a line must read as its
calls meant. The fields of a site are those that zap can ask for (`FieldsOK`): whole fields,
with names in an object and none in an array. `Reply` follows `errors.As` through the layers
of an error.

Properties that are false as one would first state them, so that `Request` states
them with the exception (TLC refutes each one without it):

- the cache and the access log know the last piece of the body and the last status
  only: a handler that writes several is cached and logged wrongly
  (`CacheServesAnswers`, `LoggedIsSent`), and one that writes into its slice afterwards
  changes what is cached;
- a `|` in the URI makes the keys of different requests equal; errors in the style of
  `BaseHandler` have status 200 and are cached; the cached headers are added after
  `WriteHeader` and so never go out;
- an answer of `Recovery` has no CORS headers when `Recovery` is outside `CORS`, as
  `routes.go` of the template has it; a panic after the header is recorded as 500 while
  the client got another status;
- data that cannot be encoded gives an empty 200, which the log calls status 0;
- a namespace inside an object is not closed with it, and the line is no JSON;
- a number of the query that does not fit its field is accepted with another value,
  while JSON gives an error; an explicit zero of a scalar is replaced by the default;
- `SetMaxBodyBytes` after the registration of a route has no effect on it.

### Template, Scaffold, Service and Deployment

`Template` has the files of the template in which a component, or the name of the app,
has a part, as sequences of anchors, imports, sections and code, and what `prune.go` and
`rewrite.go` make of them; `dev.ini` stands for the three files of `scripts/conf`, which
have the same anchors. `Builds` is what the Go compiler asks of imports and names. A run
of `Scaffold` goes through `runNew`: the arguments and the check of the target, the
staging directory, file by file, the Go module (each step may fail, and those that need
the network leave the project `degraded`, without a build), `os.Remove`, `os.Rename` and
the deferred clean-up. Runs interleave, may be killed anywhere, and the user may
meanwhile make the target or put a file into it.

`Service` runs the steps of the start command in order (`code`), with a stack of
deferred stops. A process is `starting`, `notifying` (before `signal.Notify`), in its `loop`,
`upgrading` (blocked in `Upgrade`) or `stopping`; each server has a goroutine that is
spawned before it serves, so a stop may come between. `fate` says how a process ended:
`stopped` in order; `late`, by the `Fatal` of a gRPC server that was stopped before it
served; `signalled` before `signal.Notify`; `failed` in a step of its start, with `Fatal` or
with a panic (the file of an access log, or the addresses of a Redis configuration that
was not loaded), whose stops run first; `crashed`, when `Serve` of a running server
returns an error (`ServeFails`) or the rotation of a log exits (`RotationExits`, the
finding of `logwriter_upgrade`); or `killed`. Of `tableflip` (external) is modelled what the
code relies on: sockets that the child inherits, `Ready`, the channel `Exit`, the timeout,
the pid file. The channel of signals holds one.

`Deployment` installs the project of a run that is done: `code` becomes the steps of
its start command, so that the order of the template, what the anchors keep, and the
life of the process are checked as one.

What the code does and the properties leave out: `os.Remove` at `new.go:73` also
removes a regular file at the target (the comment there speaks of an empty directory),
and a killed run leaves its staging directory; after an upgrade the old process
removes the pid file that its successor has written (`app.go:78`), and a child that
fails, or a second start by hand, leaves its own pid in it; a gRPC server that is
stopped before its goroutine serves ends the process in the middle of the stop; a
signal is lost while another one waits; `Shutdown` has no limit of its own, and
`GracefulStop` waits for gRPC calls that nothing limits. Requests are cut short not only
by a kill: a signal between `Ready` and `signal.Notify` (`cmd_start.go:140`, `:145`) ends a
process that serves already, an error of `Serve` is fatal (`httpsrv.go:99`,
`grpcsrv.go:81`), and so is the rotation of a log that two processes share.
`StopsCutNothing` says of the other ends that they cut nothing.

## 3. The runs

| run | question | instance | result |
|---|---|---|---|
| `redsync_quorum` | Is the lock exclusive, and why? | 2 callers, 3 pools, 1 try, expiry 3, drift 2, time to 3; visits may be lost | holds: `MutualExclusion`, `QuorumBacksLease`, `NoForeignDelete` |
| `redsync_default` | Does `Lock` return, and do users see a lease lock? | 2 callers, the default single pool, 2 tries, expiry 3, time to 3, one late command | holds: `TypeOK`, `LockReturns`, `ImplementsLeaseLock` |
| `redsync_shared` | May goroutines share a `Mutex`? | 2 callers of one object | violated: `MutualExclusion` |
| `redsync_extend` | Is the lock mine when `Extend` returns true? | 2 callers, 1 pool | violated: `ExtendTrueIsExclusive` |
| `taskengine` | Bound, drain, termination, refinement | a parent and its child, 2 more tasks, 2 Shutdowns, level 0 (no bound) or 2 | holds: `TypeOK`, `BoundedConcurrency`, `WaitDrains`, `ShutdownEnds`, `NothingStuck`, `ImplementsExecutor` |
| `taskengine_late` | Is a task refused once the engine has stopped? | 1 or 2 tasks, 1 Shutdown | violated: `StoppedMeansRefused` |
| `timerengine` | Once, honestly, on time; and does `Stop` return? | 2 timers, ring of 3, ticks to 4, one request in the channel, level 1 | holds: `TypeOK`, `ExecutedOnce`, `CancelHonest`, `OnTime`, `StopReturns` |
| `logwriter` | Is the log complete and in order, over crashes; do writes succeed; does `Close` return? | 1 process, opened up to twice, 3 lines, 4 days, 2 kept | holds: `TypeOK`, `WritesSucceed`, `CloseReturns`, `ImplementsLineLog` |
| `logwriter_upgrade` | Can a rotation end the process? | 2 processes, 2 days | violated: `NeverExits` |
| `request` | Do cache, log, header and parameters say what was sent and written, after errors, panics and deadlines too; do requests end? | the sites of `MCRequest`, up to 3 requests, a cache of one entry, words of 5 bits | holds: `TypeOK`, `CacheServesAnswers`, `HitsAreSuccesses`, `PanicsAnswered`, `CrossOriginAnswers`, `LoggedIsSent`, `LinesSayWhatWasLogged`, `ParsedAsWritten`, `RequestsEnd` |
| `deployment` | Is a project whole or not there; is a service opened, upgraded and stopped in order? | 2 runs, one for every choice of components, the other for all or none; 2 processes, 2 requests, 2 signals | holds: `TypeOK`, `NeverHalf`, `TargetKept`, `NoStagingLeft`, `DirectoriesStay`, `BackendsOpen`, `StopsCutNothing`, `UpgradeHandsOver`, `PidFileHonest`, `StopsEnd` |
| `timerengine_early` | Is a timer ever early? | 2 timers of 4 s on a ring of 3 | violated: `NeverEarly` |

The violations are disagreements between the code and what it says of itself; the
`findings` of `PROJECT.json` quote both.

**Bounds.** Three pools are the fewest in which a quorum is not all the pools, and
two callers the fewest that compete; with three ticks to an
expiry a lease can begin, be backed by keys of different age, and run out. The
retries and the late commands are in the run with one pool, where they are cheap;
time goes far enough for a key to expire and a second caller to lock after the
first. The theorems remove these bounds. The four tasks of `taskengine` let a
child wait for a token that others hold, while a late task races with two
Shutdowns. In `timerengine` a ring of three and five ticks (0 to 4) let a bucket
be visited twice; the delays are none, one and a half second (one bucket on), and
two turns of the ring, which is the case that meets the walk of the current
bucket and that `ready` puts off for a turn. `MaxLag` is 0 there: with 1, the safety
properties were checked as well, but the liveness property takes too long.

The sites of `request` come in families, each of which varies one thing over many
values: what the adapter refuses; the sources of one field; scripts of two calls in four
chains; errors; lines of three groups of fields; pairs of requests on one cache, and
triples, in which one entry makes another leave. In `deployment` one run of `kate new`
generates every choice of components, while the other one, for all of them or for none,
competes for the target (`Selections`); started are the two extremes (`Installed`). Two
processes are the old and the new one of an upgrade, and two signals allow a signal to
stop during the upgrade.

Two instances that are no runs show the limits of `ImplementsLineLog`: with two
writers the second rotation of a day replaces the file that the first one has just
dated, and with `ShortDays = {2}` and `MaxRotateCount = 3` the rotation after the short
day replaces the file of the day before it. TLC refutes the property in both. Another
one shows the limits of `OnTime`: a delay of half a second is cut to none, and the timer,
put into the bucket whose walk has begun, is started a turn of the ring late, which is
an hour with the ring of the code (`timer_engine.go:167`).

**Fairness.** `Redsync`: each call of the Redis client returns, if with an error, and each
sleep ends; nobody has to lock or unlock, and time has no duty. `TaskEngine` and
`TimerEngine`: the Go scheduler runs every goroutine that can go on (weak fairness); a task
returns once its context is cancelled, which is the convention of `Task.Run(ctx)`, and
otherwise may run for ever; nobody has to call anything. The loop of the timer engine leaves
under strong fairness: its `select` chooses at random among the channels that are ready, and
meets `ctx.Done()` again and again; so does the loop of the log writer. The panics of the
timer engine's loop are outside of its fairness: its wait for the jobs ends because they end
(`Idle`), not because the process does. System calls return. `Request`: the code of kate
goes on by itself and a deadline passes, but a backend owes no answer; `Progress` is weak
fairness of `Proceeds` with the condition under which it is enabled spelled out
(`CanProceed`), which TLC evaluates faster. `Service`: the scheduler runs every goroutine,
requests end, and an upgrade times out after ten minutes; nobody has to send a signal. That
requests end the code grants for HTTP, as far as handlers heed the deadline that
`HandleTimeout` gives them (`routes.go:27`); for gRPC it is an assumption about the services
that are registered, and `StopsEnd` rests on it.

## 4. The proofs

`RedsyncProofs` proves, for all callers, pools, tries, expiries and bounds, that
`TypeOK`, `QuorumBacksLease` and `MutualExclusion` hold and that `Redsync` implements
`LeaseLock`, from three assumptions that are spelled out in each theorem:

- `OwnMutexes`: each caller has a `Mutex` object of its own, without which
  exclusion is false (`redsync_shared`);
- `DriftCoversClocks`: expiry times the drift factor is at least the 2 ms that
  `Lock` adds plus the error of a pool's clock over one expiry. The defaults, 8 s and
  0.01, leave 78 ms for the clocks; `SetDriftFactor(0)` or an expiry under 200 ms
  leave less than nothing;
- `NoLateDelete`: a delete that the client has given up on is not carried out
  later. The token of an object never changes, so a late delete of an old lease
  can take away a key of its next one. Late `SetNX` and touch commands are covered.

Exclusion is not inductive: it says nothing of the keys. The invariant `IInv` adds
that a valid lease is backed by unexpired keys with the owner's token in a quorum
of the pools (`LeaseBacked`), that the pools counted so far by a call under way hold
such keys (`CountedBack`), and that no caller that is deleting its keys has a lease
(`LeaseByLoop`). Any two quorums meet (`QuorumsMeet`, from the cardinality of finite
sets), and the key in the common pool has one token. Each kind of step (a visit, a
late command, an expiry, a method's step, a tick) has its lemma.

`TaskEngineProofs` proves `TypeOK`, `BoundedConcurrency`, `WaitDrains` and
`ImplementsExecutor` for any finite set of tasks, any levels and any number of Shutdowns.
The invariant adds `GroupCounts`: the counter of the group is the number of tasks that were
added and are not done, those included whose `Schedule` has panicked. `Enters`, `Leaves` and
`Stays` say how the number of tasks in a set of stages changes with a step; with them each
action is a line of arithmetic. For the refinement, `FlagFirst` adds that the channel is
closed and a Shutdown has passed its first checks only after the flag was set, and that a
`Schedule` panics only on the closed channel; then each step is one of `Executor`, or
changes neither the jobs nor the pool.

`LogWriterProofs` proves `TypeOK` and `WritesSucceed` for any number of writers on one
file, any lines, days, short days and openings. The invariant says where the file of
a write under way is: it is the one its writer has open, unless that one was told
to close (`WriteHasFile`); the wait for the read locks in `Reopens` is what keeps it.

That it implements `LineLog` (`LogIsKept`) takes two conditions, `OneWriter` and
`ExactDays` (no day of 23 hours lies in the way), without which it is false (section 3).
The invariant adds that a file has at most one of the names, and a dated one the date of a
day that is over (`Names`); that what is in a file was written, and in a dated file not
after the day that its date can tell (`Kept`), so that what `Removes` takes away is old;
and that the file of the writer is the one at the location, but between `Renames` and
`Reopens`, where nothing is at the location and the file has the date of yesterday
(`Due`). The log is a fold over the dates. `FoldFacts` says what such a fold computes, for
an operator that is a constant of the module: the induction, over lengths, is an argument
about the least length that fails, and each fold that is needed is an instance of it.
With `\o` for the operator, `FlattenedAround` says that a change of one file changes the
log at its place. The end of a write is then `Write`, `Removes` is `Forget`, a new day is
`Midnight`, and all other steps, the rename among them, leave the log as it is.

`DeploymentProofs` proves, for any number of runs of `kate new` and any choices, that
`TargetKept`, `NoStagingLeft` and `DirectoriesStay` hold, and `NeverHalf` under the
condition `TemplateBuilds`: that the project of each of the eight choices builds, and that
its start command is `InOrder` (backends before servers, the upgrader below the servers,
ready last). That is
a fact about the concrete files of the template, which folds over their lines and so is
for TLC to compute; the `deployment` run does, as it generates every choice. The
invariant says what is in each staging directory: nothing, a part of the project of
the run's components (`Partial`), or all of it (`Whole`), and that a target which a run
has made is `Whole`. A whole project has a `Makefile`, so its directory is not empty and
`os.Remove` leaves it alone: that is why no run replaces the project of another one.

`DeploymentProofs` goes on from there, under the same condition, for any number of
processes, requests and signals, and proves `TypeOK`, `BackendsOpen`, `StopsCutNothing`,
`UpgradeHandsOver` and `PidFileHonest` of the deployment. `StopsCutNothing` speaks of the
processes that end in order, or by the `Fatal` of a gRPC server in the midst of that, or in
a start that fails; `Fatal` of a running server, a rotation and signals before
`signal.Notify` are steps of the specification that may cut requests, and are told apart by
`fate`. The invariant `ServiceInv` says that the deferred stops of a process are a first
part of its start command (`FirstPart`), and ties to them what is open and what accepts
connections (`ProcOK`); that a request is under way only in a process that still has the
stop of its server before it (`CallOK`, `Waited`), and was cut only by an end that may do so
(`Cutting`, `CutBy`); that who has been replaced has a child that was ready (`ChildOK`); and
whom the pid file may name (`PidOK`). The order of the start command does the rest: what is
below a deferred step is deferred too (`Below`), so the backends of a server are open; the
step that a stop takes away is above all others (`Popped`), so no request is left when the
backends close, and none when a gRPC server that never served ends the process. Most steps
change one process and either go on (`OneStep`) or end it (`DyingStep`).

`TimerEngineProofs` proves `TypeOK`, `ExecutedOnce`, `CancelHonest` and `OnTime` for any
timers, delays, levels, queue and ring, with `RingAssumption` alone: a walk ends within
`MaxLag` ticks, which are fewer than a turn of the ring. None of the four is inductive.
The invariant says where a timer is: queued once, or at one place of one bucket, or in
neither (`Places`); that the walks under way are recent (`Recent`), so that those of one
bucket do not overlap (two ticks less than a turn apart have different remainders,
`Apart`); that a walk holds elements of its bucket in their order, and that the only
started timer in a bucket is the one its walk is about to remove (`Cursors`), so that no
walk meets a timer that was executed. For `OnTime` the invariant `Timely` adds that,
as long as all delays were exact, a bucket holds the timers of one tick, each walk
stands at the head of its bucket, and no append was lost: an exact delay never leads
to a bucket that is being walked. With other delays it can, which is what
`timerengine_early` and `broken` are about. `Removed` takes out the element at its place
as `list.Remove` does; `Taken` says what that leaves. `Downs` adds that
nothing but a Stop shuts the task engine down, so that the process stays up until then.

`RequestProofs` proves `TypeOK`, `CacheServesAnswers`, `PanicsAnswered`,
`CrossOriginAnswers`, `LoggedIsSent` and `LinesSayWhatWasLogged` of `Request` for every
site: any chain of the six middlewares in any order and number, any scripts of the handlers,
any number of requests and any size of the cache. Assumed of the sites
(`ScenariosAssumption`) is what Go's types say of them, that a handler asks for a status
that ends an answer with a body (`FinalStatuses`), and that it logs whole fields.
`HitsAreSuccesses` has the condition `ErrorsShow`, that no error of a handler has the status
200, and `ParsedAsWritten` the condition `DefaultsFit`, that a field can hold its own
default; TLC finds both true of the sites of the run.

None of them is inductive. `Sound` says of one request, at a site, where it is
(`Control`); that its writer has nothing before there is an answer (`Writing`); that a
panic under way has passed no `Recovery`, and that one that is over left a 500 and its
text (`Panicking`); that a handler that answers once has its answer in the writer, in
`net/http` and in the log alike, with no more answers to come (`Answers`); that an answer
of the handler was given with the headers of CORS (`Crosses`); and that the body the
writer remembers is no error while the status it remembers is 200 (`Clean`). `EntryOK`
ties an entry of the cache to the request that made it, which has left its handler: what
it sent stays (`Evolves`), so that an entry stays true while all requests go on
(`EntryStays`). The steps fall into kinds with a lemma each: a layer is entered or left
and nothing is written (`Walks`), a call of the handler that writes nothing (`Calling`),
one that answers (`Replies`), and the four that answer from elsewhere: the adapter, the
cache, `Recovery` and the end of the request. What `WriteHeader` and `Write` make of a
writer, with and without CORS, is said once (`HeadWritten`, `BodyWritten`), and what
`errors.As` finds in an error too (`AsFinds`).

From there the properties are short, but for three. For `CacheServesAnswers`, two keys are
compared place by place (`Parts`): if one URI were longer than the other, it would hold
the bar that ends the other (`LongerHasMark`), so without bars the three parts agree
(`KeysDiffer`). For `ParsedAsWritten`, a number within the range of a field passes the
limits of 64 bits and the low bits unchanged (`ScalarBound`), each source hides the
weaker ones (`WrittenIs`), and a default is bound as it is written. The facts about
powers of two that this takes are assumptions (`PowersAssumption`) that TLC evaluates.

The third is `LinesSayWhatWasLogged`. `EncoderProofs` has what it needs of the encoder,
for every sequence of whole fields. The encoder, the reader and the meaning are folds,
and so instances of `FoldFacts`. What `safeAddString` writes of a string, the reader
reads back as the same string (`StringsReadBack`). `Tells` ties the text so far to the
meaning so far: the reader is at a place where a value has ended or a bracket has just
been opened (`Between`), has seen what was meant, and has on its stack the brackets that
are open, each namespace included, under the names that were meant (`Nested`). Each call
keeps this (`CallsTell`, with a lemma for each kind of call; the end of an object needs
that no namespace was opened inside it), and the brackets that `closeOpenNamespaces` writes close
what is left (`Closes`). So a line reads as what was logged (`LineSays`). A logger
has encoded its context long before the line, without the bracket in front of it; that
the separators come out the same, so that the line is the one of all fields in a row,
is `FieldsLed` and `EntryText`. The invariant `LogInv` of `RequestProofs` then says that
the logger of a request is the encoder of the calls it is meant to have made, all of them
whole fields, and that behind `TraceId` the id comes first (`Contexts`); what is first is
seen by every reader, whatever follows (`FirstIsSaid`).

`TypeOK` and `NoForeignDelete` of `Redsync` are proved without any of the conditions.

Only model-checked: the liveness properties (`LockReturns`, `ShutdownEnds`,
`NothingStuck`, `StopReturns`, `CloseReturns`, `RequestsEnd`, `StopsEnd`), which are beyond
the prover, and the condition `TemplateBuilds`, which speaks of the concrete files of the
template.

## 5. What is not modelled

- `debug`: the sampler. Its counter and its reset are two atomic words, so that calls
  that race with a reset may be counted in the wrong interval; nothing says how many.
- `queryparams`, `datetime`, `traceid`, and of `utils` the rest (csv, files, names,
  random numbers, stacks): conversions without state, for which the tests beside the
  code are the better check. The text of times, numbers and ids is left out of the
  models for the same reason.
- Of the encoder: the head of a line; a field in an object whose name is empty, and a
  field in an array whose reflection fails.
- Of the framework: the trees of `httprouter` (external; a site has one route) and its own
  answer to `OPTIONS`, the parts of a multipart form; statuses below 200, 204 and 304, to
  which `net/http` gives no body; a `null` or an empty array in a JSON body, which
  `default.go:36` tells apart. A default that its own field refuses (`DefaultFails`) is
  modelled, but the struct of the run has none.
- Of the service: the values of its configuration, profiling, the schema of the
  database. Of the scaffold: the flags
  and `git init`, whose failure changes nothing, and files that are copied as they are.
- Of the libraries: the panic of a `WaitGroup` for an `Add` that falls between the steps by
  which the last `Done` wakes a `Wait` (the one for an `Add` before that `Wait` has returned
  is modelled); the time between the started mark of a timer and the look at the flag of the
  task engine (one step, as `Executed` says); `Unlock` and `Extend` of a mutex that was
  never locked; late deletes; the division by zero of `getDelay` when the two delays are
  equal; a task that shuts its own engine down, or fills it with tasks that schedule tasks
  (both wait for themselves for ever); walks that take more than an hour; `Sync` of the log
  writer.

## 6. Plan

Done: `Redsync` with `LeaseLock`, `TaskEngine` with `Executor`, `TimerEngine` on
`Executor`, `LogWriter` with `LineLog`, `Request` with `Reply`, `Params` and `Encoder`,
`Scaffold` and `Service` with `Template`, composed in `Deployment`; the proofs of section 4.

Left, in this order:

1. Proofs: the states that the fairness conditions of each module speak of.
2. `Sampler`: what its counter promises when calls race with the reset.
