------------------------------ MODULE LogWriter ------------------------------
(***************************************************************************)
(* The rotating log writer of src/log/writer.go: Write under a read lock,  *)
(* Close, and a loop that once a day renames the file, removes the one of  *)
(* MaxRotateCount + 1 days ago, and opens a new file under the write lock. *)
(*                                                                         *)
(* A writer is a process with a Writer on the location.  It may die at any *)
(* moment and be started again, and two of them may have the location      *)
(* open: for the time of an upgrade, or because two loggers are configured *)
(* with one file.                                                          *)
(*                                                                         *)
(* Days are numbered; within a day only the beginning matters, where the   *)
(* rotation is done.  The file system is a directory of names (the         *)
(* location, and the location with the date of a day) and of files that    *)
(* outlive their names while they are open.                                *)
(***************************************************************************)
EXTENDS Integers, Sequences, SequencesExt

CONSTANTS
    Writers,
    Lines,          \* the calls of Write
    None,           \* no writer
    MaxRotateCount,
    ShortDays,      \* the days that have only 23 hours
    MaxDay,         \* bound: the days
    MaxOpens        \* bound: how often a writer is opened

ASSUME CountsAssumption == MaxRotateCount \in Nat /\ MaxDay \in Nat /\ MaxOpens \in Nat

Days == 1..MaxDay

VARIABLES
    day,        \* the calendar day
    content,    \* content[f]: the lines in file f, in their order
    current,    \* the file at the location, 0 if there is none
    dated,      \* dated[d]: the file with the date of day d, or 0
    file,       \* file[w]: w.file, or 0
    last,       \* lastTickDay of the loop; the day of the opening before it runs
    loop,       \* loop[w]: where the loop is
    closing,    \* Close was called
    opens,      \* how often w was opened
    line        \* line[l]: how far the Write of l got, by whom, to which file, when

vars == <<day, content, current, dated, file, last, loop, closing, opens, line>>

NoLine == [state |-> "new", by |-> None, file |-> 0, day |-> 0]

Init ==
    /\ day = 1
    /\ content = <<>>
    /\ current = 0
    /\ dated = [d \in Days |-> 0]
    /\ file = [w \in Writers |-> 0]
    /\ last = [w \in Writers |-> 0]
    /\ loop = [w \in Writers |-> "none"]
    /\ closing = [w \in Writers |-> FALSE]
    /\ opens = [w \in Writers |-> 0]
    /\ line = [l \in Lines |-> NoLine]

\* os.OpenFile with O_CREATE and O_APPEND.
Opened_no_create(w) ==
    /\ file' = [file EXCEPT ![w] = current]
    /\ UNCHANGED <<content, current>>

Opened(w) ==
    IF current = 0
    THEN /\ content' = Append(content, <<>>)
         /\ current' = Len(content')
         /\ file' = [file EXCEPT ![w] = current']
    ELSE /\ file' = [file EXCEPT ![w] = current]
         /\ UNCHANGED <<content, current>>

LoopGoes(w, from, to) ==
    /\ loop[w] = from
    /\ loop' = [loop EXCEPT ![w] = to]

(***************************************************************************)
(* NewWriter, and the end of the process                                   *)
(***************************************************************************)
Opens(w) ==
    /\ opens[w] < MaxOpens
    /\ LoopGoes(w, "none", "starting")
    /\ Opened(w)
    /\ opens' = [opens EXCEPT ![w] = @ + 1]
    /\ closing' = [closing EXCEPT ![w] = FALSE]
    /\ last' = [last EXCEPT ![w] = day]
    /\ UNCHANGED <<day, dated, line>>

\* lastTickDay is read in the goroutine of the loop.
LoopStarts(w) ==
    /\ LoopGoes(w, "starting", "waiting")
    /\ last' = [last EXCEPT ![w] = day]
    /\ UNCHANGED <<day, content, current, dated, file, closing, opens, line>>

WritingBy(w) == {l \in Lines : line[l].state = "writing" /\ line[l].by = w}

\* The process ends and takes the writes that are under way with it.
Gone(w) ==
    /\ file' = [file EXCEPT ![w] = 0]
    /\ line' = [l \in Lines |-> IF l \in WritingBy(w) THEN [NoLine EXCEPT !.state = "gone"]
                                                      ELSE line[l]]

Dies(w) ==
    /\ loop[w] \notin {"none", "exited"}
    /\ loop' = [loop EXCEPT ![w] = "none"]
    /\ Gone(w)
    /\ UNCHANGED <<day, content, current, dated, last, closing, opens>>

(***************************************************************************)
(* Write                                                                   *)
(***************************************************************************)
\* RLock, and the file is looked up.  The writer may be closed already.
WriteBegins(w, l) ==
    /\ loop[w] \notin {"none", "exited"}
    /\ line[l].state = "new"
    /\ line' = [line EXCEPT ![l] = [state |-> "writing", by |-> w, file |-> file[w], day |-> 0]]
    /\ UNCHANGED <<day, content, current, dated, file, last, loop, closing, opens>>

\* The line is added to the file, or the file has been closed meanwhile.
WriteEnds(l) ==
    LET f == line[l].file IN
    /\ line[l].state = "writing"
    /\ IF file[line[l].by] = f /\ f # 0
       THEN /\ line' = [line EXCEPT ![l] = [@ EXCEPT !.state = "written", !.day = day]]
            /\ content' = [content EXCEPT ![f] = Append(@, l)]
       ELSE /\ line' = [line EXCEPT ![l] = [NoLine EXCEPT !.state = "failed"]]
            /\ UNCHANGED content
    /\ UNCHANGED <<day, current, dated, file, last, loop, closing, opens>>

(***************************************************************************)
(* rotateLoop and rotate                                                   *)
(***************************************************************************)
\* The date of i * 24 hours ago, at the beginning of a day.
DayBefore(i) ==
    IF ShortDays \cap ((day - i)..(day - 1)) = {} THEN day - i ELSE day - i - 1

\* A tick on a new day; the location is looked up.
Notices_forgets(w) ==
    /\ day # last[w]
    /\ LoopGoes(w, "waiting", IF current # 0 THEN "rename" ELSE "remove")
    /\ UNCHANGED <<day, content, current, dated, file, last, closing, opens, line>>

Notices(w) ==
    /\ day # last[w]
    /\ LoopGoes(w, "waiting", IF current # 0 THEN "rename" ELSE "remove")
    /\ last' = [last EXCEPT ![w] = day]
    /\ UNCHANGED <<day, content, current, dated, file, closing, opens, line>>

\* os.Rename replaces a file that has the name already, and fails when the
\* location is gone: then the process exits.
Renames(w) ==
    /\ loop[w] = "rename"
    /\ IF current # 0
       THEN /\ LoopGoes(w, "rename", "remove")
            /\ dated' = [d \in Days |-> IF d = DayBefore(1) THEN current ELSE dated[d]]
            /\ current' = 0
            /\ UNCHANGED <<file, line>>
       ELSE /\ LoopGoes(w, "rename", "exited")
            /\ Gone(w)
            /\ UNCHANGED <<current, dated>>
    /\ UNCHANGED <<day, content, last, closing, opens>>

Removes(w) ==
    /\ LoopGoes(w, "remove", "reopen")
    /\ dated' = [d \in Days |-> IF d = DayBefore(MaxRotateCount + 1) THEN 0 ELSE dated[d]]
    /\ UNCHANGED <<day, content, current, file, last, closing, opens, line>>

\* Under the write lock: no Write holds the read lock.
Reopens_unlocked(w) ==
    /\ LoopGoes(w, "reopen", "waiting")
    /\ Opened(w)
    /\ UNCHANGED <<day, dated, last, closing, opens, line>>

Reopens(w) ==
    /\ WritingBy(w) = {}
    /\ LoopGoes(w, "reopen", "waiting")
    /\ Opened(w)
    /\ UNCHANGED <<day, dated, last, closing, opens, line>>

(***************************************************************************)
(* Close: cancels the context, waits for the loop, closes the file.        *)
(***************************************************************************)
CloseCalled(w) ==
    /\ loop[w] \notin {"none", "exited"}
    /\ ~ closing[w]
    /\ closing' = [closing EXCEPT ![w] = TRUE]
    /\ UNCHANGED <<day, content, current, dated, file, last, loop, opens, line>>

LoopEnds_with_a_tick(w) ==
    /\ closing[w] /\ day # last[w]
    /\ LoopGoes(w, "waiting", "ended")
    /\ UNCHANGED <<day, content, current, dated, file, last, closing, opens, line>>

LoopEnds(w) ==
    /\ closing[w]
    /\ LoopGoes(w, "waiting", "ended")
    /\ UNCHANGED <<day, content, current, dated, file, last, closing, opens, line>>

CloseEnds(w) ==
    /\ loop[w] = "ended"
    /\ file[w] # 0
    /\ file' = [file EXCEPT ![w] = 0]
    /\ UNCHANGED <<day, content, current, dated, last, loop, closing, opens, line>>

\* A day lasts long enough for the rotation that it began with, and for a loop
\* to start and to end.
Midnight ==
    /\ day < MaxDay
    /\ \A w \in Writers : file[w] # 0 =>
          last[w] = day /\ loop[w] \in {"starting", "waiting"}
    /\ day' = day + 1
    /\ UNCHANGED <<content, current, dated, file, last, loop, closing, opens, line>>

Rotation(w) == Renames(w) \/ Removes(w) \/ Reopens(w)
Loop(w) == LoopStarts(w) \/ Notices(w) \/ Rotation(w) \/ LoopEnds(w)

\* No process has the log open.
Stopped ==
    /\ \A w \in Writers : loop[w] \in {"none", "exited"}
    /\ UNCHANGED vars

Next ==
    \/ \E w \in Writers : Opens(w) \/ Dies(w) \/ Loop(w) \/ CloseCalled(w) \/ CloseEnds(w)
    \/ \E w \in Writers, l \in Lines : WriteBegins(w, l)
    \/ \E l \in Lines : WriteEnds(l)
    \/ Midnight
    \/ Stopped

Spec == Init /\ [][Next]_vars

\* Goroutines are scheduled and system calls return.  The select of the loop
\* meets the cancelled context again and again.
Fairness ==
    /\ \A l \in Lines : WF_vars(WriteEnds(l))
    /\ \A w \in Writers :
          /\ WF_vars(LoopStarts(w))
          /\ WF_vars(Rotation(w))
          /\ SF_vars(LoopEnds(w))
          /\ WF_vars(CloseEnds(w))

FairSpec == Spec /\ Fairness

(***************************************************************************)
(* Properties                                                              *)
(***************************************************************************)
InLoop == {"starting", "waiting", "rename", "remove", "reopen"}

\* Types; a writer whose loop runs has a file open.
TypeOK ==
    /\ day \in Nat
    /\ content \in Seq(Seq(Lines))
    /\ current \in 0..Len(content)
    /\ dated \in [Days -> 0..Len(content)]
    /\ file \in [Writers -> 0..Len(content)]
    /\ last \in [Writers -> Nat]
    /\ loop \in [Writers -> InLoop \cup {"none", "ended", "exited"}]
    /\ closing \in [Writers -> BOOLEAN]
    /\ opens \in [Writers -> Nat]
    /\ line \in [Lines -> [state : {"new", "writing", "written", "failed", "gone"},
                           by : Writers \cup {None}, file : 0..Len(content), day : Nat]]
    /\ \A w \in Writers : loop[w] \in InLoop => file[w] # 0

\* A Write fails only when the writer was closed: never because a rotation took
\* the file away.
WritesSucceed ==
    [][\A l \in Lines :
          line[l].state = "writing" /\ line'[l].state = "failed" => closing[line[l].by]]_vars

\* Close returns, unless the process ends.
CloseReturns == \A w \in Writers : closing[w] ~> file[w] = 0

\* Rotating a log never takes the process down, also during a "zero-downtime
\* upgrade" (cmd_start.go:90), in which two processes have the log open.
NeverExits == \A w \in Writers : loop[w] # "exited"

\* The files in the order of their dates, and the one at the location, are the
\* log that LineLog describes: no line is lost before its time, whenever the
\* process dies and wherever midnight falls, and none is out of order.
LinesOf(f) ==
    IF f = 0 THEN <<>>
    ELSE [n \in 1..Len(content[f]) |-> [line |-> content[f][n], day |-> line[content[f][n]].day]]

Log == FlattenSeq([d \in Days |-> LinesOf(dated[d])]) \o LinesOf(current)

LL == INSTANCE LineLog WITH Keep <- MaxRotateCount, log <- Log
ImplementsLineLog == LL!Spec
==============================================================================
