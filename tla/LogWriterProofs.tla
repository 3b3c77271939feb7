--------------------------- MODULE LogWriterProofs ---------------------------
(***************************************************************************)
(* For every number of writers on one file, of lines, days and openings:   *)
(* no rotation takes the file away from a Write that is under way.  The    *)
(* invariant says where the file of such a Write is: it is the one that    *)
(* its writer has open, unless that was told to close.                     *)
(*                                                                         *)
(* With one writer on the file and days of 24 hours, the log writer        *)
(* implements LineLog.  The invariant LogInv ties the names of the files   *)
(* to the days and to what is in them, and the file of the writer to the   *)
(* place where its loop is.                                                *)
(***************************************************************************)
EXTENDS LogWriter, SequenceTheorems, TLAPS

EndedIsClosing == \A w \in Writers : loop[w] = "ended" => closing[w]

WriteHasFile ==
    \A l \in Lines : line[l].state = "writing" =>
        /\ line[l].by \in Writers
        /\ loop[line[l].by] \notin {"none", "exited"}
        /\ \/ closing[line[l].by]
           \/ line[l].file = file[line[l].by] /\ line[l].file # 0

IInv == TypeOK /\ EndedIsClosing /\ WriteHasFile

(***************************************************************************)
(* Opening keeps the types, and gives the writer a file.                   *)
(***************************************************************************)
LEMMA OpenedType ==
    ASSUME TypeOK, NEW w \in Writers, Opened(w)
    PROVE  /\ content' \in Seq(Seq(Lines))
           /\ Len(content') >= Len(content)
           /\ current' \in 0..Len(content')
           /\ file' = [file EXCEPT ![w] = file'[w]]
           /\ file'[w] \in 1..Len(content')
<1>1. /\ content \in Seq(Seq(Lines)) /\ Len(content) \in Nat
      /\ current \in 0..Len(content)
      /\ file \in [Writers -> 0..Len(content)]
  BY LenProperties DEF TypeOK
<1>2. CASE current = 0
  <2>1. content' = Append(content, <<>>) /\ file' = [file EXCEPT ![w] = current']
        /\ current' = Len(content')
    BY <1>2 DEF Opened
  <2>2. <<>> \in Seq(Seq(Lines)) /\ <<>> \in Seq(Lines)
    BY EmptySeq
  <2>3. content' \in Seq(Seq(Lines)) /\ Len(content') = Len(content) + 1
    BY <1>1, <2>1, <2>2, AppendProperties
  <2> QED
    BY <1>1, <2>1, <2>3
<1>3. CASE current # 0
  BY <1>1, <1>3 DEF Opened
<1> QED
  BY <1>2, <1>3

LEMMA Initial == Init => IInv
<1> SUFFICES ASSUME Init PROVE IInv
  OBVIOUS
<1>1. content \in Seq(Seq(Lines)) /\ Len(content) = 0
  BY EmptySeq DEF Init
<1> QED
  BY <1>1 DEF Init, IInv, TypeOK, EndedIsClosing, WriteHasFile, NoLine, InLoop

(***************************************************************************)
(* The steps of a writer.                                                  *)
(***************************************************************************)
LEMMA OpensInductive ==
    ASSUME IInv, NEW w \in Writers, Opens(w) \/ Reopens(w)
    PROVE  IInv'
<1> USE DEF IInv
<1>1. Opened(w) /\ UNCHANGED <<day, dated, line>>
  BY DEF Opens, Reopens
<1>2. /\ content' \in Seq(Seq(Lines))
      /\ Len(content') >= Len(content) /\ Len(content') \in Nat /\ Len(content) \in Nat
      /\ current' \in 0..Len(content')
      /\ file' = [file EXCEPT ![w] = file'[w]] /\ file'[w] \in 1..Len(content')
  BY <1>1, OpenedType, LenProperties DEF TypeOK
<1>3. /\ loop' \in [Writers -> InLoop \cup {"none", "ended", "exited"}]
      /\ loop' = [loop EXCEPT ![w] = loop'[w]] /\ loop'[w] \in {"starting", "waiting"}
      /\ closing' \in [Writers -> BOOLEAN] /\ last' \in [Writers -> Nat] /\ opens' \in [Writers -> Nat]
  <2>1. CASE Opens(w)
    BY <2>1 DEF Opens, LoopGoes, TypeOK, InLoop
  <2>2. CASE Reopens(w)
    BY <2>2 DEF Reopens, LoopGoes, TypeOK, InLoop
  <2> QED
    BY <2>1, <2>2
<1>4. TypeOK'
  <2>0. 0..Len(content) \subseteq 0..Len(content') /\ file'[w] \in 0..Len(content')
    BY <1>2
  <2>1. dated' \in [Days -> 0..Len(content')] /\ file' \in [Writers -> 0..Len(content')]
    <3>1. dated' \in [Days -> 0..Len(content')]
      BY <1>1, <2>0 DEF TypeOK
    <3>2. file \in [Writers -> 0..Len(content')]
      BY <2>0 DEF TypeOK
    <3> QED
      BY <1>2, <2>0, <3>1, <3>2
  <2>2. line' \in [Lines -> [state : {"new", "writing", "written", "failed", "gone"},
                             by : Writers \cup {None}, file : 0..Len(content'), day : Nat]]
    BY <1>1, <1>2 DEF TypeOK
  <2>3. \A v \in Writers : loop'[v] \in InLoop => file'[v] # 0
    <3>1. file'[w] # 0
      BY <1>2
    <3>2. \A v \in Writers \ {w} : file'[v] = file[v] /\ loop'[v] = loop[v]
      BY <1>2, <1>3 DEF TypeOK
    <3> QED
      BY <3>1, <3>2 DEF TypeOK
  <2> QED
    BY <1>1, <1>2, <1>3, <2>1, <2>2, <2>3 DEF TypeOK
<1>5. EndedIsClosing'
  BY <1>3 DEF Opens, Reopens, EndedIsClosing, TypeOK
<1>6. WritingBy(w) = {}
  BY DEF Opens, Reopens, LoopGoes, WritingBy, WriteHasFile
<1>7. \A v \in Writers \ {w} : file'[v] = file[v] /\ loop'[v] = loop[v] /\ closing'[v] = closing[v]
  BY <1>2, <1>3 DEF Opens, Reopens, TypeOK
<1>8. WriteHasFile'
  BY <1>1, <1>6, <1>7 DEF WriteHasFile, WritingBy
<1> QED
  BY <1>4, <1>5, <1>8

LEMMA GoneInductive ==
    ASSUME IInv, NEW w \in Writers, NEW to \in {"none", "exited"}, Gone(w),
           loop' = [loop EXCEPT ![w] = to],
           UNCHANGED <<day, content, current, dated, last, closing, opens>>
    PROVE  IInv'
<1> USE DEF IInv
<1>1. Len(content) \in Nat
  BY LenProperties DEF TypeOK
<1>2. TypeOK'
  BY <1>1 DEF TypeOK, Gone, NoLine, InLoop
<1>3. EndedIsClosing'
  BY DEF EndedIsClosing, TypeOK
<1>4. \A l \in Lines : line'[l].state = "writing" => line'[l] = line[l] /\ line[l].by # w
  BY DEF Gone, NoLine, WritingBy
<1>5. WriteHasFile'
  BY <1>4 DEF WriteHasFile, Gone, TypeOK
<1> QED
  BY <1>2, <1>3, <1>5

\* The steps that leave the files of all the writers alone.
LEMMA QuietInductive ==
    ASSUME IInv, NEW w \in Writers,
           \/ LoopStarts(w) \/ Notices(w) \/ (Renames(w) /\ current # 0) \/ Removes(w)
           \/ CloseCalled(w) \/ LoopEnds(w)
    PROVE  IInv'
<1> USE DEF IInv
<1>1. UNCHANGED <<day, content, file, opens, line>>
  BY DEF LoopStarts, Notices, Renames, Removes, CloseCalled, LoopEnds
<1>2. /\ loop' = [loop EXCEPT ![w] = loop'[w]]
      /\ loop[w] = loop'[w] \/ (loop[w] \in InLoop /\ loop'[w] \in (InLoop \cup {"ended"}))
      /\ \A v \in Writers : closing[v] => closing'[v]
      /\ closing' \in [Writers -> BOOLEAN]
  BY DEF LoopStarts, Notices, Renames, Removes, CloseCalled, LoopEnds, LoopGoes, InLoop, TypeOK
<1>3. /\ current' \in 0..Len(content) /\ dated' \in [Days -> 0..Len(content)]
      /\ last' \in [Writers -> Nat]
  <2>1. Len(content) \in Nat
    BY LenProperties DEF TypeOK
  <2>2. current' = current \/ current' = 0
    BY DEF LoopStarts, Notices, Renames, Removes, CloseCalled, LoopEnds
  <2>3. dated' \in [Days -> 0..Len(content)]
    <3>1. CASE dated' = dated
      BY <3>1 DEF TypeOK
    <3>2. CASE Renames(w) /\ current # 0
      BY <2>1, <3>2 DEF Renames, TypeOK
    <3>3. CASE Removes(w)
      BY <2>1, <3>3 DEF Removes, TypeOK
    <3> QED
      BY <3>1, <3>2, <3>3 DEF LoopStarts, Notices, CloseCalled, LoopEnds
  <2>4. last' \in [Writers -> Nat]
    BY DEF LoopStarts, Notices, Renames, Removes, CloseCalled, LoopEnds, TypeOK
  <2> QED
    BY <2>1, <2>2, <2>3, <2>4 DEF TypeOK
<1>4. TypeOK'
  BY <1>1, <1>2, <1>3 DEF TypeOK
<1>5. EndedIsClosing'
  BY <1>2 DEF EndedIsClosing, TypeOK, LoopStarts, Notices, Renames, Removes, CloseCalled, LoopEnds,
     LoopGoes
<1>6. WriteHasFile'
  BY <1>1, <1>2 DEF WriteHasFile, TypeOK, InLoop
<1> QED
  BY <1>4, <1>5, <1>6

LEMMA CloseInductive ==
    ASSUME IInv, NEW w \in Writers, CloseEnds(w)
    PROVE  IInv'
<1> USE DEF IInv
<1>1. TypeOK'
  BY DEF CloseEnds, TypeOK, InLoop
<1>2. EndedIsClosing' /\ WriteHasFile'
  BY DEF CloseEnds, EndedIsClosing, WriteHasFile, TypeOK
<1> QED
  BY <1>1, <1>2

(***************************************************************************)
(* The steps of a line.                                                    *)
(***************************************************************************)
LEMMA LinesInductive ==
    ASSUME IInv, NEW l \in Lines, WriteEnds(l) \/ \E w \in Writers : WriteBegins(w, l)
    PROVE  IInv'
<1> USE DEF IInv
<1>1. Len(content) \in Nat
  BY LenProperties DEF TypeOK
<1>2. CASE WriteEnds(l)
  <2>1. content' \in Seq(Seq(Lines)) /\ Len(content') = Len(content)
    <3>1. CASE content' = content
      BY <3>1 DEF TypeOK
    <3>2. CASE content' = [content EXCEPT ![line[l].file] = Append(@, l)] /\ line[l].file # 0
      <4>1. line[l].file \in 1..Len(content)
        BY <1>1, <3>2 DEF TypeOK
      <4>2. content[line[l].file] \in Seq(Lines)
        BY <4>1, ElementOfSeq DEF TypeOK
      <4>3. Append(content[line[l].file], l) \in Seq(Lines)
        BY <4>2, AppendProperties
      <4> QED
        BY <3>2, <4>1, <4>3, ExceptSeq DEF TypeOK
    <3> QED
      BY <1>2, <3>1, <3>2 DEF WriteEnds
  <2>2. /\ UNCHANGED <<day, current, dated, file, last, loop, closing, opens>>
        /\ \A k \in Lines \ {l} : line'[k] = line[k]
        /\ line'[l].state # "writing"
        /\ line' \in [Lines -> [state : {"new", "writing", "written", "failed", "gone"},
                                by : Writers \cup {None}, file : 0..Len(content), day : Nat]]
    <3> DEFINE Line == [state : {"new", "writing", "written", "failed", "gone"},
                        by : Writers \cup {None}, file : 0..Len(content), day : Nat]
    <3>1. PICK e \in Line : line' = [line EXCEPT ![l] = e] /\ e.state # "writing"
      <4>1. [line[l] EXCEPT !.state = "written", !.day = day] \in Line
        BY DEF TypeOK
      <4>2. [NoLine EXCEPT !.state = "failed"] \in Line
        BY <1>1 DEF NoLine
      <4>3. CASE line' = [line EXCEPT ![l] = [@ EXCEPT !.state = "written", !.day = day]]
        BY <4>1, <4>3 DEF TypeOK
      <4>4. CASE line' = [line EXCEPT ![l] = [NoLine EXCEPT !.state = "failed"]]
        BY <4>2, <4>4 DEF NoLine
      <4> QED
        BY <1>2, <4>3, <4>4 DEF WriteEnds
    <3> QED
      BY <1>2, <3>1 DEF WriteEnds, TypeOK
  <2>3. TypeOK'
    BY <2>1, <2>2 DEF TypeOK
  <2> QED
    BY <2>2, <2>3 DEF EndedIsClosing, WriteHasFile
<1>3. CASE \E w \in Writers : WriteBegins(w, l)
  <2>1. PICK w \in Writers : WriteBegins(w, l)
    BY <1>3
  <2>2. TypeOK'
    BY <1>1, <2>1 DEF WriteBegins, TypeOK
  <2>3. closing[w] \/ file[w] # 0
    BY <2>1 DEF WriteBegins, TypeOK, EndedIsClosing
  <2>4. EndedIsClosing' /\ WriteHasFile'
    BY <2>1, <2>3 DEF WriteBegins, EndedIsClosing, WriteHasFile, TypeOK
  <2> QED
    BY <2>2, <2>4
<1> QED
  BY <1>2, <1>3

LEMMA Inductive == IInv /\ [Next]_vars => IInv'
<1> SUFFICES ASSUME IInv, [Next]_vars PROVE IInv'
  OBVIOUS
<1>1. ASSUME Midnight \/ Stopped \/ UNCHANGED vars PROVE IInv'
  <2>1. /\ UNCHANGED <<content, current, dated, file, last, loop, closing, opens, line>>
        /\ day' \in Nat
    BY <1>1 DEF Midnight, Stopped, vars, IInv, TypeOK
  <2> QED
    BY <2>1 DEF IInv, TypeOK, EndedIsClosing, WriteHasFile
<1>2. ASSUME NEW w \in Writers, Dies(w) \/ (Renames(w) /\ current = 0) PROVE IInv'
  <2>1. PICK to \in {"none", "exited"} : loop' = [loop EXCEPT ![w] = to]
    BY <1>2 DEF Dies, Renames, LoopGoes
  <2>2. Gone(w) /\ UNCHANGED <<day, content, current, dated, last, closing, opens>>
    BY <1>2 DEF Dies, Renames
  <2> QED
    BY <2>1, <2>2, GoneInductive
<1> QED
  BY <1>1, <1>2, OpensInductive, QuietInductive, CloseInductive, LinesInductive
  DEF Next, Loop, Rotation

(***************************************************************************)
(* The state is always well formed; a writer whose loop runs has a file.   *)
(***************************************************************************)
THEOREM TypeCorrect == Spec => []TypeOK
<1>1. IInv => TypeOK
  BY DEF IInv
<1> QED
  BY <1>1, Initial, Inductive, PTL DEF Spec

(***************************************************************************)
(* A Write fails only when its writer was closed (writer.go:47-52, 116).   *)
(***************************************************************************)
LEMMA WriteStep ==
    ASSUME IInv, [Next]_vars, NEW l \in Lines,
           line[l].state = "writing", line'[l].state = "failed"
    PROVE  closing[line[l].by]
<1>1. WriteEnds(l)
  <2>1. ASSUME NEW w \in Writers, Opens(w) \/ Loop(w) \/ CloseCalled(w) \/ CloseEnds(w) \/ Dies(w)
        PROVE  FALSE
    <3>1. line' = line \/ Gone(w)
      BY <2>1 DEF Opens, Loop, LoopStarts, Notices, Rotation, Renames, Removes, Reopens, LoopEnds,
                  CloseCalled, CloseEnds, Dies
    <3> QED
      BY <3>1 DEF Gone, NoLine
  <2>2. ASSUME NEW w \in Writers, NEW k \in Lines, WriteBegins(w, k)
        PROVE  FALSE
    BY <2>2 DEF WriteBegins, IInv, TypeOK
  <2>3. ASSUME NEW k \in Lines, k # l, WriteEnds(k)
        PROVE  FALSE
    BY <2>3 DEF WriteEnds, IInv, TypeOK
  <2> QED
    BY <2>1, <2>2, <2>3 DEF Next, Midnight, Stopped, vars
<1>2. ~ (file[line[l].by] = line[l].file /\ line[l].file # 0)
  BY <1>1 DEF WriteEnds, IInv, TypeOK
<1> QED
  BY <1>2 DEF IInv, WriteHasFile

THEOREM RotationKeepsWrites == Spec => WritesSucceed
<1>1. IInv /\ [Next]_vars =>
        [\A l \in Lines :
            line[l].state = "writing" /\ line'[l].state = "failed" => closing[line[l].by]]_vars
  BY WriteStep
<1> QED
  BY <1>1, Initial, Inductive, PTL DEF Spec, WritesSucceed

(***************************************************************************)
(* One writer at a time, and days of 24 hours: the files are the log       *)
(***************************************************************************)
OneWriter == \A v, w \in Writers : v = w

ExactDays == ShortDays = {}

\* The names of the files that have one.
Names ==
    /\ day \in 1..MaxDay \/ day = 1
    /\ \A d \in Days : dated[d] # 0 => d < day /\ dated[d] # current
    /\ \A d, e \in Days : dated[d] = dated[e] /\ dated[d] # 0 => d = e

\* What is in a file was written, and not later than its date can tell.
Kept ==
    /\ \A f \in 1..Len(content) : \A n \in 1..Len(content[f]) : line[content[f][n]].state = "written"
    /\ \A l \in Lines : line[l].day <= day
    /\ \A d \in Days : dated[d] # 0 =>
          \A n \in 1..Len(content[dated[d]]) : line[content[dated[d]][n]].day <= d + 1

Rotating == {"rename", "remove", "reopen"}

\* Where the file of the writer is, and that a rotation is due once a day.
Due(w) ==
    /\ loop[w] \in {"none", "exited"} => file[w] = 0
    /\ file[w] # 0 /\ loop[w] \notin {"remove", "reopen"} => file[w] = current
    /\ loop[w] \in {"remove", "reopen"} =>
          current = 0 /\ \A d \in Days : dated[d] = file[w] => d = day - 1
    /\ loop[w] \in InLoop => last[w] \in 1..day
    /\ loop[w] \in Rotating => day > 1 /\ last[w] = day
    /\ loop[w] \in InLoop /\ (last[w] # day \/ loop[w] = "rename") =>
          \A d \in Days : dated[d] # 0 => d < day - 1

LogInv == Names /\ Kept /\ \A w \in Writers : Due(w)

(***************************************************************************)
(* Files joined to a log: what a change of one of them does to the whole   *)
(***************************************************************************)
Cat == INSTANCE FoldFacts WITH Op <- \o

\* c[i] joins the first i of the n sequences of p.
Joins(c, p, n, E) ==
    /\ c \in [1..n -> Seq(E)]
    /\ c[1] = p[1]
    /\ \A i \in 2..n : c[i] = c[i - 1] \o p[i]

LEMMA Flattened ==
    ASSUME NEW E, NEW n \in Nat, n > 0, NEW p \in [1..n -> Seq(E)]
    PROVE  \E c : Joins(c, p, n, E) /\ FlattenSeq(p) = c[n]
<1> DEFINE c == Cat!Chain(p)
<1>1. p \in Seq(Seq(E)) /\ Len(p) = n
  OBVIOUS
<1>2. FlattenSeq(p) = c[n]
  BY <1>1 DEF FlattenSeq, Cat!Chain
<1>3. /\ c = [i \in 1..Len(p) |-> c[i]]
      /\ Len(p) > 0 => c[1] = p[1]
      /\ \A i \in 2..Len(p) : c[i] = c[i - 1] \o p[i]
  BY <1>1, Cat!ChainRuns, Zenon
<1> HIDE DEF c
<1>4. c[1] = p[1] /\ \A i \in 2..n : c[i] = c[i - 1] \o p[i]
  BY <1>1, <1>3
<1> DEFINE T == {i \in 1..n : c[i] \notin Seq(E)}
<1>5. T = {}
  <2> SUFFICES ASSUME T # {} PROVE FALSE
    OBVIOUS
  <2>1. PICK m \in T : \A i \in T : m <= i
    <3>1. T \in SUBSET Nat
      OBVIOUS
    <3> HIDE DEF T
    <3> QED
      BY <3>1, Cat!LeastElement
  <2>2. m # 1
    BY <1>4
  <2>3. m - 1 \in 1..n /\ m \in 2..n /\ m - 1 \notin T
    BY <2>1, <2>2
  <2>4. c[m - 1] \in Seq(E) /\ p[m] \in Seq(E) /\ c[m] = c[m - 1] \o p[m]
    BY <1>4, <2>3
  <2> QED
    BY <2>4, ConcatProperties
<1>6. c \in [1..n -> Seq(E)]
  BY <1>1, <1>3, <1>5
<1> QED
  BY <1>2, <1>4, <1>6 DEF Joins

\* One file in the middle of the others: a before it and b after it.
Around(a, b, p, q, d, n) ==
    /\ FlattenSeq(p) = (a \o p[d]) \o b
    /\ FlattenSeq(q) = (a \o q[d]) \o b
    /\ (\A i \in (d + 1)..n : p[i] = <<>>) => b = <<>>

LEMMA FlattenedAround ==
    ASSUME NEW E, NEW n \in Nat, NEW d \in 1..n,
           NEW p \in [1..n -> Seq(E)], NEW q \in [1..n -> Seq(E)],
           \A i \in 1..n : i # d => q[i] = p[i]
    PROVE  \E a, b \in Seq(E) : Around(a, b, p, q, d, n)
<1>0. n > 0
  OBVIOUS
<1>1. PICK c : Joins(c, p, n, E) /\ FlattenSeq(p) = c[n]
  BY <1>0, Flattened
<1>2. PICK e : Joins(e, q, n, E) /\ FlattenSeq(q) = e[n]
  BY <1>0, Flattened
<1>3. \A i \in 1..(d - 1) : c[i] = e[i]
  <2> DEFINE T == {i \in 1..(d - 1) : c[i] # e[i]}
  <2> SUFFICES ASSUME T # {} PROVE FALSE
    OBVIOUS
  <2>1. PICK m \in T : \A i \in T : m <= i
    <3>1. T \in SUBSET Nat
      OBVIOUS
    <3> HIDE DEF T
    <3> QED
      BY <3>1, Cat!LeastElement
  <2>2. m \in 1..n /\ m # d /\ q[m] = p[m]
    OBVIOUS
  <2>3. m # 1
    BY <1>1, <1>2, <2>2 DEF Joins
  <2>4. m - 1 \in 1..(d - 1) /\ m \in 2..n
    BY <2>3
  <2>5. m - 1 \notin T
    <3>1. ASSUME m - 1 \in T PROVE FALSE
      <4>1. m <= m - 1
        BY <2>1, <3>1
      <4> QED
        BY <2>4, <4>1
    <3> QED
      BY <3>1
  <2> QED
    BY <1>1, <1>2, <2>2, <2>4, <2>5 DEF Joins
<1> DEFINE a == IF d = 1 THEN <<>> ELSE c[d - 1]
<1>4. a \in Seq(E)
  BY <1>1 DEF Joins
<1>5. c[d] = a \o p[d] /\ e[d] = a \o q[d]
  <2>1. CASE d = 1
    <3>1. p[d] \in Seq(E) /\ q[d] \in Seq(E) /\ a = <<>> /\ c[d] = p[d] /\ e[d] = q[d]
      BY <1>1, <1>2, <2>1 DEF Joins
    <3> QED
      BY <3>1, ConcatEmptySeq
  <2>2. CASE d # 1
    <3>1. d \in 2..n /\ d - 1 \in 1..(d - 1)
      BY <2>2
    <3>2. a = c[d - 1] /\ a = e[d - 1]
      BY <1>3, <2>2, <3>1
    <3> HIDE DEF a
    <3> QED
      BY <1>1, <1>2, <3>1, <3>2 DEF Joins
  <2> QED
    BY <2>1, <2>2
<1> HIDE DEF a
<1> DEFINE x == a \o p[d]
           y == a \o q[d]
           noneAfter == \A i \in (d + 1)..n : p[i] = <<>>
           Ends(m, b) == c[m] = x \o b /\ e[m] = y \o b /\ (noneAfter => b = <<>>)
<1>6. /\ x \in Seq(E) /\ y \in Seq(E) /\ <<>> \in Seq(E)
      /\ c[d] = x /\ e[d] = y
      /\ noneAfter => \A i \in (d + 1)..n : p[i] = <<>>
  BY <1>4, <1>5, ConcatProperties, EmptySeq
<1> HIDE DEF x, y, noneAfter
<1>7. \E b \in Seq(E) : Ends(d, b)
  <2>1. x \o <<>> = x /\ y \o <<>> = y
    BY <1>6, ConcatEmptySeq
  <2>2. Ends(d, <<>>)
    BY <1>6, <2>1
  <2> QED
    BY <1>6, <2>2
<1>8. ASSUME NEW m \in (d + 1)..n, NEW b \in Seq(E), Ends(m - 1, b)
      PROVE  \E z \in Seq(E) : Ends(m, z)
  <2>1. m \in 2..n /\ m \in 1..n /\ m # d
    OBVIOUS
  <2> DEFINE z == p[m]
  <2>2. z \in Seq(E) /\ q[m] = z
    BY <2>1
  <2>4. c[m] = (x \o b) \o z /\ e[m] = (y \o b) \o z
    BY <1>1, <1>2, <1>8, <2>1, <2>2 DEF Joins
  <2>6. noneAfter => b \o z = <<>>
    <3>1. <<>> \o <<>> = <<>>
      BY <1>6, ConcatEmptySeq
    <3> QED
      BY <1>6, <1>8, <3>1
  <2> HIDE DEF z
  <2>3. b \o z \in Seq(E)
    BY <2>2, ConcatProperties
  <2>5. /\ (x \o b) \o z = x \o (b \o z)
        /\ (y \o b) \o z = y \o (b \o z)
    <3>1. (x \o b) \o z = x \o (b \o z)
      BY <1>6, <2>2, SMTT(60)
    <3>2. (y \o b) \o z = y \o (b \o z)
      BY <1>6, <2>2, SMTT(60)
    <3> QED
      BY <3>1, <3>2
  <2>7. Ends(m, b \o z)
    BY <2>4, <2>5, <2>6
  <2> QED
    BY <2>3, <2>7
<1> HIDE DEF Ends
<1> DEFINE T == {m \in d..n : ~ \E b \in Seq(E) : Ends(m, b)}
<1>9. T = {}
  <2> SUFFICES ASSUME T # {} PROVE FALSE
    OBVIOUS
  <2>1. PICK m \in T : \A i \in T : m <= i
    <3>1. T \in SUBSET Nat
      OBVIOUS
    <3> HIDE DEF T
    <3> QED
      BY <3>1, Cat!LeastElement
  <2>2. m # d
    BY <1>7
  <2>3. m \in (d + 1)..n /\ m - 1 \in d..n /\ m - 1 \notin T
    BY <2>1, <2>2
  <2>4. PICK b \in Seq(E) : Ends(m - 1, b)
    BY <2>3
  <2> QED
    BY <1>8, <2>3, <2>4
<1>10. PICK b \in Seq(E) : Ends(n, b)
  <2>1. n \in d..n
    OBVIOUS
  <2> QED
    BY <1>9, <2>1
<1>11. FlattenSeq(p) = x \o b /\ FlattenSeq(q) = y \o b /\ (noneAfter => b = <<>>)
  BY <1>1, <1>2, <1>10 DEF Ends
<1>12. Around(a, b, p, q, d, n)
  BY <1>11 DEF x, y, noneAfter, Around
<1> QED
  BY <1>4, <1>10, <1>12

(***************************************************************************)
(* The invariant of the files, step by step                                *)
(***************************************************************************)
LEMMA LogInitial == Init => LogInv
<1> SUFFICES ASSUME Init PROVE LogInv
  OBVIOUS
<1>1. Len(content) = 0
  BY DEF Init
<1> QED
  BY <1>1 DEF Init, LogInv, Names, Kept, Due, NoLine, InLoop, Rotating

LEMMA Contents ==
    ASSUME IInv, LogInv
    PROVE  /\ content \in Seq(Seq(Lines)) /\ Len(content) \in Nat
           /\ \A f \in 1..Len(content) : \A n \in 1..Len(content[f]) :
                 content[f][n] \in Lines /\ line[content[f][n]].state = "written"
           /\ day \in Nat /\ \A l \in Lines : line[l].day \in Nat /\ line[l].day <= day
           /\ \A d \in Days : dated[d] \in 0..Len(content)
           /\ \A d \in Days : dated[d] # 0 =>
                 \A n \in 1..Len(content[dated[d]]) : line[content[dated[d]][n]].day <= d + 1
BY ElementOfSeq, LenProperties DEF IInv, TypeOK, LogInv, Kept

LEMMA OpeningKeepsLog ==
    ASSUME IInv, LogInv, OneWriter, NEW w \in Writers, Opens(w) \/ Reopens(w)
    PROVE  LogInv'
<1>1. /\ Opened(w) /\ UNCHANGED <<day, dated, line>>
      /\ \A v \in Writers : v = w
      /\ Len(content) \in Nat /\ content \in Seq(Seq(Lines)) /\ current \in 0..Len(content)
      /\ dated \in [Days -> 0..Len(content)] /\ file \in [Writers -> 0..Len(content)]
  BY LenProperties DEF Opens, Reopens, OneWriter, IInv, TypeOK
<1>2. /\ file'[w] = current' /\ current' # 0
      /\ \A d \in Days : dated[d] # 0 => dated[d] # current'
      /\ \A f \in 1..Len(content) : f \in 1..Len(content') /\ content'[f] = content[f]
      /\ \A f \in 1..Len(content') : f \in 1..Len(content) \/ content'[f] = <<>>
  <2>1. CASE current = 0
    <3>1. content' = Append(content, <<>>) /\ current' = Len(content') /\ file'[w] = current'
      BY <1>1, <2>1 DEF Opened
    <3>2. <<>> \in Seq(Lines)
      BY EmptySeq
    <3>3. /\ Len(content') = Len(content) + 1
          /\ \A f \in 1..Len(content) : content'[f] = content[f]
          /\ content'[Len(content) + 1] = <<>>
      BY <1>1, <3>1, <3>2, AppendProperties
    <3> QED
      BY <1>1, <3>1, <3>3
  <2>2. CASE current # 0
    BY <1>1, <2>2 DEF Opened, LogInv, Names
  <2> QED
    BY <2>1, <2>2
<1>3. Names'
  BY <1>1, <1>2 DEF LogInv, Names
<1>4. Kept'
  <2>1. /\ \A f \in 1..Len(content) : \A n \in 1..Len(content[f]) :
              line[content[f][n]].state = "written"
        /\ \A l \in Lines : line[l].day <= day
        /\ \A d \in Days : dated[d] # 0 =>
              \A n \in 1..Len(content[dated[d]]) : line[content[dated[d]][n]].day <= d + 1
    BY DEF LogInv, Kept
  <2>2. \A f \in 1..Len(content') : \A n \in 1..Len(content'[f]) :
              line[content'[f][n]].state = "written"
    <3> SUFFICES ASSUME NEW f \in 1..Len(content'), NEW n \in 1..Len(content'[f])
                 PROVE  line[content'[f][n]].state = "written"
      OBVIOUS
    <3>1. content'[f] # <<>>
      OBVIOUS
    <3> QED
      BY <1>2, <2>1, <3>1
  <2>3. \A d \in Days : dated[d] # 0 => content'[dated[d]] = content[dated[d]]
    BY <1>1, <1>2
  <2> QED
    BY <1>1, <2>1, <2>2, <2>3 DEF Kept
<1>5. Due(w)'
  <2>1. Due(w) /\ day >= 1 /\ day \in Nat
    BY DEF LogInv, Names, IInv, TypeOK
  <2>2. /\ loop'[w] \in {"starting", "waiting"}
        /\ last'[w] = day
    <3>1. CASE Opens(w)
      BY <3>1 DEF Opens, LoopGoes, IInv, TypeOK
    <3>2. CASE Reopens(w)
      BY <2>1, <3>2 DEF Reopens, LoopGoes, IInv, TypeOK, Due, Rotating
    <3> QED
      BY <3>1, <3>2
  <2> QED
    BY <1>1, <1>2, <2>1, <2>2 DEF Due, Rotating, InLoop
<1> QED
  BY <1>1, <1>3, <1>4, <1>5 DEF LogInv

LEMMA EndingKeepsLog ==
    ASSUME IInv, LogInv, OneWriter, NEW w \in Writers, NEW to \in {"none", "exited"}, Gone(w),
           loop' = [loop EXCEPT ![w] = to],
           UNCHANGED <<day, content, current, dated, last, closing, opens>>
    PROVE  LogInv'
<1>1. /\ file'[w] = 0 /\ loop'[w] \in {"none", "exited"}
      /\ \A v \in Writers : v = w
  BY DEF Gone, OneWriter, IInv, TypeOK
<1>2. \A l \in Lines : \/ line'[l] = line[l]
                       \/ line[l].state # "written" /\ line'[l].day = 0
  BY DEF Gone, WritingBy, NoLine
<1>3. Names'
  BY DEF LogInv, Names
<1>4. Kept'
  <2>1. \A f \in 1..Len(content) : \A n \in 1..Len(content[f]) :
          /\ content[f][n] \in Lines
          /\ line[content[f][n]].state = "written"
    BY ElementOfSeq DEF IInv, TypeOK, LogInv, Kept
  <2>2. \A f \in 1..Len(content) : \A n \in 1..Len(content[f]) :
          line'[content[f][n]] = line[content[f][n]]
    BY <1>2, <2>1
  <2>3. \A d \in Days : dated[d] # 0 => dated[d] \in 1..Len(content)
    BY LenProperties DEF IInv, TypeOK
  <2>4. \A l \in Lines : line'[l].day <= day
    BY <1>2 DEF LogInv, Kept, IInv, TypeOK
  <2> QED
    BY <2>1, <2>2, <2>3, <2>4 DEF LogInv, Kept
<1>5. Due(w)'
  BY <1>1 DEF Due, InLoop, Rotating
<1> QED
  BY <1>1, <1>3, <1>4, <1>5 DEF LogInv

LEMMA DatesExact ==
    ASSUME ExactDays
    PROVE  \A i : DayBefore(i) = day - i
BY DEF ExactDays, DayBefore

\* A rename finds the file, and no file of yesterday.
LEMMA RenamesFinds ==
    ASSUME IInv, LogInv, NEW w \in Writers, loop[w] = "rename"
    PROVE  /\ current # 0 /\ file[w] = current
           /\ day > 1 /\ day - 1 \in Days
           /\ \A d \in Days : dated[d] # 0 => d < day - 1
<1>1. Due(w) /\ file[w] # 0
  BY DEF LogInv, IInv, TypeOK, InLoop
<1>2. /\ current # 0 /\ file[w] = current /\ day > 1
      /\ \A d \in Days : dated[d] # 0 => d < day - 1
  BY <1>1 DEF Due, InLoop, Rotating
<1>3. day \in Nat /\ MaxDay \in Nat /\ (day \in 1..MaxDay \/ day = 1)
  BY CountsAssumption DEF LogInv, Names, IInv, TypeOK
<1>4. day - 1 \in Days
  BY <1>2, <1>3 DEF Days
<1> QED
  BY <1>2, <1>4

LEMMA RenamingKeepsLog ==
    ASSUME IInv, LogInv, OneWriter, ExactDays, NEW w \in Writers, Renames(w)
    PROVE  LogInv'
<1>1. /\ current # 0 /\ file[w] = current
      /\ day > 1 /\ day - 1 \in Days
      /\ \A d \in Days : dated[d] # 0 => d < day - 1
  BY RenamesFinds DEF Renames, LoopGoes
<1>2. /\ dated' = [d \in Days |-> IF d = day - 1 THEN current ELSE dated[d]]
      /\ current' = 0 /\ loop'[w] = "remove"
      /\ UNCHANGED <<day, content, last, closing, opens, file, line>>
      /\ \A v \in Writers : v = w
  BY <1>1, DatesExact DEF Renames, LoopGoes, OneWriter, IInv, TypeOK
<1>3. Names'
  BY <1>1, <1>2 DEF LogInv, Names
<1>4. Kept'
  <2>1. current \in 1..Len(content) /\ day = (day - 1) + 1
    BY <1>1, LenProperties DEF IInv, TypeOK
  <2>2. \A n \in 1..Len(content[current]) : line[content[current][n]].day <= (day - 1) + 1
    BY <2>1, Contents
  <2>3. \A d \in Days : dated'[d] # 0 =>
           \A n \in 1..Len(content[dated'[d]]) : line[content[dated'[d]][n]].day <= d + 1
    <3> SUFFICES ASSUME NEW d \in Days, dated'[d] # 0
                 PROVE  \A n \in 1..Len(content[dated'[d]]) :
                            line[content[dated'[d]][n]].day <= d + 1
      OBVIOUS
    <3>1. CASE d = day - 1
      BY <1>2, <2>2, <3>1
    <3>2. CASE d # day - 1
      BY <1>2, <3>2, Contents
    <3> QED
      BY <3>1, <3>2
  <2> QED
    BY <1>2, <2>3, Contents DEF Kept
<1>5. Due(w)'
  BY <1>1, <1>2 DEF LogInv, Names, Due, InLoop, Rotating, Renames, LoopGoes
<1> QED
  BY <1>2, <1>3, <1>4, <1>5 DEF LogInv

LEMMA RemovingKeepsLog ==
    ASSUME IInv, LogInv, OneWriter, ExactDays, NEW w \in Writers, Removes(w)
    PROVE  LogInv'
<1>1. /\ dated' = [d \in Days |-> IF d = day - (MaxRotateCount + 1) THEN 0 ELSE dated[d]]
      /\ loop[w] = "remove" /\ loop'[w] = "reopen"
      /\ UNCHANGED <<day, content, current, last, closing, opens, file, line>>
      /\ \A v \in Writers : v = w
  BY DatesExact DEF Removes, LoopGoes, OneWriter, IInv, TypeOK
<1>2. Names' /\ Kept'
  BY <1>1 DEF LogInv, Names, Kept
<1>3. file[w] # 0
  BY <1>1 DEF IInv, TypeOK, InLoop
<1>4. Due(w)'
  BY <1>1, <1>3 DEF LogInv, Due, InLoop, Rotating
<1> QED
  BY <1>1, <1>2, <1>4 DEF LogInv

\* The loop and Close, but for the rotation.
LEMMA LoopKeepsLog ==
    ASSUME IInv, LogInv, OneWriter, NEW w \in Writers,
           LoopStarts(w) \/ Notices(w) \/ CloseCalled(w) \/ LoopEnds(w) \/ CloseEnds(w)
    PROVE  LogInv'
<1>1. UNCHANGED <<day, content, current, dated, line>> /\ \A v \in Writers : v = w
  BY DEF LoopStarts, Notices, CloseCalled, LoopEnds, CloseEnds, OneWriter
<1>2. Names' /\ Kept'
  BY <1>1 DEF LogInv, Names, Kept
<1>3. Due(w) /\ day \in Nat /\ day >= 1
  BY DEF LogInv, IInv, TypeOK, Names
<1>4. Due(w)'
  <2>1. CASE LoopStarts(w)
    BY <1>1, <1>3, <2>1 DEF LoopStarts, LoopGoes, Due, InLoop, Rotating, IInv, TypeOK
  <2>2. CASE Notices(w)
    <3>1. file[w] = current /\ current # 0 /\ loop'[w] = "rename" /\ last'[w] = day /\ file' = file
      BY <1>3, <2>2 DEF Notices, LoopGoes, Due, InLoop, IInv, TypeOK
    <3>2. day > 1 /\ \A d \in Days : dated[d] # 0 => d < day - 1
      BY <1>3, <2>2 DEF Notices, LoopGoes, Due, InLoop, IInv, TypeOK
    <3> QED
      BY <1>1, <1>3, <3>1, <3>2 DEF Due, InLoop, Rotating
  <2>3. CASE CloseCalled(w)
    BY <1>1, <1>3, <2>3 DEF CloseCalled, Due
  <2>4. CASE LoopEnds(w)
    BY <1>1, <1>3, <2>4 DEF LoopEnds, LoopGoes, Due, InLoop, Rotating, IInv, TypeOK
  <2>5. CASE CloseEnds(w)
    BY <1>1, <1>3, <2>5 DEF CloseEnds, Due, InLoop, Rotating, IInv, TypeOK
  <2> QED
    BY <2>1, <2>2, <2>3, <2>4, <2>5
<1> QED
  BY <1>1, <1>2, <1>4 DEF LogInv

LEMMA BeginningKeepsLog ==
    ASSUME IInv, LogInv, NEW w \in Writers, NEW l \in Lines, WriteBegins(w, l)
    PROVE  LogInv'
<1>1. /\ UNCHANGED <<day, content, current, dated, file, last, loop, closing, opens>>
      /\ line[l].state = "new" /\ line'[l].day = 0
      /\ \A k \in Lines \ {l} : line'[k] = line[k]
  BY DEF WriteBegins, IInv, TypeOK
<1>2. \A f \in 1..Len(content) : \A n \in 1..Len(content[f]) :
          line'[content[f][n]] = line[content[f][n]]
  BY <1>1, Contents
<1>3. \A d \in Days : dated[d] # 0 => dated[d] \in 1..Len(content)
  BY Contents
<1>4. \A k \in Lines : line'[k].day <= day
  <2> SUFFICES ASSUME NEW k \in Lines PROVE line'[k].day <= day
    OBVIOUS
  <2>1. CASE k = l
    BY <1>1, <2>1, Contents
  <2>2. CASE k # l
    BY <1>1, <2>2, Contents
  <2> QED
    BY <2>1, <2>2
<1>5. Kept'
  BY <1>1, <1>2, <1>3, <1>4 DEF LogInv, Kept
<1> QED
  BY <1>1, <1>5 DEF LogInv, Names, Due

\* Where a Write adds its line: to the file at the location, or to the file of
\* yesterday that a rotation has just renamed, or removed.
LEMMA Adds ==
    ASSUME IInv, LogInv, NEW l \in Lines, WriteEnds(l), content' # content
    PROVE  \E f \in 1..Len(content) :
              /\ content[f] \in Seq(Lines)
              /\ content' = [content EXCEPT ![f] = Append(content[f], l)]
              /\ line' = [line EXCEPT ![l] = [line[l] EXCEPT !.state = "written", !.day = day]]
              /\ \/ f = current
                 \/ /\ current = 0
                    /\ \A d \in Days : dated[d] = f => d = day - 1
<1> DEFINE f == line[l].file
           w == line[l].by
<1>1. /\ file[w] = f /\ f # 0
      /\ line' = [line EXCEPT ![l] = [line[l] EXCEPT !.state = "written", !.day = day]]
      /\ content' = [content EXCEPT ![f] = Append(content[f], l)]
  BY DEF WriteEnds, IInv, TypeOK
<1>2. f \in 1..Len(content)
  BY <1>1, LenProperties DEF IInv, TypeOK
<1>3. w \in Writers /\ loop[w] \notin {"none", "exited"}
  BY DEF WriteEnds, IInv, WriteHasFile
<1>4. Due(w)
  BY <1>3 DEF LogInv
<1>5. f = current \/ (current = 0 /\ \A d \in Days : dated[d] = f => d = day - 1)
  BY <1>1, <1>4 DEF Due
<1>6. content[f] \in Seq(Lines)
  BY <1>2, ElementOfSeq DEF IInv, TypeOK
<1> QED
  BY <1>1, <1>2, <1>5, <1>6

LEMMA AddingKeepsLog ==
    ASSUME IInv, LogInv, NEW l \in Lines, WriteEnds(l)
    PROVE  LogInv'
<1>1. /\ UNCHANGED <<day, current, dated, file, last, loop, closing, opens>>
      /\ line[l].state = "writing" /\ line'[l].day \in {0, day}
      /\ \A k \in Lines \ {l} : line'[k] = line[k]
  <2>1. line \in [Lines -> [state : {"new", "writing", "written", "failed", "gone"},
                           by : Writers \cup {None}, file : 0..Len(content), day : Nat]]
    BY DEF IInv, TypeOK
  <2>2. line'[l].day \in {0, day} /\ \A k \in Lines \ {l} : line'[k] = line[k]
    BY <2>1 DEF WriteEnds, NoLine
  <2> QED
    BY <2>2 DEF WriteEnds
<1>2. \A f \in 1..Len(content) : \A n \in 1..Len(content[f]) :
          line'[content[f][n]] = line[content[f][n]]
  BY <1>1, Contents
<1>3. \A d \in Days : dated[d] # 0 => dated[d] \in 1..Len(content)
  BY Contents
<1>4. \A k \in Lines : line'[k].day <= day
  <2> SUFFICES ASSUME NEW k \in Lines PROVE line'[k].day <= day
    OBVIOUS
  <2>1. CASE k = l
    BY <1>1, <2>1, Contents
  <2>2. CASE k # l
    BY <1>1, <2>2, Contents
  <2> QED
    BY <2>1, <2>2
<1>5. Kept'
  <2>1. CASE content' = content
    <3>1. \A d \in Days : dated[d] # 0 =>
             \A n \in 1..Len(content[dated[d]]) : line'[content[dated[d]][n]].day <= d + 1
      BY <1>2, <1>3, Contents
    <3>2. \A f \in 1..Len(content) : \A n \in 1..Len(content[f]) :
             line'[content[f][n]].state = "written"
      BY <1>2, Contents
    <3> QED
      BY <1>1, <1>4, <2>1, <3>1, <3>2 DEF Kept
  <2>2. CASE content' # content
    <3>1. PICK f \in 1..Len(content) :
              /\ content[f] \in Seq(Lines)
              /\ content' = [content EXCEPT ![f] = Append(content[f], l)]
              /\ line' = [line EXCEPT ![l] = [line[l] EXCEPT !.state = "written", !.day = day]]
              /\ \/ f = current
                 \/ /\ current = 0
                    /\ \A d \in Days : dated[d] = f => d = day - 1
      BY <2>2, Adds
    <3>2. /\ Len(content') = Len(content)
          /\ content'[f] = Append(content[f], l)
          /\ \A g \in 1..Len(content) : g # f => content'[g] = content[g]
          /\ line'[l].state = "written" /\ line'[l].day = day
      BY <3>1, ExceptSeq DEF IInv, TypeOK
    <3>3. /\ Len(content'[f]) = Len(content[f]) + 1
          /\ \A n \in 1..Len(content[f]) : content'[f][n] = content[f][n]
          /\ content'[f][Len(content[f]) + 1] = l
      BY <3>1, <3>2, AppendProperties
    <3>4. \A g \in 1..Len(content) : \A n \in 1..Len(content'[g]) :
             \/ n \in 1..Len(content[g]) /\ content'[g][n] = content[g][n]
             \/ g = f /\ content'[g][n] = l
      BY <3>1, <3>2, <3>3, LenProperties
    <3>5. \A d \in Days : dated[d] = f => day <= d + 1
      BY <1>3, <3>1 DEF LogInv, Names, IInv, TypeOK
    <3>6. \A g \in 1..Len(content') : \A n \in 1..Len(content'[g]) :
              line'[content'[g][n]].state = "written"
      BY <1>2, <3>2, <3>4 DEF LogInv, Kept
    <3>7. \A d \in Days : dated[d] # 0 =>
             \A n \in 1..Len(content'[dated[d]]) : line'[content'[dated[d]][n]].day <= d + 1
      <4> SUFFICES ASSUME NEW d \in Days, dated[d] # 0, NEW n \in 1..Len(content'[dated[d]])
                   PROVE  line'[content'[dated[d]][n]].day <= d + 1
        OBVIOUS
      <4>1. dated[d] \in 1..Len(content)
        BY <1>3
      <4>2. CASE n \in 1..Len(content[dated[d]]) /\ content'[dated[d]][n] = content[dated[d]][n]
        BY <1>2, <4>1, <4>2, Contents
      <4>3. CASE dated[d] = f /\ content'[dated[d]][n] = l
        BY <3>2, <3>5, <4>3
      <4> QED
        BY <3>4, <4>1, <4>2, <4>3
    <3> QED
      BY <1>1, <1>4, <3>6, <3>7 DEF Kept
  <2> QED
    BY <2>1, <2>2
<1> QED
  BY <1>1, <1>5 DEF LogInv, Names, Due

LEMMA MidnightKeepsLog ==
    ASSUME IInv, LogInv, Midnight
    PROVE  LogInv'
<1>1. UNCHANGED <<content, current, dated, file, last, loop, closing, opens, line>>
      /\ day' = day + 1 /\ day < MaxDay /\ day \in Nat /\ day >= 1 /\ MaxDay \in Nat
  BY CountsAssumption DEF Midnight, LogInv, Names, IInv, TypeOK
<1>2. Names' /\ Kept'
  BY <1>1 DEF LogInv, Names, Kept, IInv, TypeOK, Days
<1>3. ASSUME NEW w \in Writers PROVE Due(w)'
  <2>1. Due(w) /\ (file[w] # 0 => last[w] = day /\ loop[w] \in {"starting", "waiting"})
    BY DEF LogInv, Midnight
  <2>2. loop[w] \in InLoop => file[w] # 0
    BY DEF IInv, TypeOK
  <2>3. \A d \in Days : dated[d] # 0 => d < day
    BY DEF LogInv, Names
  <2> QED
    BY <1>1, <2>1, <2>2, <2>3 DEF Due, InLoop, Rotating, Days
<1> QED
  BY <1>2, <1>3 DEF LogInv

LEMMA LogInductive ==
    ASSUME OneWriter, ExactDays, IInv, LogInv, [Next]_vars
    PROVE  LogInv'
<1>1. ASSUME Stopped \/ UNCHANGED vars PROVE LogInv'
  BY <1>1 DEF Stopped, vars, LogInv, Names, Kept, Due
<1>2. ASSUME NEW w \in Writers, Dies(w) PROVE LogInv'
  <2>1. loop' = [loop EXCEPT ![w] = "none"] /\ Gone(w)
        /\ UNCHANGED <<day, content, current, dated, last, closing, opens>>
    BY <1>2 DEF Dies
  <2> QED
    BY <2>1, EndingKeepsLog
<1> QED
  BY <1>1, <1>2, OpeningKeepsLog, RenamingKeepsLog, RemovingKeepsLog, LoopKeepsLog,
     BeginningKeepsLog, AddingKeepsLog, MidnightKeepsLog
  DEF Next, Loop, Rotation

(***************************************************************************)
(* The files are the log                                                   *)
(***************************************************************************)
Entry == [line : Lines, day : Nat]

Files == [d \in Days |-> LinesOf(dated[d])]

LEMMA FileIsEntries ==
    ASSUME NEW E, NEW c \in Seq(Seq(Lines)), NEW f \in 1..Len(c), NEW g,
           \A n \in 1..Len(c[f]) : [line |-> c[f][n], day |-> g[c[f][n]].day] \in E
    PROVE  /\ [n \in 1..Len(c[f]) |-> [line |-> c[f][n], day |-> g[c[f][n]].day]] \in Seq(E)
           /\ Len(c[f]) \in Nat
           /\ Len([n \in 1..Len(c[f]) |-> [line |-> c[f][n], day |-> g[c[f][n]].day]]) = Len(c[f])
<1>1. c[f] \in Seq(Lines)
  BY ElementOfSeq
<1> QED
  BY <1>1, LenProperties

\* Every file consists of entries, all of them of lines that were written.
LEMMA FileEntries ==
    ASSUME IInv, LogInv, NEW E, \A e \in Entry : line[e.line].state = "written" => e \in E,
           NEW f \in 0..Len(content)
    PROVE  LinesOf(f) \in Seq(E)
<1>1. CASE f = 0
  BY <1>1, EmptySeq DEF LinesOf
<1>2. CASE f # 0
  <2>1. f \in 1..Len(content) /\ content \in Seq(Seq(Lines))
    BY <1>2, Contents
  <2>2. \A n \in 1..Len(content[f]) :
           [line |-> content[f][n], day |-> line[content[f][n]].day] \in E
    <3> SUFFICES ASSUME NEW n \in 1..Len(content[f])
                 PROVE  [line |-> content[f][n], day |-> line[content[f][n]].day] \in E
      OBVIOUS
    <3>1. content[f][n] \in Lines /\ line[content[f][n]].state = "written"
          /\ line[content[f][n]].day \in Nat
      BY <2>1, Contents
    <3> QED
      BY <3>1 DEF Entry
  <2> QED
    BY <1>2, <2>1, <2>2, FileIsEntries DEF LinesOf
<1> QED
  BY <1>1, <1>2

LEMMA FilesType ==
    ASSUME IInv, LogInv, NEW E, \A e \in Entry : line[e.line].state = "written" => e \in E
    PROVE  /\ Files \in [1..MaxDay -> Seq(E)]
           /\ LinesOf(current) \in Seq(E)
           /\ FlattenSeq(Files) \in Seq(E)
<1>1. Files \in [1..MaxDay -> Seq(E)] /\ LinesOf(current) \in Seq(E)
  <2>1. \A d \in Days : dated[d] \in 0..Len(content)
    BY Contents
  <2>2. current \in 0..Len(content)
    BY DEF IInv, TypeOK
  <2> QED
    BY <2>1, <2>2, FileEntries DEF Files, Days
<1>2. FlattenSeq(Files) \in Seq(E)
  <2>1. CASE MaxDay = 0
    <3>1. Files \in Seq(E) /\ Len(Files) = 0
      BY <1>1, <2>1
    <3> QED
      BY <3>1 DEF FlattenSeq
  <2>2. CASE MaxDay # 0
    <3>1. MaxDay \in Nat /\ MaxDay > 0
      BY <2>2, CountsAssumption
    <3>2. PICK c : Joins(c, Files, MaxDay, E) /\ FlattenSeq(Files) = c[MaxDay]
      BY <1>1, <3>1, Flattened
    <3> QED
      BY <3>1, <3>2 DEF Joins
  <2> QED
    BY <2>1, <2>2
<1> QED
  BY <1>1, <1>2

\* Steps that leave the lines in the files alone.
LEMMA SameLog ==
    ASSUME IInv, LogInv, dated' = dated,
           \A f \in 1..Len(content) :
               (f = current \/ \E d \in Days : dated[d] = f) => content'[f] = content[f],
           \A k \in Lines : line[k].state = "written" => line'[k].day = line[k].day,
           \/ current' = current
           \/ current = 0 /\ current' # 0 /\ content'[current'] = <<>>
    PROVE  Log' = Log
<1>1. \A f \in 1..Len(content) : (f = current \/ \E d \in Days : dated[d] = f) =>
         [n \in 1..Len(content'[f]) |-> [line |-> content'[f][n], day |-> line'[content'[f][n]].day]]
         = [n \in 1..Len(content[f]) |-> [line |-> content[f][n], day |-> line[content[f][n]].day]]
  <2> SUFFICES ASSUME NEW f \in 1..Len(content), f = current \/ \E d \in Days : dated[d] = f
      PROVE [n \in 1..Len(content'[f]) |-> [line |-> content'[f][n], day |-> line'[content'[f][n]].day]]
         = [n \in 1..Len(content[f]) |-> [line |-> content[f][n], day |-> line[content[f][n]].day]]
    OBVIOUS
  <2>1. content'[f] = content[f]
    OBVIOUS
  <2>2. \A n \in 1..Len(content[f]) : line'[content[f][n]].day = line[content[f][n]].day
    BY Contents
  <2> QED
    BY <2>1, <2>2
<1>2. \A d \in Days : LinesOf(dated[d])' = LinesOf(dated[d])
  <2> SUFFICES ASSUME NEW d \in Days PROVE LinesOf(dated[d])' = LinesOf(dated[d])
    OBVIOUS
  <2>1. CASE dated[d] = 0
    BY <2>1 DEF LinesOf
  <2>2. CASE dated[d] # 0
    <3>1. dated[d] \in 1..Len(content)
      BY <2>2, Contents
    <3> QED
      BY <1>1, <2>2, <3>1 DEF LinesOf
  <2> QED
    BY <2>1, <2>2
<1>3. LinesOf(current)' = LinesOf(current)
  <2>1. CASE current' # current
    BY <2>1 DEF LinesOf
  <2>2. CASE current' = current /\ current = 0
    BY <2>2 DEF LinesOf
  <2>3. CASE current' = current /\ current # 0
    <3>1. current \in 1..Len(content)
      BY <2>3, LenProperties DEF IInv, TypeOK
    <3> QED
      BY <1>1, <2>3, <3>1 DEF LinesOf
  <2> QED
    BY <2>1, <2>2, <2>3
<1> QED
  BY <1>2, <1>3 DEF Log

LEMMA OpeningStutters ==
    ASSUME IInv, LogInv, NEW w \in Writers, Opens(w) \/ Reopens(w)
    PROVE  Log' = Log
<1>1. Opened(w) /\ UNCHANGED <<dated, line>>
  BY DEF Opens, Reopens
<1>2. CASE current = 0
  <2>1. content' = Append(content, <<>>) /\ current' = Len(content')
    BY <1>1, <1>2 DEF Opened
  <2>2. <<>> \in Seq(Lines) /\ content \in Seq(Seq(Lines)) /\ Len(content) \in Nat
    BY EmptySeq, Contents
  <2>3. /\ Len(content') = Len(content) + 1
        /\ \A f \in 1..Len(content) : content'[f] = content[f]
        /\ content'[Len(content) + 1] = <<>>
    BY <2>1, <2>2, AppendProperties
  <2> QED
    BY <1>1, <1>2, <2>1, <2>2, <2>3, SameLog
<1>3. CASE current # 0
  BY <1>1, <1>3, SameLog DEF Opened
<1> QED
  BY <1>2, <1>3

LEMMA EndingStutters ==
    ASSUME IInv, LogInv, NEW w \in Writers, Gone(w), UNCHANGED <<content, current, dated>>
    PROVE  Log' = Log
<1>1. \A k \in Lines : line[k].state = "written" => line'[k].day = line[k].day
  BY DEF Gone, WritingBy
<1> QED
  BY <1>1, SameLog

LEMMA BeginningStutters ==
    ASSUME IInv, LogInv, NEW w \in Writers, NEW l \in Lines, WriteBegins(w, l)
    PROVE  Log' = Log
<1>1. \A k \in Lines : line[k].state = "written" => line'[k].day = line[k].day
  BY DEF WriteBegins, IInv, TypeOK
<1> QED
  BY <1>1, SameLog DEF WriteBegins

\* The rename only moves the end of the log into the file of yesterday.
LEMMA RenamingStutters ==
    ASSUME IInv, LogInv, ExactDays, NEW w \in Writers, Renames(w)
    PROVE  Log' = Log
<1>1. /\ current # 0
      /\ day > 1 /\ day - 1 \in Days
      /\ \A d \in Days : dated[d] # 0 => d < day - 1
  BY RenamesFinds DEF Renames, LoopGoes
<1>2. /\ dated' = [d \in Days |-> IF d = day - 1 THEN current ELSE dated[d]]
      /\ current' = 0 /\ UNCHANGED <<content, line>>
  BY <1>1, DatesExact DEF Renames
<1>3. Files \in [1..MaxDay -> Seq(Entry)] /\ LinesOf(current) \in Seq(Entry)
  BY FilesType DEF Entry
<1> DEFINE y == day - 1
           q == [d \in 1..MaxDay |-> IF d = y THEN LinesOf(current) ELSE Files[d]]
<1>4. Files' = q /\ LinesOf(current)' = <<>>
  BY <1>2 DEF Files, LinesOf, Days
<1>5. /\ \A i \in y..MaxDay : Files[i] = <<>>
      /\ y \in 1..MaxDay /\ MaxDay \in Nat
  BY <1>1, CountsAssumption DEF Files, LinesOf, Days, IInv, TypeOK
<1>6. /\ q \in [1..MaxDay -> Seq(Entry)]
      /\ q[y] = LinesOf(current)
      /\ \A i \in 1..MaxDay : i # y => q[i] = Files[i]
  BY <1>3, <1>5
<1> HIDE DEF q, y
<1>7. PICK a, b \in Seq(Entry) : Around(a, b, Files, q, y, MaxDay)
  BY <1>3, <1>5, <1>6, FlattenedAround
<1>8. b = <<>> /\ Files[y] = <<>>
  BY <1>5, <1>7 DEF Around
<1>9. FlattenSeq(Files) = a /\ FlattenSeq(q) = a \o LinesOf(current)
  <2>1. a \o <<>> = a
    BY ConcatEmptySeq
  <2>2. (a \o LinesOf(current)) \o <<>> = a \o LinesOf(current)
    BY <1>3, ConcatProperties, ConcatEmptySeq
  <2> QED
    BY <1>6, <1>7, <1>8, <2>1, <2>2 DEF Around
<1>10. FlattenSeq(q) \o <<>> = FlattenSeq(q)
  BY <1>3, <1>9, ConcatProperties, ConcatEmptySeq
<1> QED
  BY <1>4, <1>9, <1>10 DEF Log, Files

\* Without what lies between i and j, which is x, s is t.
CutOut(s, i, j, x, t) ==
    /\ i \in 0..Len(s) /\ j \in i..Len(s)
    /\ \A k \in (i + 1)..j : k - i \in 1..Len(x) /\ s[k] = x[k - i]
    /\ SubSeq(s, 1, i) \o SubSeq(s, j + 1, Len(s)) = t

LEMMA Cut ==
    ASSUME NEW E, NEW a \in Seq(E), NEW x \in Seq(E), NEW b \in Seq(E)
    PROVE  CutOut((a \o x) \o b, Len(a), Len(a) + Len(x), x, a \o b)
<1> DEFINE s == (a \o x) \o b
           i == Len(a)
           j == Len(a) + Len(x)
<1>1. /\ Len(a) \in Nat /\ Len(x) \in Nat /\ Len(b) \in Nat
      /\ s \in Seq(E) /\ Len(s) = Len(a) + Len(x) + Len(b)
  BY ConcatProperties, LenProperties
<1>2. \A k \in 1..Len(s) : s[k] = IF k <= i THEN a[k] ELSE IF k <= j THEN x[k - i] ELSE b[k - j]
  BY <1>1, ConcatProperties
<1>3. SubSeq(s, 1, i) = a
  BY <1>1, <1>2
<1>4. SubSeq(s, j + 1, Len(s)) = b
  BY <1>1, <1>2
<1>5. i \in 0..Len(s) /\ j \in i..Len(s)
  BY <1>1
<1>6. \A k \in (i + 1)..j : k - i \in 1..Len(x) /\ s[k] = x[k - i]
  <2> SUFFICES ASSUME NEW k \in (i + 1)..j PROVE k - i \in 1..Len(x) /\ s[k] = x[k - i]
    OBVIOUS
  <2>1. k \in 1..Len(s) /\ ~ (k <= i) /\ k <= j /\ k - i \in 1..Len(x)
    BY <1>1
  <2> QED
    BY <1>2, <2>1
<1> HIDE DEF s, i, j
<1>7. CutOut(s, i, j, x, a \o b)
  BY <1>3, <1>4, <1>5, <1>6 DEF CutOut
<1> QED
  BY <1>7 DEF s, i, j

LEMMA RemovingForgets ==
    ASSUME IInv, LogInv, ExactDays, NEW w \in Writers, Removes(w)
    PROVE  LL!Forget \/ (Log' = Log /\ day' = day)
<1> DEFINE y == day - (MaxRotateCount + 1)
<1>1. /\ dated' = [d \in Days |-> IF d = y THEN 0 ELSE dated[d]]
      /\ current = 0 /\ UNCHANGED <<day, content, current, line>>
  BY DatesExact DEF Removes, LoopGoes, LogInv, Due
<1>2. CASE y \notin Days
  <2>1. dated' = dated
    BY <1>1, <1>2 DEF IInv, TypeOK
  <2> QED
    BY <1>1, <2>1, SameLog
<1>3. CASE y \in Days
  <2> DEFINE q == [d \in 1..MaxDay |-> IF d = y THEN <<>> ELSE Files[d]]
  <2>1. Files \in [1..MaxDay -> Seq(Entry)] /\ LinesOf(current) = <<>> /\ LinesOf(current)' = <<>>
    BY <1>1, FilesType DEF Entry, LinesOf
  <2>2. Files' = q
    BY <1>1 DEF Files, LinesOf, Days
  <2>3. /\ q \in [1..MaxDay -> Seq(Entry)] /\ <<>> \in Seq(Entry)
        /\ q[y] = <<>> /\ Files[y] = LinesOf(dated[y])
        /\ \A i \in 1..MaxDay : i # y => q[i] = Files[i]
        /\ y \in 1..MaxDay /\ MaxDay \in Nat
    BY <1>3, <2>1, EmptySeq, CountsAssumption DEF Files, Days
  <2>4. \A n \in 1..Len(Files[y]) : day - Files[y][n].day >= MaxRotateCount
    <3>1. CASE dated[y] = 0
      BY <2>3, <3>1 DEF LinesOf
    <3>2. CASE dated[y] # 0
      <4>1. Files[y] = [n \in 1..Len(content[dated[y]]) |->
                          [line |-> content[dated[y]][n], day |-> line[content[dated[y]][n]].day]]
        BY <2>3, <3>2 DEF LinesOf
      <4>2. dated[y] \in 1..Len(content)
        BY <1>3, <3>2, Contents
      <4>3. Len(Files[y]) = Len(content[dated[y]])
        BY <4>1, <4>2, ElementOfSeq, LenProperties DEF IInv, TypeOK
      <4>4. \A n \in 1..Len(content[dated[y]]) :
               /\ line[content[dated[y]][n]].day <= y + 1
               /\ line[content[dated[y]][n]].day \in Nat
        BY <1>3, <3>2, <4>2, Contents
      <4>5. day \in Nat /\ MaxRotateCount \in Nat
        BY Contents, CountsAssumption
      <4> QED
        BY <4>1, <4>3, <4>4, <4>5
    <3> QED
      BY <3>1, <3>2
  <2> HIDE DEF q, y
  <2>5. PICK a, b \in Seq(Entry) : Around(a, b, Files, q, y, MaxDay)
    BY <2>1, <2>3, FlattenedAround
  <2> DEFINE x == Files[y]
             s == (a \o x) \o b
             i == Len(a)
             j == Len(a) + Len(x)
  <2>6. x \in Seq(Entry) /\ a \o <<>> = a
    BY <2>1, <2>3, ConcatEmptySeq
  <2>7. Log = s /\ Log' = a \o b
    <3>1. s \o <<>> = s /\ (a \o b) \o <<>> = a \o b
      BY <2>6, ConcatProperties, ConcatEmptySeq
    <3> QED
      BY <2>1, <2>2, <2>3, <2>5, <2>6, <3>1 DEF Log, Files, Around
  <2>8. CutOut(s, i, j, x, a \o b)
    BY <2>6, Cut
  <2> HIDE DEF x, s, i, j
  <2>9. \A k \in (i + 1)..j : day - s[k].day >= MaxRotateCount
    BY <2>4, <2>8 DEF x, CutOut
  <2> QED
    BY <1>1, <2>7, <2>8, <2>9 DEF LL!Forget, CutOut
<1> QED
  BY <1>2, <1>3

LEMMA AppendsLast ==
    ASSUME NEW E, NEW x \in Seq(E), NEW y \in Seq(E), NEW e \in E
    PROVE  x \o Append(y, e) = Append(x \o y, e)
OBVIOUS

\* A line that is added comes last: its file is at the location, or it is the
\* last one that has a name, or it has none any more.
LEMMA AddingWrites ==
    ASSUME IInv, LogInv, NEW l \in Lines, WriteEnds(l)
    PROVE  LL!Write(l) \/ (Log' = Log /\ day' = day)
<1>1. /\ UNCHANGED <<day, current, dated>>
      /\ \A k \in Lines : line[k].state = "written" => line'[k].day = line[k].day
      /\ line[l].state = "writing" /\ day \in Nat
      /\ dated \in [Days -> 0..Len(content)] /\ current \in 0..Len(content)
  BY DEF WriteEnds, IInv, TypeOK
<1>2. CASE content' = content
  BY <1>1, <1>2, SameLog
<1>3. CASE content' # content
  <2>1. PICK f \in 1..Len(content) :
            /\ content[f] \in Seq(Lines)
            /\ content' = [content EXCEPT ![f] = Append(content[f], l)]
            /\ line' = [line EXCEPT ![l] = [line[l] EXCEPT !.state = "written", !.day = day]]
            /\ \/ f = current
               \/ /\ current = 0
                  /\ \A d \in Days : dated[d] = f => d = day - 1
    BY <1>3, Adds
  <2> DEFINE new == [line |-> l, day |-> day]
             E == {e \in Entry : e.line # l}
  <2>2. /\ Files \in [1..MaxDay -> Seq(E)] /\ LinesOf(current) \in Seq(E)
        /\ FlattenSeq(Files) \in Seq(E)
    BY <1>1, FilesType
  <2>3. /\ Files \in [1..MaxDay -> Seq(Entry)] /\ LinesOf(current) \in Seq(Entry)
        /\ FlattenSeq(Files) \in Seq(Entry) /\ new \in Entry
    BY <1>1, FilesType DEF Entry
  <2>4. \A e \in Range(Log) : e.line # l
    <3>1. Log \in Seq(E)
      BY <2>2, ConcatProperties DEF Log, Files
    <3>2. Range(Log) \subseteq E
      BY <3>1, RangeOfSeq
    <3> QED
      BY <3>2
  <2>5. /\ content'[f] = Append(content[f], l)
        /\ \A g \in 1..Len(content) : g # f => content'[g] = content[g]
    BY <2>1 DEF IInv, TypeOK
  <2>6. /\ \A g \in 0..Len(content) : g # f => LinesOf(g)' = LinesOf(g)
        /\ LinesOf(f)' = Append(LinesOf(f), new)
    <3>1. \A k \in Lines : line[k].state = "written" => line'[k].day = line[k].day
      BY <1>1
    <3>2. ASSUME NEW g \in 0..Len(content), g # f
          PROVE  LinesOf(g)' = LinesOf(g)
      <4>1. CASE g = 0
        BY <4>1 DEF LinesOf
      <4>2. CASE g # 0
        <5>1. g \in 1..Len(content) /\ content'[g] = content[g]
          BY <2>5, <3>2, <4>2
        <5>2. \A n \in 1..Len(content[g]) : line'[content[g][n]].day = line[content[g][n]].day
          BY <3>1, <5>1, Contents
        <5> QED
          BY <4>2, <5>1, <5>2 DEF LinesOf
      <4> QED
        BY <4>1, <4>2
    <3>3. LinesOf(f)' = Append(LinesOf(f), new)
      <4>1. \A n \in 1..Len(content[f]) : line'[content[f][n]].day = line[content[f][n]].day
        BY <3>1, Contents
      <4>2. line'[l].day = day
        BY <2>1 DEF IInv, TypeOK
      <4>3. /\ Len(content[f]) \in Nat
            /\ Len(content'[f]) = Len(content[f]) + 1
            /\ \A n \in 1..Len(content[f]) : content'[f][n] = content[f][n]
            /\ content'[f][Len(content[f]) + 1] = l
        BY <2>1, <2>5, AppendProperties, LenProperties
      <4>4. LinesOf(f) = [n \in 1..Len(content[f]) |->
                            [line |-> content[f][n], day |-> line[content[f][n]].day]]
        BY DEF LinesOf
      <4>5. LinesOf(f)' = [n \in 1..(Len(content[f]) + 1) |->
                            [line |-> content'[f][n], day |-> line'[content'[f][n]].day]]
        BY <4>3 DEF LinesOf
      <4>6. LinesOf(f)' = [n \in 1..(Len(content[f]) + 1) |->
                            IF n <= Len(content[f]) THEN LinesOf(f)[n] ELSE new]
        BY <4>1, <4>2, <4>3, <4>4, <4>5
      <4>7. Len(LinesOf(f)) = Len(content[f])
        BY <4>3, <4>4
      <4> QED
        BY <4>6, <4>7
    <3> QED
      BY <3>2, <3>3
  <2>7. CASE f = current
    <3>1. \A d \in Days : dated[d] # f
      BY <2>1, <2>7 DEF LogInv, Names
    <3>2. Files' = Files
      BY <1>1, <2>6, <3>1 DEF Files
    <3>3. LinesOf(current)' = Append(LinesOf(current), new)
      BY <1>1, <2>6, <2>7 DEF LinesOf
    <3>4. Log' = Append(Log, new)
      <4>1. FlattenSeq(Files) \o Append(LinesOf(current), new)
            = Append(FlattenSeq(Files) \o LinesOf(current), new)
        BY <2>3, AppendsLast
      <4> QED
        BY <3>2, <3>3, <4>1 DEF Log, Files
    <3> QED
      BY <1>1, <2>4, <3>4 DEF LL!Write, LL!Range, Range
  <2>8. CASE current = 0 /\ \A d \in Days : dated[d] # f
    <3>1. Files' = Files
      BY <1>1, <2>6, <2>8 DEF Files
    <3>2. LinesOf(current)' = LinesOf(current)
      BY <1>1, <2>8 DEF LinesOf
    <3> QED
      BY <1>1, <3>1, <3>2 DEF Log, Files
  <2>9. CASE current = 0 /\ \E d \in Days : dated[d] = f
    <3>1. PICK y \in Days : dated[y] = f /\ y = day - 1
      BY <2>1, <2>9
    <3>2. /\ \A d \in Days : d # y => dated[d] # f
          /\ \A d \in Days : d > y => dated[d] = 0
      BY <1>1, <2>1, <3>1 DEF LogInv, Names, Days
    <3> DEFINE q == Files'
    <3>3. /\ y \in 1..MaxDay /\ MaxDay \in Nat
          /\ Files[y] = LinesOf(f) /\ q[y] = Append(Files[y], new)
          /\ \A i \in 1..MaxDay : i # y => q[i] = Files[i]
          /\ \A i \in (y + 1)..MaxDay : Files[i] = <<>>
      <4>1. y \in 1..MaxDay /\ MaxDay \in Nat
        BY CountsAssumption DEF Days
      <4>2. Files[y] = LinesOf(f) /\ q[y] = Append(Files[y], new)
        BY <1>1, <2>6, <3>1 DEF Files
      <4>3. \A i \in 1..MaxDay : i # y => q[i] = Files[i]
        BY <1>1, <2>6, <3>2 DEF Files, Days
      <4>4. \A i \in (y + 1)..MaxDay : Files[i] = <<>>
        BY <3>2, <4>1 DEF Files, Days, LinesOf
      <4> QED
        BY <4>1, <4>2, <4>3, <4>4
    <3>4. q \in [1..MaxDay -> Seq(Entry)]
      <4>1. q = [i \in 1..MaxDay |-> q[i]]
        BY DEF Files, Days
      <4>2. Append(Files[y], new) \in Seq(Entry)
        BY <2>3, <3>3, AppendProperties
      <4>3. \A i \in 1..MaxDay : q[i] \in Seq(Entry)
        BY <2>3, <3>3, <4>2
      <4> QED
        BY <4>1, <4>3
    <3>5. LinesOf(current) = <<>> /\ LinesOf(current)' = <<>>
      BY <1>1, <2>9 DEF LinesOf
    <3>6. Log = FlattenSeq(Files) \o <<>> /\ Log' = FlattenSeq(q) \o <<>>
      BY <3>5 DEF Log, Files
    <3> HIDE DEF q
    <3>7. PICK a, b \in Seq(Entry) : Around(a, b, Files, q, y, MaxDay)
      BY <2>3, <3>3, <3>4, FlattenedAround
    <3> DEFINE x == Files[y]
    <3>8. x \in Seq(Entry) /\ q[y] = Append(x, new) /\ b = <<>>
      BY <2>3, <3>3, <3>7 DEF Around
    <3> HIDE DEF x
    <3>9. FlattenSeq(Files) = (a \o x) \o <<>> /\ FlattenSeq(q) = (a \o Append(x, new)) \o <<>>
      BY <3>7, <3>8 DEF Around, x
    <3>10. Log = a \o x /\ Log' = a \o Append(x, new)
      <4>1. a \o x \in Seq(Entry) /\ a \o Append(x, new) \in Seq(Entry)
        BY <2>3, <3>8, ConcatProperties, AppendProperties
      <4>2. /\ (a \o x) \o <<>> = a \o x
            /\ (a \o Append(x, new)) \o <<>> = a \o Append(x, new)
        BY <4>1, ConcatEmptySeq
      <4> QED
        BY <3>6, <3>9, <4>2
    <3>11. Log' = Append(Log, new)
      <4>1. a \o Append(x, new) = Append(a \o x, new)
        BY <2>3, <3>8, AppendsLast
      <4> QED
        BY <3>10, <4>1
    <3> QED
      BY <1>1, <2>4, <3>11 DEF LL!Write, LL!Range, Range
  <2> QED
    BY <2>1, <2>7, <2>8, <2>9
<1> QED
  BY <1>2, <1>3

LEMMA LogSteps ==
    ASSUME OneWriter, ExactDays, IInv, LogInv, [Next]_vars
    PROVE  [LL!Next]_(LL!vars)
<1>0. UNCHANGED <<content, current, dated, line>> => Log' = Log
  BY DEF Log, LinesOf
<1>1. ASSUME Stopped \/ UNCHANGED vars PROVE Log' = Log /\ day' = day
  BY <1>0, <1>1 DEF Stopped, vars
<1>2. ASSUME NEW w \in Writers, Dies(w) PROVE Log' = Log /\ day' = day
  BY <1>2, EndingStutters DEF Dies
<1>3. ASSUME NEW w \in Writers, Opens(w) \/ Reopens(w) PROVE Log' = Log /\ day' = day
  <2>1. CASE Opens(w)
    BY <2>1, OpeningStutters DEF Opens
  <2>2. CASE Reopens(w)
    BY <2>2, OpeningStutters DEF Reopens
  <2> QED
    BY <1>3, <2>1, <2>2
<1>4. ASSUME NEW w \in Writers, Renames(w) PROVE Log' = Log /\ day' = day
  BY <1>4, RenamingStutters DEF Renames
<1>5. ASSUME NEW w \in Writers,
             LoopStarts(w) \/ Notices(w) \/ CloseCalled(w) \/ LoopEnds(w) \/ CloseEnds(w)
      PROVE  Log' = Log /\ day' = day
  BY <1>0, <1>5 DEF LoopStarts, Notices, CloseCalled, LoopEnds, CloseEnds
<1>6. ASSUME NEW w \in Writers, NEW l \in Lines, WriteBegins(w, l)
      PROVE  Log' = Log /\ day' = day
  BY <1>6, BeginningStutters DEF WriteBegins
<1>7. Midnight => LL!Midnight
  BY <1>0 DEF Midnight, LL!Midnight
<1>8. CASE Log' = Log /\ day' = day
  BY <1>8 DEF LL!vars
<1>9. ASSUME NEW w \in Writers, Removes(w) PROVE LL!Forget \/ (Log' = Log /\ day' = day)
  BY <1>9, RemovingForgets
<1>10. ASSUME NEW l \in Lines, WriteEnds(l) PROVE LL!Write(l) \/ (Log' = Log /\ day' = day)
  BY <1>10, AddingWrites
<1>11. Midnight \/ (Log' = Log /\ day' = day) \/ LL!Forget \/ \E l \in Lines : LL!Write(l)
  BY <1>1, <1>2, <1>3, <1>4, <1>5, <1>6, <1>9, <1>10 DEF Next, Loop, Rotation
<1> QED
  BY <1>7, <1>8, <1>11 DEF LL!Next

LEMMA LogBegins == Init => LL!Init
<1> SUFFICES ASSUME Init PROVE LL!Init
  OBVIOUS
<1>1. Files \in [1..MaxDay -> Seq({})] /\ LinesOf(current) = <<>>
  BY EmptySeq DEF Init, Files, LinesOf, Days
<1>2. FlattenSeq(Files) \in Seq({})
  <2>1. IInv /\ LogInv
    BY Initial, LogInitial
  <2>2. \A e \in Entry : line[e.line].state # "written"
    BY DEF Init, NoLine, Entry
  <2> QED
    BY <2>1, <2>2, FilesType
<1>3. FlattenSeq(Files) = <<>>
  BY <1>2
<1>4. Log = <<>>
  <2>1. <<>> \o <<>> = <<>>
    BY EmptySeq, ConcatEmptySeq
  <2> QED
    BY <1>1, <1>3, <2>1 DEF Log, Files
<1> QED
  BY <1>4 DEF Init, LL!Init

(***************************************************************************)
(* With one writer on the file and days of 24 hours, the files of all days *)
(* are a log from which only lines go that are MaxRotateCount days old, in *)
(* the order in which they were written (writer.go:71-147).                *)
(***************************************************************************)
THEOREM LogIsKept ==
    ASSUME OneWriter, ExactDays
    PROVE  Spec => ImplementsLineLog
<1>1. Init => IInv /\ LogInv
  BY Initial, LogInitial
<1>2. IInv /\ LogInv /\ [Next]_vars => (IInv /\ LogInv)'
  BY Inductive, LogInductive
<1>3. IInv /\ LogInv /\ [Next]_vars => [LL!Next]_(LL!vars)
  BY LogSteps
<1> QED
  BY <1>1, <1>2, <1>3, LogBegins, PTL DEF Spec, ImplementsLineLog, LL!Spec
==============================================================================
