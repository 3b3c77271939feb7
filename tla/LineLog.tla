------------------------------- MODULE LineLog -------------------------------
(***************************************************************************)
(* What a rotating log is to those who read it: a sequence of lines in the *)
(* order in which they were written, from which only lines disappear that  *)
(* are at least Keep days old.  LogWriter.tla is shown to implement this   *)
(* module, the log being the files of all days one after the other.        *)
(***************************************************************************)
EXTENDS Integers, Sequences, SequencesExt

CONSTANTS Lines, Keep

VARIABLES
    day,
    log     \* the lines, each with the day on which it was written

vars == <<day, log>>

Init == day = 1 /\ log = <<>>

Write(l) ==
    /\ \A e \in Range(log) : e.line # l
    /\ log' = Append(log, [line |-> l, day |-> day])
    /\ UNCHANGED day

\* One stretch of the log goes at a time.
Forget ==
    /\ \E i \in 0..Len(log) : \E j \in i..Len(log) :
          /\ \A k \in (i + 1)..j : day - log[k].day >= Keep
          /\ log' = SubSeq(log, 1, i) \o SubSeq(log, j + 1, Len(log))
    /\ UNCHANGED day

Midnight ==
    /\ day' = day + 1
    /\ UNCHANGED log

Next == (\E l \in Lines : Write(l)) \/ Forget \/ Midnight

Spec == Init /\ [][Next]_vars
==============================================================================
