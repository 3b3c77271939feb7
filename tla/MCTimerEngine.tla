--------------------------- MODULE MCTimerEngine -----------------------------
(***************************************************************************)
(* Small instances of TimerEngine for TLC: a ring of a few buckets stands  *)
(* for the 3600 of the code.                                               *)
(***************************************************************************)
EXTENDS TimerEngine, TLC

CONSTANTS t1, t2

\* Half seconds: at once, one and a half second, and two turns of the ring of
\* three, which puts a timer into the bucket that is being walked.
Delays3 == {0, 3, 12}

\* More than a turn of the ring of three.
LongDelays == {8}
==============================================================================
