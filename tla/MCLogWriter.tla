---------------------------- MODULE MCLogWriter ------------------------------
(***************************************************************************)
(* Small instances of LogWriter for TLC.                                   *)
(***************************************************************************)
EXTENDS LogWriter, TLC
==============================================================================
