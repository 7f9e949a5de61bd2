----------------------------- MODULE MCGitWriter -----------------------------
(***************************************************************************)
(* A small instance of GitWriter: two files, a channel of one place, and   *)
(* two rounds, so that a round can overtake the thread of an earlier one.  *)
(***************************************************************************)
EXTENDS GitWriter

CONSTANTS r1, r2, f1, f2
=============================================================================
