----------------------------- MODULE TaskState -----------------------------
(***************************************************************************)
(* The state of a persisted task and how two states are merged             *)
(* (model.rs `TaskState`, merge.rs).  Both TaskState::merge_with, used by  *)
(* the processor when it starts an attempt, and Merge::merge, used by the  *)
(* upsert that ends one, have the same match arms and are one operator     *)
(* here.                                                                   *)
(*                                                                         *)
(* The vector of error messages is represented by its length.  The program *)
(* never stores AttemptsWithFailure(vec![]), so an InProgress task with 0  *)
(* errors stands for InProgress(None) and one with n > 0 for               *)
(* InProgress(Some(v)) with v.len() = n.                                   *)
(***************************************************************************)
EXTENDS Naturals

StateKinds == {"NotStarted", "InProgress", "AttemptsWithFailure", "Complete"}

TaskStates == [kind : StateKinds, errors : Nat]

NotStarted == [kind |-> "NotStarted", errors |-> 0]
InProgress(n) == [kind |-> "InProgress", errors |-> n]
AttemptsWithFailure(n) == [kind |-> "AttemptsWithFailure", errors |-> n]
Complete == [kind |-> "Complete", errors |-> 0]

(***************************************************************************)
(* The arms of the match.  A failure is appended to the failures that a    *)
(* failed or a restarted task carries; starting a failed task keeps its    *)
(* failures; any other pair takes the newer state, whatever it forgets.    *)
(* The arm that panics, (AttemptsWithFailure, InProgress(Some)), is out of *)
(* reach: every caller merges InProgress(None), one failure or Complete.   *)
(***************************************************************************)
Merge(mine, other) ==
    CASE /\ mine.kind = "AttemptsWithFailure"
         /\ other = InProgress(0)               -> InProgress(mine.errors)
      [] /\ mine.kind \in {"AttemptsWithFailure", "InProgress"}
         /\ other.kind = "AttemptsWithFailure"  -> AttemptsWithFailure(mine.errors + other.errors)
      [] OTHER                                  -> other
=============================================================================
