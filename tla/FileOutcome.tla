---------------------------- MODULE FileOutcome ----------------------------
(***************************************************************************)
(* What the processing stage relies on in a download, and how TaskPipeline *)
(* sees it: attempts at one crate file, each of which ends well, with a    *)
(* timeout or with an error.  A file that is whole stays whole, and an     *)
(* attempt ends well only if it is.                                        *)
(***************************************************************************)
VARIABLES
    whole,     \* is the body on disk, all of it and nothing else?
    recorded,  \* is its result in the result table?
    attempt    \* "off", "working", "ok", "timeout" or "error"

outcome == <<whole, recorded, attempt>>

OutcomeInit == whole = FALSE /\ recorded = FALSE /\ attempt = "off"

Begin ==
    /\ attempt # "working"
    /\ attempt' = "working"
    /\ UNCHANGED <<whole, recorded>>

Arrive ==
    /\ attempt = "working"
    /\ whole' = TRUE
    /\ UNCHANGED <<recorded, attempt>>

Succeed ==
    /\ attempt = "working" /\ whole
    /\ attempt' = "ok"
    /\ recorded' \in {recorded, TRUE}
    /\ UNCHANGED whole

GiveUp ==
    /\ attempt = "working"
    /\ attempt' \in {"timeout", "error"}
    /\ UNCHANGED <<whole, recorded>>

Stop ==
    /\ attempt' = "off"
    /\ UNCHANGED <<whole, recorded>>

OutcomeNext == Begin \/ Arrive \/ Succeed \/ GiveUp \/ Stop

OutcomeSpec == OutcomeInit /\ [][OutcomeNext]_outcome
=============================================================================
