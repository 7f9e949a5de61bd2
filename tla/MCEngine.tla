------------------------------- MODULE MCEngine -------------------------------
(***************************************************************************)
(* Engine with a few command lines: everything limited, nothing limited,   *)
(* no waits, each with and without a database download, a deadline and a   *)
(* GUI.                                                                    *)
(***************************************************************************)
EXTENDS Engine

Limits == {[fetch |-> 1, process |-> 2, report |-> 2],
           [fetch |-> 0, process |-> 1, report |-> Unlimited],
           [fetch |-> Unlimited, process |-> Unlimited, report |-> Unlimited]}

Intervals == {[fetch |-> 2, process |-> 1, report |-> 2],
              [fetch |-> 1, process |-> 1, report |-> 0]}

CommandLines ==
    [every : Intervals, atMost : Limits,
     dbDownload : BOOLEAN, timeLimit : BOOLEAN, gui : BOOLEAN]
===============================================================================
