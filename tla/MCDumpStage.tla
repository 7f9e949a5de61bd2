----------------------------- MODULE MCDumpStage -----------------------------
(***************************************************************************)
(* A small instance of DumpStage: two bodies, the second longer than the   *)
(* first and with another set of crates.                                   *)
(***************************************************************************)
EXTENDS DumpStage

CONSTANTS c1, c2, c3

Growing == [b \in 1..LastBody |-> b + 1]
Changing == [b \in 1..LastBody |-> IF b = 1 THEN {c1, c2} ELSE {c2, c3}]
=============================================================================
