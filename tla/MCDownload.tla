----------------------------- MODULE MCDownload -----------------------------
(***************************************************************************)
(* A small instance of Download: bodies of a few chunks, and a server that *)
(* replaces the body under the url only while no part of it is on disk or  *)
(* on its way, as it is for the file of a crate version.  What becomes of  *)
(* the daily dump, which is replaced at any time, is part of DumpStage.    *)
(***************************************************************************)
EXTENDS Download, FiniteSets

CONSTANTS w1, w2, b1, b2

FewChunks == [b \in Bodies |-> IF b = b1 THEN 6 ELSE 4]

NothingSeen == file = <<>> /\ \A w \in Writers : pc[w] \notin {"open", "body"}

Undisturbed ==
    \/ \E w \in Writers : Step(w) \/ TimesOut(w) \/ Fails(w)
    \/ Crash
    \/ NothingSeen /\ Replaced

OneBodyPerFile == Init /\ [][Undisturbed]_vars /\ \A w \in Writers : WF_vars(Step(w))
=============================================================================
