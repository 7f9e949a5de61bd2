---------------------------- MODULE MCChangeFetch ----------------------------
(***************************************************************************)
(* A small index: a crate with one version, which is yanked while it gets  *)
(* a second one, and unyanked; a crate whose version is deleted.           *)
(***************************************************************************)
EXTENDS ChangeFetch

CONSTANTS a, b, t1, t2

At(a1, a2, b1) ==
    [c \in Crates |-> [v \in Versions |->
        CASE c = a /\ v = 1 -> a1
          [] c = a /\ v = 2 -> a2
          [] c = b /\ v = 1 -> b1
          [] OTHER -> "absent"]]

SmallIndex == [n \in 0..LastCommit |->
    CASE n = 0 -> At("absent", "absent", "absent")
      [] n = 1 -> At("Added", "absent", "absent")
      [] n = 2 -> At("Yanked", "Added", "Added")
      [] OTHER -> At("Added", "Yanked", "absent")]
=============================================================================
