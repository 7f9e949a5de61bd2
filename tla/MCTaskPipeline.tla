--------------------------- MODULE MCTaskPipeline ---------------------------
(***************************************************************************)
(* Small instances of TaskPipeline: model values, and the slot of each     *)
(* processor by its name.                                                  *)
(***************************************************************************)
EXTENDS TaskPipeline, TLC

CONSTANTS v1, v2, s1, s2, io1, io2, cpu1, cpu2

\* one round has processors at a time
OneSlot == [w \in IoWorkers \cup CpuWorkers |-> s1]

\* two rounds may overlap, with a processor of each kind
TwoSlots == [w \in IoWorkers \cup CpuWorkers |-> IF w \in {io1, cpu1} THEN s1 ELSE s2]

\* the two slots, each with its processors, are alike
Swap ==
    [x \in Slots \cup IoWorkers \cup CpuWorkers |->
        CASE x = s1 -> s2 [] x = s2 -> s1
          [] x = io1 -> io2 [] x = io2 -> io1
          [] x = cpu1 -> cpu2 [] x = cpu2 -> cpu1]

Symmetric == Permutations(Versions) \cup {Swap}
=============================================================================
