----------------------------- MODULE MCTaskQueue -----------------------------
(* A small instance of the linked lists for TLC.  PCBs are interchangeable. *)
EXTENDS TaskQueue, TLC

PCBSymmetry == Permutations(PCBs)
=============================================================================
