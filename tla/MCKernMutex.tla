---------------------------- MODULE MCKernMutex ----------------------------
(* Instances of KernMutex for TLC. *)
EXTENDS KernMutex, TLC

(* Threads are interchangeable: nothing orders or names them.             *)
Symmetry == Permutations(Thread)
=============================================================================
