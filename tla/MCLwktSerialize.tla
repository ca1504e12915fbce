-------------------------- MODULE MCLwktSerialize --------------------------
(* Instances of LwktSerialize for TLC. *)
EXTENDS LwktSerialize, TLC

(* Threads are interchangeable: nothing orders or names them.             *)
Symmetry == Permutations(Thread)
=============================================================================
