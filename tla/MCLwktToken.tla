---------------------------- MODULE MCLwktToken ----------------------------
(* Instances of LwktToken: two threads, so two cpus.  The threads are not *)
(* permuted, because the runs check liveness.                             *)
EXTENDS LwktToken

CONSTANTS t1, t2
=============================================================================
