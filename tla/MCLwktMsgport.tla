--------------------------- MODULE MCLwktMsgport ---------------------------
(***************************************************************************)
(* An instance of LwktMsgport: one client with two messages, one server,   *)
(* which may forward a message to itself, and two cpus.                    *)
(***************************************************************************)
EXTENDS LwktMsgport

CONSTANTS c1, s1, m1, m2

OneClient == [m \in Msg |-> c1]
=============================================================================
