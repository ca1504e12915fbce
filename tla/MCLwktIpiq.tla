----------------------------- MODULE MCLwktIpiq -----------------------------
(***************************************************************************)
(* Instances of LwktIpiq: what the threads of two cpus call.               *)
(***************************************************************************)
EXTENDS LwktIpiq

(* One cpu sends without waiting, the other also waits for the answer, and *)
(* both interlock one another.                                             *)
Callers ==
  [p \in Cpu |-> IF p = 0 THEN {"send", "nowait", "cpusync"}
                 ELSE {"send_wait", "passive", "cpusync"}]

CallerFuncs == [p \in Cpu |-> IF p = 0 THEN {"plain"} ELSE {"relay"}]

(* One cpu waits for answers, the other only sends.                        *)
Waiter == [p \in Cpu |-> IF p = 0 THEN {"send_wait"} ELSE {"nowait"}]

WaiterFuncs == [p \in Cpu |-> AllFuncs]
=============================================================================
