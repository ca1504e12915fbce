------------------------------ MODULE LockSpec ------------------------------
(***************************************************************************)
(* What a lock that may be tried promises its callers, without saying how: *)
(* one caller at a time is in, a caller is refused only while somebody     *)
(* else is in, and a lock that is free while callers ask for it is granted *)
(* to one of them.                                                         *)
(***************************************************************************)
CONSTANT Caller

VARIABLE st     \* where each caller stands

Standing == {"out", "asking", "refused", "in"}

LockInit == st = [c \in Caller |-> "out"]

Move(c, from, to) ==
  /\ st[c] = from
  /\ st' = [st EXCEPT ![c] = to]

Held == \E c \in Caller : st[c] = "in"

Ask(c) == Move(c, "out", "asking")

Grant(c) == ~Held /\ Move(c, "asking", "in")

Refuse(c) == Held /\ Move(c, "asking", "refused")

Withdraw(c) == Move(c, "refused", "out")

Release(c) == Move(c, "in", "out")

LockNext ==
  \E c \in Caller :
    Ask(c) \/ Grant(c) \/ Refuse(c) \/ Withdraw(c) \/ Release(c)

LockSafe == LockInit /\ [][LockNext]_st

LockGranted == WF_st(\E c \in Caller : Grant(c))
=============================================================================
