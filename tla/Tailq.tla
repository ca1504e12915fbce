------------------------------- MODULE Tailq -------------------------------
(***************************************************************************)
(* The tail queues of sys/sys/queue.h as sequences.  An element is on such *)
(* a queue once at most; that the code keeps it so is for the modules that *)
(* use the queues to show.                                                 *)
(***************************************************************************)
EXTENDS Integers, Sequences, FiniteSets

(* TAILQ_REMOVE().                                                         *)
Without(s, m) ==
  IF \E i \in 1 .. Len(s) : s[i] = m
  THEN LET i == CHOOSE i \in 1 .. Len(s) : s[i] = m
       IN  SubSeq(s, 1, i - 1) \o SubSeq(s, i + 1, Len(s))
  ELSE s

(* TAILQ_NEXT(), none at the end of the queue.                             *)
After(s, m, none) ==
  LET i == CHOOSE i \in 1 .. Len(s) : s[i] = m
  IN  IF i = Len(s) THEN none ELSE s[i + 1]

(* How often m is on the queue.                                            *)
Count(s, m) == Cardinality({i \in 1 .. Len(s) : s[i] = m})
=============================================================================
