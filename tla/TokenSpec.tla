------------------------------ MODULE TokenSpec ------------------------------
(***************************************************************************)
(* What tokens promise, without saying how: a thread that runs owns every  *)
(* token on its stack, threads that run never own a token in conflict, and *)
(* a thread that was switched out runs again with all of its tokens, at    *)
(* once, or not at all.                                                    *)
(***************************************************************************)
EXTENDS Naturals, Sequences

CONSTANTS Owner, Item

VARIABLES
  stack,      \* the references of each thread: which token, exclusively or not
  runs        \* the thread runs, and owns what is on its stack

tokenVars == <<stack, runs>>

Reference == [tok : Item, ex : BOOLEAN]

Elements(s) == {s[i] : i \in 1 .. Len(s)}

(* o would own nothing on s in conflict with a thread that runs.           *)
Compatible(o, s) ==
  \A p \in Owner \ {o}, r \in Elements(s) :
    runs[p] => \A q \in Elements(stack[p]) :
                 r.tok = q.tok => ~r.ex /\ ~q.ex

PromiseInit ==
  /\ stack = [o \in Owner |-> <<>>]
  /\ runs = [o \in Owner |-> TRUE]

(* A running thread gets one more reference.                               *)
Get(o, r) ==
  LET s == Append(stack[o], r) IN
  /\ runs[o] /\ Compatible(o, s)
  /\ stack' = [stack EXCEPT ![o] = s]
  /\ UNCHANGED runs

(* It cannot have the token now, and stops until it can have all of them.  *)
Block(o, r) ==
  /\ runs[o]
  /\ stack' = [stack EXCEPT ![o] = Append(@, r)]
  /\ runs' = [runs EXCEPT ![o] = FALSE]

Drop(o) ==
  /\ runs[o] /\ stack[o] # <<>>
  /\ stack' = [stack EXCEPT ![o] = SubSeq(@, 1, Len(@) - 1)]
  /\ UNCHANGED runs

Exchange(o) ==
  LET n == Len(stack[o]) IN
  /\ runs[o] /\ n >= 2
  /\ stack' = [stack EXCEPT ![o][n] = stack[o][n - 1], ![o][n - 1] = stack[o][n]]
  /\ UNCHANGED runs

(* A thread that is switched out owns nothing.                             *)
Stop(o) ==
  /\ runs[o]
  /\ runs' = [runs EXCEPT ![o] = FALSE]
  /\ UNCHANGED stack

Resume(o) ==
  /\ ~runs[o] /\ Compatible(o, stack[o])
  /\ runs' = [runs EXCEPT ![o] = TRUE]
  /\ UNCHANGED stack

PromiseNext ==
  \E o \in Owner :
    \/ \E r \in Reference : Get(o, r) \/ Block(o, r)
    \/ Drop(o) \/ Exchange(o) \/ Stop(o) \/ Resume(o)

Promise == PromiseInit /\ [][PromiseNext]_tokenVars
=============================================================================
