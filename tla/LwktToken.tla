------------------------------ MODULE LwktToken ------------------------------
(***************************************************************************)
(* LWKT tokens (sys/kern/lwkt_token.c) and the part of lwkt_switch()       *)
(* (sys/kern/lwkt_thread.c) that gives them up and gets them back.  A      *)
(* thread keeps a stack of token references.  It owns every token on it    *)
(* while it runs and none of them while it is switched out; the scheduler  *)
(* of its cpu gets them all back, or none, before the thread runs again.   *)
(*                                                                         *)
(* Every thread has a cpu of its own.  lwkt_switch() runs on behalf of the *)
(* thread while that is still on the run queue, and of the cpu's idle      *)
(* thread after the thread has slept.                                      *)
(*                                                                         *)
(* A cmpset that succeeds saw the word as it is, so the read before it and *)
(* the cmpset are one step; one that fails only reads again.  A word that  *)
(* was read and is used later otherwise is kept (setreq, seen).            *)
(***************************************************************************)
EXTENDS Naturals, Sequences, FiniteSets

CONSTANTS
  Thread,      \* the threads, and their cpus
  Token,       \* the tokens, each named by its address
  NULL,
  Ops,         \* the entry points the threads call
  MaxRefs,     \* bound: the depth of td_toks_array (LWKT_MAXTOKENS)
  TokenSpin,   \* lwkt_token_spin
  SpinLoops    \* lwkt_spin_loops

AllOps == {"gettoken", "gettoken_shared", "trytoken", "swap", "yield", "sleep"}

ASSUME TokenAssumption == Token \subseteq Nat
ASSUME TokThreadAssumption == IsFiniteSet(Thread)
ASSUME TokNullAssumption == NULL \notin Thread \X Nat
ASSUME TokBoundAssumption ==
  /\ MaxRefs \in Nat \ {0}
  /\ TokenSpin \in Nat
  /\ SpinLoops \in Nat
ASSUME TokOpsAssumption == Ops \subseteq AllOps

VARIABLES
  t_count,     \* the token's word: TOK_EXCLUSIVE, TOK_EXCLREQ, the count
  t_ref,       \* the reference that holds TOK_EXCLUSIVE: <<thread, index>>
  toks,        \* td_toks_base .. td_toks_stop: tr_tok, TOK_EXCLUSIVE of tr_count
  pc,          \* where in trytokref and reltokref the cpu is
  ctx,         \* for whom: the caller of trytokref or reltokref
  cur,         \* the scan's place
  seen,        \* the word that a release has read
  spin,        \* failed rounds of trytokref_spin
  spinning,    \* failed rounds of lwkt_switch
  sorted,      \* getalltokens goes by address
  idle         \* lwkt_switch runs on the idle thread

tokVars == <<t_count, t_ref>>
scanVars == <<cur, spin, spinning, sorted, idle>>
vars == <<t_count, t_ref, toks, pc, ctx, cur, seen, spin, spinning, sorted, idle>>

Count == [ex : BOOLEAN, req : BOOLEAN, cnt : Nat]
Tokref == [tok : Token, ex : BOOLEAN]
Ref == Thread \X (1 .. MaxRefs)

TypeOK ==
  /\ t_count \in [Token -> Count]
  /\ t_ref \in [Token -> Ref \cup {NULL}]
  /\ toks \in [Thread -> Seq(Tokref)]
  /\ \A t \in Thread : Len(toks[t]) <= MaxRefs
  /\ pc \in [Thread -> {"run", "asleep", "try", "setref", "setreq", "rel", "relcas"}]
  /\ ctx \in [Thread -> {"none", "get", "trytoken", "reltoken", "yield",
                         "sleep", "getall", "undo"}]
  /\ cur \in [Thread -> 0 .. MaxRefs]
  /\ seen \in [Thread -> Count]
  /\ spin \in [Thread -> 0 .. TokenSpin]
  /\ spinning \in [Thread -> 0 .. SpinLoops]
  /\ sorted \in [Thread -> BOOLEAN]
  /\ idle \in [Thread -> BOOLEAN]

Free == [ex |-> FALSE, req |-> FALSE, cnt |-> 0]

lwkt_token_init ==
  /\ t_count = [k \in Token |-> Free]
  /\ t_ref = [k \in Token |-> NULL]
  /\ toks = [t \in Thread |-> <<>>]
  /\ pc = [t \in Thread |-> "run"]
  /\ ctx = [t \in Thread |-> "none"]
  /\ cur = [t \in Thread |-> 0]
  /\ seen = [t \in Thread |-> Free]
  /\ spin = [t \in Thread |-> 0]
  /\ spinning = [t \in Thread |-> 0]
  /\ sorted = [t \in Thread |-> FALSE]
  /\ idle = [t \in Thread |-> FALSE]

-----------------------------------------------------------------------------
(* The order in which references are scanned.                              *)

(* i comes before j in the sort of _lwkt_getalltokens_sorted().            *)
Before(s, i, j) == s[i].tok < s[j].tok \/ (s[i].tok = s[j].tok /\ i < j)

SortArray(s) ==
  LET place(i) == 1 + Cardinality({j \in 1 .. Len(s) : Before(s, j, i)})
  IN  [n \in 1 .. Len(s) |-> CHOOSE i \in 1 .. Len(s) : place(i) = n]

(* The index of the reference that t's cpu is working on.                  *)
Scan(t) == IF sorted[t] THEN SortArray(toks[t])[cur[t]] ELSE cur[t]
Tr(t) == toks[t][Scan(t)]

(* The exclusive reference to k is on t's own stack.                       *)
OwnRef(t, k) == \E i \in 1 .. Len(toks[t]) : t_ref[k] = <<t, i>>

-----------------------------------------------------------------------------
(* Returning from trytokref and reltokref.                                 *)

(* t runs, with everything on its stack.                                   *)
Run(t) ==
  /\ pc' = [pc EXCEPT ![t] = "run"]
  /\ ctx' = [ctx EXCEPT ![t] = "none"]
  /\ cur' = [cur EXCEPT ![t] = 0]
  /\ spin' = [spin EXCEPT ![t] = 0]
  /\ spinning' = [spinning EXCEPT ![t] = 0]
  /\ sorted' = [sorted EXCEPT ![t] = FALSE]
  /\ idle' = [idle EXCEPT ![t] = FALSE]

(* The next reference of the caller's scan.                                *)
At(t, p, c, n) ==
  /\ pc' = [pc EXCEPT ![t] = p]
  /\ ctx' = [ctx EXCEPT ![t] = c]
  /\ cur' = [cur EXCEPT ![t] = n]
  /\ spin' = [spin EXCEPT ![t] = 0]

(* Slip: lwkt_switch() never changes to the sorted scan.                   *)
Round_Unsorted(t, n) ==
  /\ At(t, "try", "getall", 1)
  /\ spinning' = [spinning EXCEPT ![t] = n]
  /\ UNCHANGED <<sorted, idle>>

(* A round of lwkt_switch()'s loop, the n-th failed so far.                *)
Round(t, n) ==
  /\ At(t, "try", "getall", 1)
  /\ spinning' = [spinning EXCEPT ![t] = n]
  /\ sorted' = [sorted EXCEPT ![t] = n >= SpinLoops]
  /\ UNCHANGED idle

(***************************************************************************)
(* All runnable threads are contested.  A thread on the run queue counts   *)
(* the round and goes on; otherwise the idle thread calls lwkt_switch()    *)
(* again, which starts to count from zero.                                 *)
(***************************************************************************)
Contested(t) ==
  Round(t, IF idle[t] THEN 0
           ELSE IF spinning[t] < SpinLoops THEN spinning[t] + 1 ELSE SpinLoops)

(* Slip: the scan ends before the last reference.                          *)
Acquired_Short(t) ==
  IF ctx[t] = "getall" /\ cur[t] < Len(toks[t]) - 1
  THEN At(t, "try", "getall", cur[t] + 1) /\ UNCHANGED <<spinning, sorted, idle>>
  ELSE Run(t)

(* The next reference, or the end of the scan.                             *)
Acquired(t) ==
  IF ctx[t] = "getall" /\ cur[t] < Len(toks[t])
  THEN At(t, "try", "getall", cur[t] + 1) /\ UNCHANGED <<spinning, sorted, idle>>
  ELSE Run(t)

(* lwkt_switch() has given up the caller's n lowest references.            *)
SwitchedOut(t, c) ==
  IF c = "sleep"
  THEN At(t, "asleep", "none", 0) /\ UNCHANGED <<spinning, sorted, idle>>
  ELSE Round(t, 0)

(* trytokref_spin() for gettoken, and for the top of the stack.            *)
Hard(t) == ctx[t] = "get" \/ (ctx[t] = "getall" /\ Scan(t) = Len(toks[t]))

(* Slip: a failed getalltokens keeps what it has.                          *)
GetallFailed_Keep(t) ==
  /\ ctx[t] = "getall"
  /\ Contested(t)
  /\ UNCHANGED toks

(* getalltokens gives up what it has got so far.                           *)
GetallFailed(t) ==
  /\ ctx[t] = "getall"
  /\ IF cur[t] > 1
     THEN At(t, "rel", "undo", cur[t] - 1) /\ UNCHANGED <<spinning, sorted, idle>>
     ELSE Contested(t)
  /\ UNCHANGED toks

(* gettoken gives up all other tokens and leaves this one to the scheduler. *)
GetFailed(t) ==
  /\ ctx[t] = "get"
  /\ IF cur[t] > 1
     THEN At(t, "rel", "yield", cur[t] - 1) /\ UNCHANGED <<spinning, sorted, idle>>
     ELSE SwitchedOut(t, "yield")
  /\ UNCHANGED toks

(* trytoken pops its reference.                                            *)
TrytokenFailed(t) ==
  /\ ctx[t] = "trytoken"
  /\ toks' = [toks EXCEPT ![t] = SubSeq(@, 1, Len(@) - 1)]
  /\ Run(t)

(* trytokref returned FALSE; it may be tried lwkt_token_spin times more.   *)
Failed(t) ==
  IF Hard(t) /\ spin[t] < TokenSpin
  THEN /\ spin' = [spin EXCEPT ![t] = @ + 1]
       /\ pc' = [pc EXCEPT ![t] = "try"]
       /\ UNCHANGED <<toks, ctx, cur, spinning, sorted, idle>>
  ELSE GetallFailed(t) \/ GetFailed(t) \/ TrytokenFailed(t)

Released(t) ==
  \/ /\ ctx[t] = "reltoken"
     /\ toks' = [toks EXCEPT ![t] = SubSeq(@, 1, Len(@) - 1)]
     /\ Run(t)
  \/ /\ ctx[t] # "reltoken" /\ cur[t] > 1
     /\ At(t, "rel", ctx[t], cur[t] - 1)
     /\ UNCHANGED <<toks, spinning, sorted, idle>>
  \/ /\ ctx[t] # "reltoken" /\ cur[t] = 1
     /\ IF ctx[t] = "undo" THEN Contested(t) ELSE SwitchedOut(t, ctx[t])
     /\ UNCHANGED toks

-----------------------------------------------------------------------------
(* _lwkt_trytokref().                                                      *)

(* An exclusive reference takes the free word, and TOK_EXCLREQ with it.    *)
TryExclusive(t) ==
  LET k == Tr(t).tok IN
  /\ pc[t] = "try" /\ Tr(t).ex
  /\ ~t_count[k].ex /\ t_count[k].cnt = 0
  /\ t_count' = [t_count EXCEPT ![k] = [Free EXCEPT !.ex = TRUE]]
  /\ pc' = [pc EXCEPT ![t] = "setref"]
  /\ UNCHANGED <<t_ref, toks, ctx, seen, scanVars>>

(* Then it records itself in the token.                                    *)
SetRef(t) ==
  /\ pc[t] = "setref"
  /\ t_ref' = [t_ref EXCEPT ![Tr(t).tok] = <<t, Scan(t)>>]
  /\ Acquired(t)
  /\ UNCHANGED <<t_count, toks, seen>>

(* The thread has the token exclusively already: count a shared reference. *)
TryOwn(t) ==
  LET k == Tr(t).tok IN
  /\ pc[t] = "try"
  /\ t_count[k].ex /\ OwnRef(t, k)
  /\ t_count' = [t_count EXCEPT ![k].cnt = @ + 1]
  /\ toks' = [toks EXCEPT ![t][Scan(t)].ex = FALSE]
  /\ Acquired(t)
  /\ UNCHANGED <<t_ref, seen>>

(* Slip: a shared reference does not look at TOK_EXCLUSIVE.                *)
TryShared_Unchecked(t) ==
  LET k == Tr(t).tok IN
  /\ pc[t] = "try" /\ ~Tr(t).ex
  /\ t_count' = [t_count EXCEPT ![k].cnt = @ + 1]
  /\ Acquired(t)
  /\ UNCHANGED <<t_ref, toks, seen>>

(* A shared reference is counted unless the token is held exclusively;     *)
(* TOK_EXCLREQ does not stop it.                                           *)
TryShared(t) ==
  LET k == Tr(t).tok IN
  /\ pc[t] = "try" /\ ~Tr(t).ex
  /\ ~t_count[k].ex
  /\ t_count' = [t_count EXCEPT ![k].cnt = @ + 1]
  /\ Acquired(t)
  /\ UNCHANGED <<t_ref, toks, seen>>

(* The token is held.  A blocking exclusive request is announced, once.    *)
TryFail(t) ==
  LET k == Tr(t).tok IN
  /\ pc[t] = "try"
  /\ t_count[k].ex \/ (Tr(t).ex /\ t_count[k].cnt # 0)
  /\ ~(t_count[k].ex /\ OwnRef(t, k))
  /\ IF Tr(t).ex /\ ctx[t] # "trytoken" /\ ~t_count[k].req
     THEN pc' = [pc EXCEPT ![t] = "setreq"] /\ UNCHANGED <<toks, ctx, scanVars>>
     ELSE Failed(t)
  /\ UNCHANGED <<tokVars, seen>>

(* TOK_EXCLREQ is set whatever the word is by now.                         *)
SetReq(t) ==
  /\ pc[t] = "setreq"
  /\ t_count' = [t_count EXCEPT ![Tr(t).tok].req = TRUE]
  /\ Failed(t)
  /\ UNCHANGED <<t_ref, seen>>

-----------------------------------------------------------------------------
(* _lwkt_reltokref().                                                      *)

(* The exclusive reference reads the word and withdraws from the token.    *)
RelRef(t) ==
  LET k == Tr(t).tok IN
  /\ pc[t] = "rel" /\ t_ref[k] = <<t, Scan(t)>>
  /\ seen' = [seen EXCEPT ![t] = t_count[k]]
  /\ t_ref' = [t_ref EXCEPT ![k] = NULL]
  /\ pc' = [pc EXCEPT ![t] = "relcas"]
  /\ UNCHANGED <<t_count, toks, ctx, scanVars>>

(* Slip: a failed cmpset does not restore t_ref.                           *)
RelExclusive_NoRestore(t) ==
  LET k == Tr(t).tok IN
  /\ pc[t] = "relcas"
  /\ IF t_count[k] = seen[t]
     THEN /\ t_count' = [t_count EXCEPT ![k].ex = FALSE]
          /\ Released(t)
          /\ UNCHANGED t_ref
     ELSE /\ pc' = [pc EXCEPT ![t] = "rel"]
          /\ UNCHANGED <<t_count, t_ref, toks, ctx, scanVars>>
  /\ seen' = [seen EXCEPT ![t] = Free]

(* The cmpset clears TOK_EXCLUSIVE; if the word has changed, start over.   *)
RelExclusive(t) ==
  LET k == Tr(t).tok IN
  /\ pc[t] = "relcas"
  /\ IF t_count[k] = seen[t]
     THEN /\ t_count' = [t_count EXCEPT ![k].ex = FALSE]
          /\ Released(t)
          /\ UNCHANGED t_ref
     ELSE /\ t_ref' = [t_ref EXCEPT ![k] = <<t, Scan(t)>>]
          /\ pc' = [pc EXCEPT ![t] = "rel"]
          /\ UNCHANGED <<t_count, toks, ctx, scanVars>>
  /\ seen' = [seen EXCEPT ![t] = Free]

(* Any other reference is uncounted.                                       *)
RelShared(t) ==
  LET k == Tr(t).tok IN
  /\ pc[t] = "rel" /\ t_ref[k] # <<t, Scan(t)>>
  /\ t_count' = [t_count EXCEPT ![k].cnt = @ - 1]
  /\ Released(t)
  /\ UNCHANGED <<t_ref, seen>>

-----------------------------------------------------------------------------
(* The entry points, called by a running thread.                           *)

(***************************************************************************)
(* gettoken, gettoken_shared and trytoken push a reference.  A thread must *)
(* not ask for an exclusive token that it has only shared (the assertion   *)
(* "s/x livelock" of DEBUG_LOCKS kernels).                                 *)
(***************************************************************************)
Push(t, k, o) ==
  LET s == toks[t]
      own == {i \in 1 .. Len(s) : s[i].tok = k}
  IN
  /\ o \in Ops \cap {"gettoken", "gettoken_shared", "trytoken"}
  /\ pc[t] = "run" /\ Len(s) < MaxRefs
  /\ o = "gettoken" /\ own # {} => \E i \in own : s[i].ex
  /\ toks' = [toks EXCEPT ![t] =
                Append(@, [tok |-> k, ex |-> o # "gettoken_shared"])]
  /\ At(t, "try", IF o = "trytoken" THEN "trytoken" ELSE "get", Len(s) + 1)
  /\ UNCHANGED <<tokVars, seen, spinning, sorted, idle>>

lwkt_reltoken(t) ==
  /\ pc[t] = "run" /\ toks[t] # <<>>
  /\ At(t, "rel", "reltoken", Len(toks[t]))
  /\ UNCHANGED <<tokVars, toks, seen, spinning, sorted, idle>>

(* Slip: t_ref does not follow the references.                             *)
lwkt_token_swap_NoRef(t) ==
  LET n == Len(toks[t]) IN
  /\ "swap" \in Ops
  /\ pc[t] = "run" /\ n >= 2 /\ toks[t][n].tok # toks[t][n - 1].tok
  /\ toks' = [toks EXCEPT ![t][n] = toks[t][n - 1], ![t][n - 1] = toks[t][n]]
  /\ UNCHANGED <<tokVars, pc, ctx, seen, scanVars>>

(* Exchange the two most recent references, if they are to two tokens.     *)
lwkt_token_swap(t) ==
  LET n == Len(toks[t])
      flip(k) == CASE t_ref[k] = <<t, n>>     -> <<t, n - 1>>
                   [] t_ref[k] = <<t, n - 1>> -> <<t, n>>
                   [] OTHER                   -> t_ref[k]
  IN
  /\ "swap" \in Ops
  /\ pc[t] = "run" /\ n >= 2 /\ toks[t][n].tok # toks[t][n - 1].tok
  /\ toks' = [toks EXCEPT ![t][n] = toks[t][n - 1], ![t][n - 1] = toks[t][n]]
  /\ t_ref' = [k \in Token |-> flip(k)]
  /\ UNCHANGED <<t_count, pc, ctx, seen, scanVars>>

(***************************************************************************)
(* lwkt_switch() by a thread that stays on the run queue, or that sleeps;  *)
(* a thread without tokens has nothing to give up.                         *)
(***************************************************************************)
lwkt_switch(t, o) ==
  /\ o \in Ops \cap {"yield", "sleep"}
  /\ pc[t] = "run" /\ toks[t] # <<>>
  /\ At(t, "rel", o, Len(toks[t]))
  /\ UNCHANGED <<tokVars, toks, seen, spinning, sorted, idle>>

(* A sleeper is put on the run queue; its cpu's idle thread switches to it. *)
Wakeup(t) ==
  /\ pc[t] = "asleep"
  /\ At(t, "try", "getall", 1)
  /\ idle' = [idle EXCEPT ![t] = TRUE]
  /\ UNCHANGED <<tokVars, toks, seen, spinning, sorted>>

-----------------------------------------------------------------------------
Step(t) ==
  \/ TryExclusive(t) \/ SetRef(t) \/ TryOwn(t) \/ TryShared(t)
  \/ TryFail(t) \/ SetReq(t)
  \/ RelRef(t) \/ RelExclusive(t) \/ RelShared(t)

Next ==
  \E t \in Thread :
    \/ Step(t)
    \/ \E k \in Token, o \in Ops : Push(t, k, o)
    \/ lwkt_reltoken(t)
    \/ lwkt_token_swap(t)
    \/ \E o \in Ops : lwkt_switch(t, o)
    \/ Wakeup(t)

Spec == lwkt_token_init /\ [][Next]_vars

(* The cpus keep executing; nothing is assumed of the threads' calls.      *)
FairSpec == Spec /\ \A t \in Thread : WF_vars(Step(t))

-----------------------------------------------------------------------------
(* Properties.                                                             *)

(* The references whose acquisition is done and whose release is not.      *)
Held(t) ==
  LET scanned(n) == {IF sorted[t] THEN SortArray(toks[t])[j] ELSE j : j \in 1 .. n} IN
  CASE pc[t] = "run"    -> 1 .. Len(toks[t])
    [] pc[t] = "asleep" -> {}
    [] pc[t] \in {"try", "setreq"} -> scanned(cur[t] - 1)
    [] OTHER -> scanned(cur[t])

Holds(t, k, ex) == \E i \in Held(t) : toks[t][i] = [tok |-> k, ex |-> ex]

(***************************************************************************)
(* A token held exclusively by one thread is held by no other, through     *)
(* recursion, failed scans and switches ("Tokens are locks which serialize *)
(* a thread only while the thread is running", lwkt_token.c:38-40).        *)
(***************************************************************************)
TokenExclusion ==
  \A t, u \in Thread, k \in Token :
    t # u /\ Holds(t, k, TRUE) => ~Holds(u, k, TRUE) /\ ~Holds(u, k, FALSE)

(***************************************************************************)
(* The word says exactly what the threads hold: TOK_EXCLUSIVE for the one  *)
(* exclusive reference, the count for the others.  No path, of a failed    *)
(* scan, a failed try or a release that had to start over, leaks or        *)
(* forgets a reference (lwkt_token.c:404,416, the KKASSERTs on t_count).   *)
(***************************************************************************)
TokenCountExact ==
  \A k \in Token :
    /\ t_count[k].ex <=> \E t \in Thread : Holds(t, k, TRUE)
    /\ t_count[k].cnt =
         Cardinality({r \in Ref : /\ r[2] \in Held(r[1])
                                  /\ toks[r[1]][r[2]] = [tok |-> k, ex |-> FALSE]})

(***************************************************************************)
(* t_ref names the exclusive reference of a running thread, and is NULL    *)
(* when a thread has just set TOK_EXCLUSIVE (KKASSERTs at lwkt_token.c:263 *)
(* and 656): the holder alone sets and clears it, and swap keeps it.       *)
(***************************************************************************)
RefExact ==
  /\ \A t \in Thread : pc[t] = "setref" => t_ref[Tr(t).tok] = NULL
  /\ \A t \in Thread : pc[t] = "run" =>
       \A i \in 1 .. Len(toks[t]) :
         toks[t][i].ex => t_ref[toks[t][i].tok] = <<t, i>>
  /\ \A k \in Token : t_ref[k] # NULL =>
       LET r == t_ref[k] IN
       r[2] \in Held(r[1]) /\ toks[r[1]][r[2]] = [tok |-> k, ex |-> TRUE]

Contending(t) == pc[t] # "run" /\ ctx[t] \in {"getall", "undo"}

(***************************************************************************)
(* Threads that need each other's tokens do not keep each other out        *)
(* forever: as long as cpus are looking for tokens, some thread runs, or   *)
(* one of the cpus looks from its idle thread ("Ultimately token failures  *)
(* will spin into the scheduler and get here", lwkt_token.c:518-519).      *)
(***************************************************************************)
SomeThreadRuns ==
  (\E t \in Thread : Contending(t)) ~>
    (\E t \in Thread : pc[t] = "run" \/ (Contending(t) /\ idle[t]))

(* Token failures "ultimately" end in a sorted scan and so in a thread     *)
(* that runs (lwkt_token.c:518-519), on whatever thread lwkt_switch() runs. *)
ScansEndSorted ==
  (\E t \in Thread : Contending(t)) ~> (\E t \in Thread : pc[t] = "run")

-----------------------------------------------------------------------------
(* Tokens keep the promise of TokenSpec.                                   *)

(***************************************************************************)
(* A thread runs until it starts to give its tokens up in lwkt_switch(),   *)
(* and again from the end of a scan that got them all.  A reference that   *)
(* is being tried is not on its stack yet, one that is being released      *)
(* still is.                                                               *)
(***************************************************************************)
Runs(t) == ctx[t] \in {"none", "get", "trytoken", "reltoken"} /\ pc[t] # "asleep"
Owned(t) ==
  IF ctx[t] \in {"get", "trytoken"} THEN SubSeq(toks[t], 1, Len(toks[t]) - 1)
  ELSE toks[t]

Abstract == INSTANCE TokenSpec WITH Owner <- Thread, Item <- Token,
                                    stack <- [t \in Thread |-> Owned(t)],
                                    runs <- [t \in Thread |-> Runs(t)]

(***************************************************************************)
(* The scans of getalltokens, forward and sorted, with their failures,     *)
(* amount to getting all tokens at once or none ("If a failure occurs any  *)
(* partially acquired tokens will be released prior to return",            *)
(* lwkt_token.c:429-430).                                                  *)
(***************************************************************************)
AllOrNone == Abstract!Promise
=============================================================================
