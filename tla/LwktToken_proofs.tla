-------------------------- MODULE LwktToken_proofs --------------------------
(***************************************************************************)
(* Tokens exclude, and their words and references are exact, for every     *)
(* finite set of threads, every set of tokens, every depth of recursion    *)
(* and every choice of entry points.                                       *)
(***************************************************************************)
EXTENDS LwktToken, FiniteSetTheorems, SequenceTheorems, TLAPS

(* The rank of reference i among those of s.                               *)
Earlier(s, i) == {j \in 1 .. Len(s) : Before(s, j, i)}
Rank(s, i) == 1 + Cardinality(Earlier(s, i))

(***************************************************************************)
(* The sort of _lwkt_getalltokens_sorted() visits every reference once.    *)
(***************************************************************************)
LEMMA SortIsPermutation ==
  ASSUME NEW s \in Seq(Tokref)
  PROVE  /\ SortArray(s) \in [1 .. Len(s) -> 1 .. Len(s)]
         /\ \A m, n \in 1 .. Len(s) : SortArray(s)[m] = SortArray(s)[n] => m = n
         /\ \A i \in 1 .. Len(s) : \E n \in 1 .. Len(s) : SortArray(s)[n] = i
<1> DEFINE D == 1 .. Len(s)
<1>0. Len(s) \in Nat /\ \A i \in D : s[i].tok \in Nat
  <2>1. \A i \in D : s[i] \in Tokref
    OBVIOUS
  <2>2. \A r \in Tokref : r.tok \in Nat
    BY TokenAssumption DEF Tokref
  <2>3. Len(s) \in Nat
    OBVIOUS
  <2> QED BY <2>1, <2>2, <2>3
<1>1. \A i \in D : /\ IsFiniteSet(Earlier(s, i))
                   /\ Cardinality(Earlier(s, i)) \in Nat
  <2>1. IsFiniteSet(D) /\ \A i \in D : Earlier(s, i) \in SUBSET D
    BY <1>0, FS_Interval DEF Earlier
  <2> QED BY <2>1, FS_Subset, FS_CardinalityType
<1>2. \A i \in D : Rank(s, i) \in D
  <2> SUFFICES ASSUME NEW i \in D PROVE Rank(s, i) \in D
    OBVIOUS
  <2>1. IsFiniteSet(D) /\ Cardinality(D) = Len(s)
    BY <1>0, FS_Interval
  <2>2. IsFiniteSet(D \ {i}) /\ Cardinality(D \ {i}) = Len(s) - 1
    BY <2>1, FS_RemoveElement
  <2>3. Earlier(s, i) \in SUBSET (D \ {i})
    BY <1>0 DEF Earlier, Before
  <2>4. Cardinality(Earlier(s, i)) <= Len(s) - 1
    BY <2>2, <2>3, FS_Subset
  <2> QED BY <1>0, <1>1, <2>4 DEF Rank
<1>3. \A i, j \in D : Rank(s, i) = Rank(s, j) => i = j
  <2>1. ASSUME NEW i \in D, NEW j \in D, Before(s, i, j)
        PROVE  Cardinality(Earlier(s, i)) < Cardinality(Earlier(s, j))
    <3>1. Earlier(s, i) \in SUBSET Earlier(s, j)
      BY <1>0, <2>1 DEF Earlier, Before
    <3>2. i \in Earlier(s, j) /\ i \notin Earlier(s, i)
      BY <1>0, <2>1 DEF Earlier, Before
    <3>3. /\ Cardinality(Earlier(s, i)) <= Cardinality(Earlier(s, j))
          /\ Cardinality(Earlier(s, i)) # Cardinality(Earlier(s, j))
      BY <3>1, <3>2, <1>1, FS_Subset
    <3> QED BY <3>3, <1>1
  <2>2. \A i, j \in D : i = j \/ Before(s, i, j) \/ Before(s, j, i)
    BY <1>0 DEF Before
  <2> QED BY <2>1, <2>2, <1>1 DEF Rank
<1>4. \A n \in D : \E i \in D : Rank(s, i) = n
  <2> DEFINE f == [i \in D |-> Rank(s, i)]
  <2>1. f \in Injection(D, D)
    BY <1>2, <1>3 DEF Injection, IsInjective
  <2>2. f \in Surjection(D, D)
    BY <2>1, <1>0, FS_Interval, FS_Injection
  <2> QED BY <2>2 DEF Surjection
<1>5. SortArray(s) = [n \in D |-> CHOOSE i \in D : Rank(s, i) = n]
  BY DEF SortArray, Rank, Earlier
<1>6. \A n \in D : SortArray(s)[n] \in D /\ Rank(s, SortArray(s)[n]) = n
  BY <1>4, <1>5
<1>7. \A i \in D : SortArray(s)[Rank(s, i)] = i
  BY <1>2, <1>3, <1>6
<1> QED BY <1>2, <1>5, <1>6, <1>7

(* The order of the scan depends on the tokens alone.                      *)
LEMMA SortSame ==
  ASSUME NEW s \in Seq(Tokref), NEW r \in Seq(Tokref), Len(r) = Len(s),
         \A i \in 1 .. Len(s) : r[i].tok = s[i].tok
  PROVE  SortArray(r) = SortArray(s)
<1>1. \A i, j \in 1 .. Len(s) : Before(r, i, j) <=> Before(s, i, j)
  BY DEF Before
<1>2. \A i \in 1 .. Len(s) : Earlier(r, i) = Earlier(s, i)
  BY <1>1 DEF Earlier
<1>3. \A i \in 1 .. Len(s) : Rank(r, i) = Rank(s, i)
  BY <1>2 DEF Rank
<1> DEFINE pick(q, n) == CHOOSE i \in 1 .. Len(s) : Rank(q, i) = n
<1>4. /\ SortArray(r) = [n \in 1 .. Len(s) |-> pick(r, n)]
      /\ SortArray(s) = [n \in 1 .. Len(s) |-> pick(s, n)]
  BY DEF SortArray, Rank, Earlier
<1>5. \A n \in 1 .. Len(s) : pick(r, n) = pick(s, n)
  BY <1>3
<1> HIDE DEF pick
<1> QED BY <1>4, <1>5

-----------------------------------------------------------------------------
(* Where a cpu is.                                                         *)

PCs == {"run", "asleep", "try", "setref", "setreq", "rel", "relcas"}
Ctxs == {"none", "get", "trytoken", "reltoken", "yield", "sleep", "getall", "undo"}

LocalType ==
  /\ toks \in [Thread -> Seq(Tokref)]
  /\ pc \in [Thread -> PCs]
  /\ ctx \in [Thread -> Ctxs]
  /\ cur \in [Thread -> 0 .. MaxRefs]
  /\ spin \in [Thread -> 0 .. TokenSpin]
  /\ spinning \in [Thread -> 0 .. SpinLoops]
  /\ sorted \in [Thread -> BOOLEAN]
  /\ idle \in [Thread -> BOOLEAN]

(* The caller, the place in the stack and the order of the scan agree.     *)
Placed(t) ==
  /\ Len(toks[t]) <= MaxRefs
  /\ pc[t] \in {"run", "asleep"} => ctx[t] = "none" /\ cur[t] = 0
  /\ pc[t] \in {"try", "setref", "setreq"} => ctx[t] \in {"get", "trytoken", "getall"}
  /\ pc[t] \in {"rel", "relcas"} => ctx[t] \in {"reltoken", "yield", "sleep", "undo"}
  /\ pc[t] \notin {"run", "asleep"} => cur[t] \in 1 .. Len(toks[t])
  /\ ctx[t] \in {"get", "trytoken", "reltoken"} => cur[t] = Len(toks[t])
  /\ sorted[t] => ctx[t] \in {"getall", "undo"}
  /\ pc[t] = "asleep" => Len(toks[t]) > 0

LocalInv == LocalType /\ \A t \in Thread : Placed(t)

(* Nothing of the other threads changes.                                   *)
Alone(t) ==
  \A u \in Thread \ {t} :
    /\ toks'[u] = toks[u] /\ pc'[u] = pc[u] /\ ctx'[u] = ctx[u]
    /\ cur'[u] = cur[u] /\ sorted'[u] = sorted[u]

(* What LocalInv says of one thread.                                       *)
LEMMA LocalFacts ==
  ASSUME LocalInv, NEW t \in Thread
  PROVE  /\ toks[t] \in Seq(Tokref) /\ Len(toks[t]) \in Nat
         /\ pc[t] \in PCs /\ ctx[t] \in Ctxs /\ cur[t] \in Nat
         /\ sorted[t] \in BOOLEAN /\ Placed(t)
         /\ pc[t] \notin {"run", "asleep"} => Len(toks[t]) > 0
<1>1. toks[t] \in Seq(Tokref) /\ Placed(t) /\ pc[t] \in PCs /\ ctx[t] \in Ctxs
      /\ cur[t] \in 0 .. MaxRefs /\ sorted[t] \in BOOLEAN
  BY DEF LocalInv, LocalType
<1>2. Len(toks[t]) \in Nat
  BY <1>1
<1>3. pc[t] \notin {"run", "asleep"} => cur[t] \in 1 .. Len(toks[t])
  BY <1>1 DEF Placed
<1> QED BY <1>1, <1>2, <1>3, TokBoundAssumption

(* A step of t alone keeps LocalInv if it keeps it for t.                  *)
LEMMA LocalByThread ==
  ASSUME LocalInv, LocalType', NEW t \in Thread, Alone(t), Placed(t)'
  PROVE  LocalInv'
BY DEF LocalInv, Alone, Placed

(* What is left of the stack when the last reference is popped.            *)
LEMMA PopTokref ==
  ASSUME NEW s \in Seq(Tokref), Len(s) > 0
  PROVE  LET r == SubSeq(s, 1, Len(s) - 1)
         IN  /\ r \in Seq(Tokref) /\ Len(r) = Len(s) - 1
             /\ \A i \in 1 .. Len(s) - 1 : r[i] = s[i]
<1>1. Len(s) \in Nat /\ \A i \in 1 .. Len(s) - 1 : s[i] \in Tokref
  OBVIOUS
<1> DEFINE n == Len(s) - 1
           r == SubSeq(s, 1, n)
<1>2. n \in Nat /\ \A i \in 1 .. n : s[i] \in Tokref
  BY <1>1
<1> HIDE DEF n
<1>3. r \in Seq(Tokref) /\ Len(r) = (IF 1 <= n THEN n - 1 + 1 ELSE 0)
      /\ \A i \in 1 .. n - 1 + 1 : r[i] = s[1 + i - 1]
  BY <1>2, SubSeqProperties
<1> HIDE DEF r
<1>4. Len(r) = n /\ \A i \in 1 .. n : r[i] = s[i]
  BY <1>2, <1>3
<1> QED BY <1>3, <1>4 DEF r, n

(* What a stack is with one more reference.                                *)
LEMMA PushTokref ==
  ASSUME NEW s \in Seq(Tokref), NEW e \in Tokref
  PROVE  LET r == Append(s, e)
         IN  /\ r \in Seq(Tokref) /\ Len(r) = Len(s) + 1
             /\ \A i \in 1 .. Len(s) : r[i] = s[i]
             /\ r[Len(s) + 1] = e
  OBVIOUS

(* What a stack is with another reference at n.                            *)
LEMMA ReplaceTokref ==
  ASSUME NEW s \in Seq(Tokref), NEW n \in 1 .. Len(s), NEW e \in Tokref, NEW r,
         r = [s EXCEPT ![n] = e]
  PROVE  /\ r \in Seq(Tokref) /\ Len(r) = Len(s) /\ r[n] = e
         /\ \A i \in 1 .. Len(s) : i # n => r[i] = s[i]
<1> DEFINE T == Tokref
<1>1. s \in Seq(T) /\ e \in T
  OBVIOUS
<1> HIDE DEF T
<1>2. /\ r \in Seq(T) /\ Len(r) = Len(s)
      /\ \A i \in 1 .. Len(s) : r[i] = IF i = n THEN e ELSE s[i]
  BY <1>1, ExceptSeq
<1> QED BY <1>2 DEF T

(* A reference is what its two fields are.                                 *)
LEMMA TokrefFields ==
  ASSUME NEW x \in Tokref, NEW b \in BOOLEAN
  PROVE  /\ x = [tok |-> x.tok, ex |-> x.ex] /\ x.tok \in Token /\ x.ex \in BOOLEAN
         /\ [x EXCEPT !.ex = b] = [tok |-> x.tok, ex |-> b]
         /\ [tok |-> x.tok, ex |-> b] \in Tokref
<1>1. [x EXCEPT !.ex = b] \in Tokref
  BY SMT DEF Tokref
<1>2. [tok |-> x.tok, ex |-> b] \in Tokref
  BY SMT DEF Tokref
<1>3. [x EXCEPT !.ex = b].ex = b /\ [x EXCEPT !.ex = b].tok = x.tok
  BY DEF Tokref
<1>4. [x EXCEPT !.ex = b] = [tok |-> x.tok, ex |-> b]
  BY <1>1, <1>2, <1>3, SMT DEF Tokref
<1>5. x = [tok |-> x.tok, ex |-> x.ex] /\ x.tok \in Token /\ x.ex \in BOOLEAN
  BY SMT DEF Tokref
<1> QED BY <1>2, <1>4, <1>5

(* At() moves one thread.                                                  *)
LEMMA AtLocal ==
  ASSUME LocalInv, NEW t \in Thread, NEW p \in PCs, NEW c \in Ctxs,
         NEW n \in 0 .. MaxRefs, At(t, p, c, n), toks' = toks,
         spinning' \in [Thread -> 0 .. SpinLoops], idle' \in [Thread -> BOOLEAN],
         sorted' \in [Thread -> BOOLEAN],
         \A u \in Thread \ {t} : sorted'[u] = sorted[u]
  PROVE  /\ LocalType' /\ Alone(t)
         /\ toks'[t] = toks[t] /\ pc'[t] = p /\ ctx'[t] = c /\ cur'[t] = n
<1>1. 0 \in 0 .. TokenSpin
  BY TokBoundAssumption
<1> QED BY <1>1 DEF LocalInv, LocalType, At, Alone

(* Run() makes it run.                                                     *)
LEMMA RunLocal ==
  ASSUME LocalInv, NEW t \in Thread, Run(t), toks' \in [Thread -> Seq(Tokref)],
         Len(toks'[t]) <= Len(toks[t]), Len(toks'[t]) \in Nat,
         \A u \in Thread \ {t} : toks'[u] = toks[u]
  PROVE  /\ LocalType' /\ Alone(t) /\ Placed(t)'
         /\ pc'[t] = "run" /\ ctx'[t] = "none" /\ cur'[t] = 0 /\ ~sorted'[t]
<1>1. 0 \in 0 .. TokenSpin /\ 0 \in 0 .. SpinLoops /\ 0 \in 0 .. MaxRefs
  BY TokBoundAssumption
<1>2. LocalType' /\ Alone(t)
  BY <1>1 DEF LocalInv, LocalType, Run, Alone, PCs, Ctxs
<1>3. pc'[t] = "run" /\ ctx'[t] = "none" /\ cur'[t] = 0 /\ ~sorted'[t]
  BY DEF LocalInv, LocalType, Run
<1>4. Len(toks[t]) <= MaxRefs /\ Len(toks[t]) \in Nat
  BY LocalFacts DEF Placed
<1>5. Placed(t)'
  BY <1>3, <1>4, TokBoundAssumption DEF Placed
<1> QED BY <1>2, <1>3, <1>5

(***************************************************************************)
(* The cpu goes on with the scan, or runs the thread.                      *)
(***************************************************************************)
AcquiredTo(t) ==
  \/ /\ pc'[t] = "try" /\ ctx[t] = "getall" /\ cur[t] < Len(toks[t])
     /\ ctx'[t] = "getall" /\ cur'[t] = cur[t] + 1 /\ sorted'[t] = sorted[t]
  \/ /\ pc'[t] = "run" /\ ctx'[t] = "none"
     /\ ctx[t] = "getall" => cur[t] = Len(toks[t])

(* Acquired(t) moves t, and no other thread, as AcquiredTo(t) says.        *)
LEMMA AcquiredLocal ==
  ASSUME LocalInv, NEW t \in Thread, pc[t] \in {"try", "setref"}, Acquired(t),
         toks' \in [Thread -> Seq(Tokref)], Len(toks'[t]) = Len(toks[t]),
         \A u \in Thread \ {t} : toks'[u] = toks[u]
  PROVE  LocalType' /\ Alone(t) /\ Placed(t)' /\ AcquiredTo(t)
<1> USE TokBoundAssumption DEF LocalInv, LocalType, Placed, Alone, PCs, Ctxs, AcquiredTo
<1>1. CASE ctx[t] = "getall" /\ cur[t] < Len(toks[t])
  <2>1. At(t, "try", "getall", cur[t] + 1) /\ UNCHANGED <<spinning, sorted, idle>>
    BY <1>1 DEF Acquired
  <2>2. cur[t] + 1 \in 1 .. Len(toks[t])
    BY <1>1
  <2> QED BY <2>1, <2>2, <1>1 DEF At
<1>2. CASE ~(ctx[t] = "getall" /\ cur[t] < Len(toks[t]))
  <2>1. Run(t)
    BY <1>2 DEF Acquired
  <2>2. ctx[t] = "getall" => cur[t] = Len(toks[t])
    <3>1. cur[t] \in 1 .. Len(toks[t]) /\ Len(toks[t]) \in Nat
      BY LocalFacts DEF Placed
    <3> QED BY <1>2, <3>1
  <2> QED BY <2>1, <2>2 DEF Run
<1> QED BY <1>1, <1>2

(* A round of lwkt_switch() begins.                                        *)
LEMMA RoundLocal ==
  ASSUME LocalInv, NEW t \in Thread, Len(toks[t]) > 0, UNCHANGED toks,
         NEW n \in 0 .. SpinLoops, Round(t, n)
  PROVE  /\ LocalType' /\ Alone(t) /\ Placed(t)'
         /\ pc'[t] = "try" /\ ctx'[t] = "getall" /\ cur'[t] = 1
<1>1. /\ At(t, "try", "getall", 1) /\ spinning' \in [Thread -> 0 .. SpinLoops]
      /\ idle' \in [Thread -> BOOLEAN] /\ sorted' \in [Thread -> BOOLEAN]
      /\ \A u \in Thread \ {t} : sorted'[u] = sorted[u]
  BY DEF Round, LocalInv, LocalType
<1>2. 1 \in 0 .. MaxRefs /\ "try" \in PCs /\ "getall" \in Ctxs
  BY TokBoundAssumption DEF PCs, Ctxs
<1>3. /\ LocalType' /\ Alone(t)
      /\ pc'[t] = "try" /\ ctx'[t] = "getall" /\ cur'[t] = 1 /\ toks'[t] = toks[t]
  BY <1>1, <1>2, AtLocal
<1>4. Placed(t)'
  BY <1>3, LocalFacts DEF Placed
<1> QED BY <1>3, <1>4

(* The same after a failed scan.                                           *)
LEMMA ContestedLocal ==
  ASSUME LocalInv, NEW t \in Thread, Len(toks[t]) > 0, UNCHANGED toks, Contested(t)
  PROVE  /\ LocalType' /\ Alone(t) /\ Placed(t)'
         /\ pc'[t] = "try" /\ ctx'[t] = "getall" /\ cur'[t] = 1
<1> DEFINE n == IF idle[t] THEN 0
                ELSE IF spinning[t] < SpinLoops THEN spinning[t] + 1 ELSE SpinLoops
<1>1. n \in 0 .. SpinLoops
  BY TokBoundAssumption DEF LocalInv, LocalType
<1>2. Round(t, n)
  BY DEF Contested
<1> HIDE DEF n
<1> QED BY <1>1, <1>2, RoundLocal

(* lwkt_switch() has given up everything.                                  *)
LEMMA SwitchedLocal ==
  ASSUME LocalInv, NEW t \in Thread, Len(toks[t]) > 0, UNCHANGED toks,
         NEW c \in {"yield", "sleep"}, SwitchedOut(t, c), ~sorted[t]
  PROVE  /\ LocalType' /\ Alone(t) /\ Placed(t)'
         /\ \/ pc'[t] = "asleep"
            \/ pc'[t] = "try" /\ ctx'[t] = "getall" /\ cur'[t] = 1
<1>1. CASE c = "sleep"
  <2>1. At(t, "asleep", "none", 0) /\ UNCHANGED <<spinning, sorted, idle>>
    BY <1>1 DEF SwitchedOut
  <2>2. 0 \in 0 .. MaxRefs /\ "asleep" \in PCs /\ "none" \in Ctxs
    BY TokBoundAssumption DEF PCs, Ctxs
  <2>3. /\ spinning' \in [Thread -> 0 .. SpinLoops] /\ idle' \in [Thread -> BOOLEAN]
        /\ sorted' \in [Thread -> BOOLEAN]
        /\ \A u \in Thread : sorted'[u] = sorted[u]
    BY <2>1 DEF LocalInv, LocalType
  <2>4. /\ LocalType' /\ Alone(t) /\ toks'[t] = toks[t]
        /\ pc'[t] = "asleep" /\ ctx'[t] = "none" /\ cur'[t] = 0
    BY <2>1, <2>2, <2>3, AtLocal
  <2>5. Placed(t)'
    BY <2>3, <2>4, LocalFacts DEF Placed
  <2> QED BY <2>4, <2>5
<1>2. CASE c # "sleep"
  <2>1. Round(t, 0) /\ 0 \in 0 .. SpinLoops
    BY <1>2, TokBoundAssumption DEF SwitchedOut
  <2> QED BY <2>1, RoundLocal
<1> QED BY <1>1, <1>2

(***************************************************************************)
(* trytokref returned FALSE: the cpu tries again, gives up what is scanned *)
(* or goes on to the next round, or trytoken has popped its reference.     *)
(***************************************************************************)
FailedTo(t) ==
  \/ /\ pc'[t] = "try" /\ toks' = toks
     /\ ctx'[t] = ctx[t] /\ cur'[t] = cur[t] /\ sorted'[t] = sorted[t]
  \/ /\ pc'[t] = "rel" /\ toks' = toks /\ ctx[t] \in {"get", "getall"} /\ cur[t] > 1
     /\ ctx'[t] = (IF ctx[t] = "get" THEN "yield" ELSE "undo")
     /\ cur'[t] = cur[t] - 1 /\ sorted'[t] = sorted[t]
  \/ /\ pc'[t] = "try" /\ toks' = toks /\ ctx[t] \in {"get", "getall"} /\ cur[t] = 1
     /\ ctx'[t] = "getall" /\ cur'[t] = 1
  \/ /\ pc'[t] = "run" /\ ctx[t] = "trytoken" /\ ctx'[t] = "none"
     /\ toks' = [toks EXCEPT ![t] = SubSeq(@, 1, Len(@) - 1)]

(* The last reference of t's stack is popped and t runs.                   *)
LEMMA PopLocal ==
  ASSUME LocalInv, NEW t \in Thread, Len(toks[t]) > 0, Run(t),
         toks' = [toks EXCEPT ![t] = SubSeq(@, 1, Len(@) - 1)]
  PROVE  LocalType' /\ Alone(t) /\ Placed(t)' /\ pc'[t] = "run" /\ ctx'[t] = "none"
<1> DEFINE r == SubSeq(toks[t], 1, Len(toks[t]) - 1)
<1>1. toks \in [Thread -> Seq(Tokref)] /\ toks[t] \in Seq(Tokref) /\ Len(toks[t]) \in Nat
  BY LocalFacts DEF LocalInv, LocalType
<1>2. r \in Seq(Tokref) /\ Len(r) = Len(toks[t]) - 1
  BY <1>1, PopTokref
<1> HIDE DEF r
<1>3. toks' = [toks EXCEPT ![t] = r]
  BY DEF r
<1>4. toks' \in [Thread -> Seq(Tokref)] /\ toks'[t] = r
      /\ \A u \in Thread \ {t} : toks'[u] = toks[u]
  BY <1>1, <1>2, <1>3
<1>5. Len(toks'[t]) <= Len(toks[t]) /\ Len(toks'[t]) \in Nat
  BY <1>1, <1>2, <1>4
<1> QED BY <1>4, <1>5, RunLocal

(* At() with the rest of the scan as it is.                                *)
LEMMA MoveLocal ==
  ASSUME LocalInv, NEW t \in Thread, NEW p \in PCs, NEW c \in Ctxs,
         NEW n \in 0 .. MaxRefs, At(t, p, c, n),
         UNCHANGED <<toks, spinning, sorted, idle>>
  PROVE  /\ LocalType' /\ Alone(t)
         /\ toks'[t] = toks[t] /\ pc'[t] = p /\ ctx'[t] = c /\ cur'[t] = n
<1>1. /\ toks' = toks
      /\ spinning' \in [Thread -> 0 .. SpinLoops] /\ idle' \in [Thread -> BOOLEAN]
      /\ sorted' \in [Thread -> BOOLEAN]
      /\ \A u \in Thread \ {t} : sorted'[u] = sorted[u]
  BY DEF LocalInv, LocalType
<1> QED BY <1>1, AtLocal

(* Failed(t) moves t, and no other thread, as FailedTo(t) says.            *)
LEMMA FailedLocal ==
  ASSUME LocalInv, NEW t \in Thread, pc[t] \in {"try", "setreq"}, Failed(t)
  PROVE  LocalType' /\ Alone(t) /\ Placed(t)' /\ FailedTo(t)
<1>0. /\ toks[t] \in Seq(Tokref) /\ Len(toks[t]) \in Nat /\ Placed(t)
      /\ Len(toks[t]) > 0 /\ cur[t] \in 1 .. Len(toks[t]) /\ Len(toks[t]) <= MaxRefs
      /\ ctx[t] \in {"get", "trytoken", "getall"} /\ cur[t] \in Nat
      /\ ctx[t] = "get" => ~sorted[t]
  BY LocalFacts DEF Placed
<1>1. CASE Hard(t) /\ spin[t] < TokenSpin
  <2>1. /\ spin' = [spin EXCEPT ![t] = @ + 1]
        /\ pc' = [pc EXCEPT ![t] = "try"]
        /\ UNCHANGED <<toks, ctx, cur, spinning, sorted, idle>>
    BY <1>1 DEF Failed
  <2>2. spin[t] + 1 \in 0 .. TokenSpin /\ "try" \in PCs
    BY <1>1, TokBoundAssumption DEF LocalInv, LocalType, PCs
  <2>3. LocalType' /\ Alone(t) /\ pc'[t] = "try"
    BY <2>1, <2>2 DEF LocalInv, LocalType, Alone
  <2>4. Placed(t)'
    BY <2>1, <2>3, <1>0 DEF Placed
  <2>5. FailedTo(t)
    BY <2>1, <2>3 DEF FailedTo
  <2> QED BY <2>3, <2>4, <2>5
<1>2. ASSUME ~(Hard(t) /\ spin[t] < TokenSpin)
      PROVE  GetallFailed(t) \/ GetFailed(t) \/ TrytokenFailed(t)
  BY <1>2, Zenon DEF Failed
<1>3. ASSUME NEW c \in {"yield", "undo"}, cur[t] > 1,
             ctx[t] = (IF c = "yield" THEN "get" ELSE "getall"),
             At(t, "rel", c, cur[t] - 1), UNCHANGED <<toks, spinning, sorted, idle>>
      PROVE  LocalType' /\ Alone(t) /\ Placed(t)' /\ FailedTo(t)
  <2>1. cur[t] - 1 \in 0 .. MaxRefs /\ "rel" \in PCs /\ c \in Ctxs
    BY <1>0, <1>3, TokBoundAssumption DEF PCs, Ctxs
  <2>2. /\ LocalType' /\ Alone(t) /\ toks'[t] = toks[t]
        /\ pc'[t] = "rel" /\ ctx'[t] = c /\ cur'[t] = cur[t] - 1
    BY <1>3, <2>1, MoveLocal
  <2>3. sorted'[t] = sorted[t] /\ toks' = toks
    BY <1>3
  <2>4. cur[t] - 1 \in 1 .. Len(toks[t])
    BY <1>0, <1>3
  <2>5. Placed(t)'
    BY <2>2, <2>3, <2>4, <1>0, <1>3 DEF Placed
  <2>6. FailedTo(t)
    BY <2>2, <2>3, <1>3 DEF FailedTo
  <2> QED BY <2>2, <2>5, <2>6
<1>4. CASE GetallFailed(t)
  <2>0. ctx[t] = "getall" /\ toks' = toks
    BY <1>4 DEF GetallFailed
  <2>1. CASE cur[t] > 1
    <3>1. At(t, "rel", "undo", cur[t] - 1) /\ UNCHANGED <<toks, spinning, sorted, idle>>
      BY <1>4, <2>1 DEF GetallFailed
    <3> QED BY <3>1, <2>0, <2>1, <1>3
  <2>2. CASE ~(cur[t] > 1)
    <3>1. Contested(t) /\ cur[t] = 1
      BY <1>4, <2>2, <1>0 DEF GetallFailed
    <3> QED BY <3>1, <2>0, <1>0, ContestedLocal DEF FailedTo
  <2> QED BY <2>1, <2>2
<1>5. CASE GetFailed(t)
  <2>0. ctx[t] = "get" /\ toks' = toks
    BY <1>5 DEF GetFailed
  <2>1. CASE cur[t] > 1
    <3>1. At(t, "rel", "yield", cur[t] - 1) /\ UNCHANGED <<toks, spinning, sorted, idle>>
      BY <1>5, <2>1 DEF GetFailed
    <3> QED BY <3>1, <2>0, <2>1, <1>3
  <2>2. CASE ~(cur[t] > 1)
    <3>1. SwitchedOut(t, "yield") /\ cur[t] = 1
      BY <1>5, <2>2, <1>0 DEF GetFailed
    <3>2. Round(t, 0) /\ 0 \in 0 .. SpinLoops
      BY <3>1, TokBoundAssumption DEF SwitchedOut
    <3> QED BY <3>1, <3>2, <2>0, <1>0, RoundLocal DEF FailedTo
  <2> QED BY <2>1, <2>2
<1>6. CASE TrytokenFailed(t)
  <2>1. /\ ctx[t] = "trytoken" /\ Run(t)
        /\ toks' = [toks EXCEPT ![t] = SubSeq(@, 1, Len(@) - 1)]
    BY <1>6 DEF TrytokenFailed
  <2> QED BY <2>1, <1>0, PopLocal DEF FailedTo
<1> QED BY <1>1, <1>2, <1>4, <1>5, <1>6

(***************************************************************************)
(* A reference is released: the cpu goes on to the one below it, and from  *)
(* the last one to the next round or to sleep, or reltoken has popped it.  *)
(***************************************************************************)
ReleasedTo(t) ==
  \/ /\ pc'[t] = "run" /\ ctx[t] = "reltoken" /\ ctx'[t] = "none"
     /\ toks' = [toks EXCEPT ![t] = SubSeq(@, 1, Len(@) - 1)]
  \/ /\ pc'[t] = "rel" /\ toks' = toks /\ ctx[t] # "reltoken" /\ cur[t] > 1
     /\ ctx'[t] = ctx[t] /\ cur'[t] = cur[t] - 1 /\ sorted'[t] = sorted[t]
  \/ /\ toks' = toks /\ ctx[t] # "reltoken" /\ cur[t] = 1
     /\ \/ pc'[t] = "asleep" /\ ctx'[t] = "none"
        \/ pc'[t] = "try" /\ ctx'[t] = "getall" /\ cur'[t] = 1

(* Released(t) moves t, and no other thread, as ReleasedTo(t) says.        *)
LEMMA ReleasedLocal ==
  ASSUME LocalInv, NEW t \in Thread, pc[t] \in {"rel", "relcas"}, Released(t)
  PROVE  LocalType' /\ Alone(t) /\ Placed(t)' /\ ReleasedTo(t)
<1>0. /\ toks[t] \in Seq(Tokref) /\ Len(toks[t]) \in Nat /\ Placed(t)
      /\ Len(toks[t]) > 0 /\ cur[t] \in 1 .. Len(toks[t]) /\ Len(toks[t]) <= MaxRefs
      /\ ctx[t] \in {"reltoken", "yield", "sleep", "undo"} /\ cur[t] \in Nat
      /\ sorted[t] => ctx[t] = "undo"
  BY LocalFacts DEF Placed
<1>1. CASE ctx[t] = "reltoken"
  <2>1. Run(t) /\ toks' = [toks EXCEPT ![t] = SubSeq(@, 1, Len(@) - 1)]
    BY <1>1 DEF Released
  <2> QED BY <2>1, <1>1, <1>0, PopLocal DEF ReleasedTo
<1>2. CASE ctx[t] # "reltoken" /\ cur[t] > 1
  <2>1. /\ At(t, "rel", ctx[t], cur[t] - 1) /\ UNCHANGED <<toks, spinning, sorted, idle>>
    <3>1. ~(cur[t] = 1)
      BY <1>2
    <3> QED BY <1>2, <3>1, Zenon DEF Released
  <2>2. cur[t] - 1 \in 0 .. MaxRefs /\ "rel" \in PCs /\ ctx[t] \in Ctxs
    BY <1>0, <1>2, TokBoundAssumption DEF PCs, Ctxs
  <2>3. /\ LocalType' /\ Alone(t) /\ toks'[t] = toks[t]
        /\ pc'[t] = "rel" /\ ctx'[t] = ctx[t] /\ cur'[t] = cur[t] - 1
    BY <2>1, <2>2, MoveLocal
  <2>4. sorted'[t] = sorted[t] /\ toks' = toks
    BY <2>1
  <2>5. cur[t] - 1 \in 1 .. Len(toks[t])
    BY <1>0, <1>2
  <2>6. Placed(t)'
    BY <2>3, <2>4, <2>5, <1>0, <1>2 DEF Placed
  <2>7. ReleasedTo(t)
    BY <2>3, <2>4, <1>2 DEF ReleasedTo
  <2> QED BY <2>3, <2>6, <2>7
<1>3. CASE ctx[t] # "reltoken" /\ cur[t] = 1
  <2>1. /\ IF ctx[t] = "undo" THEN Contested(t) ELSE SwitchedOut(t, ctx[t])
        /\ UNCHANGED toks
    <3>1. ~(cur[t] > 1)
      BY <1>3
    <3> QED BY <1>3, <3>1, Zenon DEF Released
  <2>2. CASE ctx[t] = "undo"
    <3>1. Contested(t) /\ toks' = toks
      BY <2>1, <2>2
    <3> QED BY <3>1, <1>3, <1>0, ContestedLocal DEF ReleasedTo
  <2>3. CASE ctx[t] # "undo"
    <3>1. SwitchedOut(t, ctx[t]) /\ toks' = toks /\ ctx[t] \in {"yield", "sleep"} /\ ~sorted[t]
      BY <2>1, <2>3, <1>0, <1>3
    <3>2. /\ LocalType' /\ Alone(t) /\ Placed(t)'
          /\ \/ pc'[t] = "asleep"
             \/ pc'[t] = "try" /\ ctx'[t] = "getall" /\ cur'[t] = 1
      BY <3>1, <1>0, SwitchedLocal
    <3>3. pc'[t] = "asleep" => ctx'[t] = "none"
      BY <3>2 DEF Placed
    <3> QED BY <3>1, <3>2, <3>3, <1>3 DEF ReleasedTo
  <2> QED BY <2>2, <2>3
<1> QED BY <1>0, <1>1, <1>2, <1>3

-----------------------------------------------------------------------------
(* The step of one thread keeps every thread in its place.                 *)

(* What a step of t that is not a return does to t.                        *)
LEMMA PcLocal ==
  ASSUME LocalInv, NEW t \in Thread, NEW p \in PCs, pc' = [pc EXCEPT ![t] = p],
         UNCHANGED <<toks, ctx, scanVars>>,
         p \in {"setref", "setreq"} => pc[t] = "try",
         p \in {"rel", "relcas"} => pc[t] \in {"rel", "relcas"},
         p \notin {"run", "asleep", "try"}
  PROVE  LocalType' /\ Alone(t) /\ Placed(t)' /\ pc'[t] = p
<1>1. LocalType' /\ Alone(t) /\ pc'[t] = p
  BY DEF LocalInv, LocalType, Alone, scanVars
<1>2. toks' = toks /\ ctx' = ctx /\ cur' = cur /\ sorted' = sorted
  BY DEF scanVars
<1>3. Placed(t)'
  BY <1>1, <1>2, LocalFacts DEF Placed, PCs
<1> QED BY <1>1, <1>3

(* The reference being scanned is one of the stack's.                      *)
LEMMA ScanFacts ==
  ASSUME LocalInv, NEW t \in Thread, pc[t] \notin {"run", "asleep"}
  PROVE  /\ Scan(t) \in 1 .. Len(toks[t]) /\ Scan(t) \in Nat
         /\ Tr(t) \in Tokref /\ Tr(t).tok \in Token
<1>1. toks[t] \in Seq(Tokref) /\ cur[t] \in 1 .. Len(toks[t]) /\ Len(toks[t]) \in Nat
  BY LocalFacts DEF Placed
<1>2. Scan(t) \in 1 .. Len(toks[t])
  <2>1. SortArray(toks[t]) \in [1 .. Len(toks[t]) -> 1 .. Len(toks[t])]
    BY <1>1, SortIsPermutation
  <2> HIDE DEF SortArray
  <2> QED BY <1>1, <2>1 DEF Scan
<1>3. Tr(t) \in Tokref
  BY <1>1, <1>2 DEF Tr
<1>4. Tr(t).tok \in Token
  BY <1>3 DEF Tokref
<1> QED BY <1>1, <1>2, <1>3, <1>4

(* TryOwn makes the reference a shared one, and changes nothing else of it. *)
LEMMA OwnLocal ==
  ASSUME LocalInv, NEW t \in Thread, pc[t] = "try",
         toks' = [toks EXCEPT ![t][Scan(t)].ex = FALSE]
  PROVE  /\ toks' \in [Thread -> Seq(Tokref)] /\ Len(toks'[t]) = Len(toks[t])
         /\ \A u \in Thread \ {t} : toks'[u] = toks[u]
         /\ \A i \in 1 .. Len(toks[t]) : i # Scan(t) => toks'[t][i] = toks[t][i]
         /\ toks'[t][Scan(t)] = [tok |-> Tr(t).tok, ex |-> FALSE]
         /\ SortArray(toks'[t]) = SortArray(toks[t])
<1> DEFINE s == toks[t]
           n == Scan(t)
           e == [s[n] EXCEPT !.ex = FALSE]
           r == [s EXCEPT ![n] = e]
<1>1. toks \in [Thread -> Seq(Tokref)] /\ s \in Seq(Tokref) /\ n \in 1 .. Len(s)
      /\ Tr(t) \in Tokref /\ Tr(t) = s[n] /\ Len(s) \in Nat
  BY LocalFacts, ScanFacts DEF LocalInv, LocalType, Tr
<1>2. e = [tok |-> Tr(t).tok, ex |-> FALSE] /\ e \in Tokref
  <2>1. PICK b \in BOOLEAN : b = FALSE
    OBVIOUS
  <2>2. [Tr(t) EXCEPT !.ex = b] = [tok |-> Tr(t).tok, ex |-> b]
        /\ [tok |-> Tr(t).tok, ex |-> b] \in Tokref
    BY <1>1, TokrefFields
  <2> QED BY <1>1, <2>1, <2>2
<1>3. toks' = [toks EXCEPT ![t] = r]
  OBVIOUS
<1>r. r = [s EXCEPT ![n] = e]
  OBVIOUS
<1> HIDE DEF e, n, s, r
<1>4. /\ r \in Seq(Tokref) /\ Len(r) = Len(s) /\ r[n] = e
      /\ \A i \in 1 .. Len(s) : i # n => r[i] = s[i]
  <2>1. s \in Seq(Tokref) /\ n \in 1 .. Len(s) /\ e \in Tokref
    BY <1>1, <1>2
  <2> QED BY <2>1, <1>r, ReplaceTokref
<1>5. toks' \in [Thread -> Seq(Tokref)] /\ toks'[t] = r
      /\ \A u \in Thread \ {t} : toks'[u] = toks[u]
  BY <1>1, <1>3, <1>4
<1>6. \A i \in 1 .. Len(s) : r[i].tok = s[i].tok
  <2>1. e.tok = s[n].tok
    BY <1>1, <1>2
  <2> QED BY <1>4, <2>1
<1>7. SortArray(r) = SortArray(s)
  BY <1>1, <1>4, <1>6, SortSame
<1> QED BY <1>2, <1>4, <1>5, <1>7 DEF s, n

(* lwkt_token_swap() exchanges the two top references of t's stack.        *)
LEMMA SwapLocal ==
  ASSUME LocalInv, NEW t \in Thread, lwkt_token_swap(t)
  PROVE  /\ LocalType' /\ Alone(t) /\ Placed(t)'
         /\ Len(toks'[t]) = Len(toks[t]) /\ Len(toks[t]) >= 2
         /\ \A u \in Thread \ {t} : toks'[u] = toks[u]
         /\ LET n == Len(toks[t])
            IN  /\ toks'[t][n] = toks[t][n - 1] /\ toks'[t][n - 1] = toks[t][n]
                /\ \A i \in 1 .. n - 2 : toks'[t][i] = toks[t][i]
<1> DEFINE s == toks[t]
           n == Len(s)
           r == [s EXCEPT ![n] = s[n - 1], ![n - 1] = s[n]]
<1>1. /\ toks \in [Thread -> Seq(Tokref)] /\ s \in Seq(Tokref) /\ n \in Nat /\ n >= 2
      /\ pc[t] = "run"
  BY LocalFacts DEF LocalInv, LocalType, lwkt_token_swap
<1>2. toks' = [toks EXCEPT ![t] = r] /\ UNCHANGED <<pc, ctx, scanVars>>
  <2>1. toks' = [toks EXCEPT ![t][n] = toks[t][n - 1], ![t][n - 1] = toks[t][n]]
    BY DEF lwkt_token_swap
  <2>2. [toks EXCEPT ![t][n] = toks[t][n - 1], ![t][n - 1] = toks[t][n]]
          = [toks EXCEPT ![t] = r]
    BY <1>1
  <2> QED BY <2>1, <2>2 DEF lwkt_token_swap
<1>3. s[n] \in Tokref /\ s[n - 1] \in Tokref /\ s = [i \in 1 .. n |-> s[i]]
  BY <1>1
<1>4. /\ r \in Seq(Tokref) /\ Len(r) = n /\ r[n] = s[n - 1] /\ r[n - 1] = s[n]
      /\ \A i \in 1 .. n - 2 : r[i] = s[i]
  <2> DEFINE q == [s EXCEPT ![n] = s[n - 1]]
  <2>1. n \in 1 .. Len(s) /\ n - 1 \in 1 .. Len(s) /\ n - 1 # n
    BY <1>1
  <2>2. /\ q \in Seq(Tokref) /\ Len(q) = n /\ q[n] = s[n - 1]
        /\ \A i \in 1 .. n : i # n => q[i] = s[i]
    BY <1>1, <1>3, <2>1, ReplaceTokref
  <2>3. r = [q EXCEPT ![n - 1] = s[n]]
    OBVIOUS
  <2> HIDE DEF q, r, s
  <2>4. /\ r \in Seq(Tokref) /\ Len(r) = n /\ r[n - 1] = s[n]
        /\ \A i \in 1 .. n : i # n - 1 => r[i] = q[i]
    <3>1. q \in Seq(Tokref) /\ n - 1 \in 1 .. Len(q) /\ s[n] \in Tokref /\ Len(q) = n
      BY <1>3, <2>1, <2>2
    <3> HIDE DEF n
    <3> QED BY <2>3, <3>1, ReplaceTokref
  <2> QED BY <1>1, <2>1, <2>2, <2>4
<1> HIDE DEF r, s
<1>5. toks' \in [Thread -> Seq(Tokref)] /\ toks'[t] = r
      /\ \A u \in Thread \ {t} : toks'[u] = toks[u]
  BY <1>1, <1>2, <1>4
<1>6. LocalType' /\ Alone(t)
  BY <1>2, <1>5 DEF LocalInv, LocalType, Alone, scanVars
<1>7. Placed(t)
  BY LocalFacts
<1>8. Placed(t)'
  BY <1>1, <1>2, <1>4, <1>5, <1>7 DEF Placed, s, scanVars
<1> QED BY <1>1, <1>4, <1>5, <1>6, <1>8 DEF s

-----------------------------------------------------------------------------
(* What a thread holds.                                                    *)

(* The order of t's scan, and the references among the first n of it.      *)
Order(t, j) == IF sorted[t] THEN SortArray(toks[t])[j] ELSE j
Scanned(t, n) == {Order(t, j) : j \in 1 .. n}

(* The scan's next reference is none of those before it, and the whole     *)
(* scan is the whole stack.                                                *)
LEMMA ScannedFacts ==
  ASSUME LocalInv, NEW t \in Thread
  PROVE  /\ Scan(t) = Order(t, cur[t])
         /\ Scanned(t, 0) = {} /\ Scanned(t, Len(toks[t])) = 1 .. Len(toks[t])
         /\ \A n \in 0 .. Len(toks[t]) : Scanned(t, n) \subseteq 1 .. Len(toks[t])
         /\ \A n \in 1 .. Len(toks[t]) :
              /\ Order(t, n) \notin Scanned(t, n - 1)
              /\ Scanned(t, n) = Scanned(t, n - 1) \cup {Order(t, n)}
<1> DEFINE s == toks[t]
           f == SortArray(s)
           D == 1 .. Len(s)
<1>1. s \in Seq(Tokref) /\ Len(s) \in Nat
  BY LocalFacts
<1>2. /\ f \in [D -> D] /\ \A m, n \in D : f[m] = f[n] => m = n
      /\ \A i \in D : \E n \in D : f[n] = i
  BY <1>1, SortIsPermutation
<1>3. Order(t, cur[t]) = Scan(t)
  BY DEF Order, Scan
<1>4. \A j : Order(t, j) = IF sorted[t] THEN f[j] ELSE j
  BY DEF Order
<1> HIDE DEF f
<1>5. /\ \A j \in D : Order(t, j) \in D
      /\ \A m, n \in D : Order(t, m) = Order(t, n) => m = n
      /\ \A i \in D : \E n \in D : Order(t, n) = i
  <2>1. CASE sorted[t]
    <3>1. \A j : Order(t, j) = f[j]
      BY <1>4, <2>1
    <3> HIDE DEF D
    <3> QED BY <1>2, <3>1
  <2>2. CASE ~sorted[t]
    BY <1>4, <2>2
  <2> QED BY <2>1, <2>2
<1>6. \A n \in 1 .. Len(s) : Order(t, n) \notin Scanned(t, n - 1)
  BY <1>1, <1>5 DEF Scanned
<1>7. \A n \in 1 .. Len(s) : Scanned(t, n) = Scanned(t, n - 1) \cup {Order(t, n)}
  <2> SUFFICES ASSUME NEW n \in 1 .. Len(s)
               PROVE  Scanned(t, n) = Scanned(t, n - 1) \cup {Order(t, n)}
    OBVIOUS
  <2>1. 1 .. n = (1 .. n - 1) \cup {n}
    BY <1>1
  <2> QED BY <2>1 DEF Scanned
<1>8. Scanned(t, 0) = {}
  BY DEF Scanned
<1>9. Scanned(t, Len(s)) = D /\ \A n \in 0 .. Len(s) : Scanned(t, n) \subseteq D
  BY <1>1, <1>5 DEF Scanned
<1> QED BY <1>3, <1>6, <1>7, <1>8, <1>9

(* Held, in these words.                                                   *)
LEMMA HeldFacts ==
  ASSUME LocalInv, NEW t \in Thread
  PROVE  /\ pc[t] = "run" => Held(t) = 1 .. Len(toks[t])
         /\ pc[t] = "asleep" => Held(t) = {}
         /\ pc[t] \in {"try", "setreq"} => Held(t) = Scanned(t, cur[t] - 1)
         /\ pc[t] \in {"setref", "rel", "relcas"} => Held(t) = Scanned(t, cur[t])
         /\ Held(t) \subseteq 1 .. Len(toks[t]) /\ 1 .. Len(toks[t]) \subseteq 1 .. MaxRefs
<1> DEFINE H1 == Scanned(t, cur[t] - 1)
           H2 == Scanned(t, cur[t])
<1>1. Held(t) = CASE pc[t] = "run"    -> 1 .. Len(toks[t])
                  [] pc[t] = "asleep" -> {}
                  [] pc[t] \in {"try", "setreq"} -> H1
                  [] OTHER -> H2
  BY DEF Held, Scanned, Order
<1>2. /\ Len(toks[t]) \in Nat /\ pc[t] \in PCs /\ Placed(t) /\ Len(toks[t]) <= MaxRefs
      /\ pc[t] \notin {"run", "asleep"} => cur[t] \in 1 .. Len(toks[t])
  BY LocalFacts DEF Placed
<1> HIDE DEF H1, H2
<1>3. /\ pc[t] = "run" => Held(t) = 1 .. Len(toks[t])
      /\ pc[t] = "asleep" => Held(t) = {}
      /\ pc[t] \in {"try", "setreq"} => Held(t) = H1
      /\ pc[t] \in {"setref", "rel", "relcas"} => Held(t) = H2
  BY <1>1
<1>4. /\ pc[t] \in {"try", "setreq"} => H1 \subseteq 1 .. Len(toks[t])
      /\ pc[t] \in {"setref", "rel", "relcas"} => H2 \subseteq 1 .. Len(toks[t])
  BY <1>2, ScannedFacts DEF H1, H2
<1>5. Held(t) \subseteq 1 .. Len(toks[t])
  BY <1>2, <1>3, <1>4 DEF PCs
<1>6. 1 .. Len(toks[t]) \subseteq 1 .. MaxRefs
  BY <1>2, TokBoundAssumption
<1> QED BY <1>3, <1>5, <1>6 DEF H1, H2

(* The references to k that are held, exclusively or not.                  *)
Refs(k, e) ==
  {r \in Ref : r[2] \in Held(r[1]) /\ toks[r[1]][r[2]] = [tok |-> k, ex |-> e]}

(* A step of another thread takes nothing away, and adds nothing.          *)
LEMMA HeldOther ==
  ASSUME NEW t \in Thread, Alone(t), NEW u \in Thread, u # t
  PROVE  Held(u)' = Held(u) /\ toks'[u] = toks[u] /\ Scan(u)' = Scan(u) /\ Tr(u)' = Tr(u)
         /\ pc'[u] = pc[u]
<1>1. /\ toks'[u] = toks[u] /\ pc'[u] = pc[u] /\ ctx'[u] = ctx[u]
      /\ cur'[u] = cur[u] /\ sorted'[u] = sorted[u]
  BY DEF Alone
<1> QED BY <1>1 DEF Held, Scan, Tr

(* A step after which t holds what it held.                                *)
LEMMA RefsSame ==
  ASSUME LocalInv, NEW t \in Thread, Alone(t), Held(t)' = Held(t),
         \A i \in Held(t) : toks'[t][i] = toks[t][i], NEW k, NEW e
  PROVE  Refs(k, e)' = Refs(k, e)
<1>1. \A r \in Ref : /\ r[1] \in Thread
                     /\ (r[2] \in Held(r[1]))' <=> r[2] \in Held(r[1])
                     /\ r[2] \in Held(r[1]) => toks'[r[1]][r[2]] = toks[r[1]][r[2]]
  <2> TAKE r \in Ref
  <2>1. r[1] \in Thread
    BY DEF Ref
  <2>2. CASE r[1] = t
    BY <2>2
  <2>3. CASE r[1] # t
    BY <2>1, <2>3, HeldOther
  <2> QED BY <2>1, <2>2, <2>3
<1> QED BY <1>1 DEF Refs

(* A step after which t holds reference n too.                             *)
LEMMA RefsAdd ==
  ASSUME LocalInv, NEW t \in Thread, Alone(t), NEW n \in 1 .. Len(toks[t]),
         n \notin Held(t), Held(t)' = Held(t) \cup {n},
         \A i \in Held(t) : toks'[t][i] = toks[t][i],
         NEW k, NEW e, toks'[t][n] = [tok |-> k, ex |-> e]
  PROVE  /\ <<t, n>> \notin Refs(k, e) /\ Refs(k, e)' = Refs(k, e) \cup {<<t, n>>}
         /\ \A k2, e2 : k2 # k \/ e2 # e => Refs(k2, e2)' = Refs(k2, e2)
<1>0. <<t, n>> \in Ref
  BY HeldFacts DEF Ref
<1>1. \A r \in Ref : /\ r[1] \in Thread
                     /\ r # <<t, n>> =>
                          /\ (r[2] \in Held(r[1]))' <=> r[2] \in Held(r[1])
                          /\ r[2] \in Held(r[1]) => toks'[r[1]][r[2]] = toks[r[1]][r[2]]
  <2> TAKE r \in Ref
  <2>1. r[1] \in Thread /\ r = <<r[1], r[2]>>
    BY DEF Ref
  <2>2. CASE r[1] = t
    BY <2>1, <2>2
  <2>3. CASE r[1] # t
    BY <2>1, <2>3, HeldOther
  <2> QED BY <2>1, <2>2, <2>3
<1>2. <<t, n>> \notin Refs(k, e)
  BY DEF Refs
<1>3. \A k2, e2 : \A r \in Ref : r # <<t, n>> => (r \in Refs(k2, e2)' <=> r \in Refs(k2, e2))
  BY <1>1 DEF Refs
<1>4. \A k2, e2 : <<t, n>> \in Refs(k2, e2)' <=> (k2 = k /\ e2 = e)
  <2> SUFFICES ASSUME NEW k2, NEW e2
               PROVE  <<t, n>> \in Refs(k2, e2)' <=> (k2 = k /\ e2 = e)
    OBVIOUS
  <2>1. [tok |-> k, ex |-> e] = [tok |-> k2, ex |-> e2] <=> (k2 = k /\ e2 = e)
    OBVIOUS
  <2>2. PICK p : p = <<t, n>> /\ p[1] = t /\ p[2] = n /\ p \in Ref
    BY <1>0
  <2>3. p \in Refs(k2, e2)' <=> [tok |-> k, ex |-> e] = [tok |-> k2, ex |-> e2]
    BY <2>2 DEF Refs
  <2> QED BY <2>1, <2>2, <2>3
<1>5. \A k2, e2 : <<t, n>> \notin Refs(k2, e2)
  BY DEF Refs
<1>6. \A k2, e2 : Refs(k2, e2) \subseteq Ref /\ Refs(k2, e2)' \subseteq Ref
  BY DEF Refs, Ref
<1>7. PICK p : p = <<t, n>>
  OBVIOUS
<1>8. Refs(k, e)' = Refs(k, e) \cup {p}
  <2>1. p \in Refs(k, e)'
    BY <1>4, <1>7
  <2>2. \A r \in Ref : r # p => (r \in Refs(k, e)' <=> r \in Refs(k, e))
    BY <1>3, <1>7
  <2> QED BY <1>6, <2>1, <2>2
<1>9. ASSUME NEW k2, NEW e2, k2 # k \/ e2 # e PROVE Refs(k2, e2)' = Refs(k2, e2)
  <2>1. p \notin Refs(k2, e2)' /\ p \notin Refs(k2, e2)
    BY <1>4, <1>5, <1>7, <1>9
  <2>2. PICK A, B : A = Refs(k2, e2) /\ B = Refs(k2, e2)'
    OBVIOUS
  <2>3. \A r \in Ref : r # p => (r \in B <=> r \in A)
    BY <1>3, <1>7, <2>2
  <2>4. A \subseteq Ref /\ B \subseteq Ref /\ p \notin A /\ p \notin B
    BY <1>6, <2>1, <2>2
  <2>5. A = B
    <3>1. ASSUME NEW r PROVE r \in A <=> r \in B
      <4>1. CASE r = p
        BY <2>4, <4>1
      <4>2. CASE r \in Ref /\ r # p
        BY <2>3, <4>2
      <4>3. CASE r \notin Ref
        BY <2>4, <4>3
      <4> QED BY <4>1, <4>2, <4>3
    <3> QED BY <3>1
  <2> QED BY <2>2, <2>5
<1> QED BY <1>2, <1>7, <1>8, <1>9

(* A step after which t no longer holds reference n.                       *)
LEMMA RefsRemove ==
  ASSUME LocalInv, NEW t \in Thread, Alone(t), NEW n \in Held(t),
         Held(t)' = Held(t) \ {n},
         \A i \in Held(t) \ {n} : toks'[t][i] = toks[t][i],
         NEW k, NEW e, toks[t][n] = [tok |-> k, ex |-> e]
  PROVE  /\ <<t, n>> \in Refs(k, e) /\ Refs(k, e)' = Refs(k, e) \ {<<t, n>>}
         /\ \A k2, e2 : k2 # k \/ e2 # e => Refs(k2, e2)' = Refs(k2, e2)
<1>0. <<t, n>> \in Ref
  BY HeldFacts DEF Ref
<1>1. \A r \in Ref : /\ r[1] \in Thread
                     /\ r # <<t, n>> =>
                          /\ (r[2] \in Held(r[1]))' <=> r[2] \in Held(r[1])
                          /\ r[2] \in Held(r[1]) => toks'[r[1]][r[2]] = toks[r[1]][r[2]]
  <2> TAKE r \in Ref
  <2>1. r[1] \in Thread /\ r = <<r[1], r[2]>>
    BY DEF Ref
  <2>2. CASE r[1] = t
    BY <2>1, <2>2
  <2>3. CASE r[1] # t
    BY <2>1, <2>3, HeldOther
  <2> QED BY <2>1, <2>2, <2>3
<1>2. <<t, n>> \in Refs(k, e)
  BY <1>0 DEF Refs
<1>3. \A k2, e2 : \A r \in Ref : r # <<t, n>> => (r \in Refs(k2, e2)' <=> r \in Refs(k2, e2))
  BY <1>1 DEF Refs
<1>4. \A k2, e2 : <<t, n>> \in Refs(k2, e2) <=> (k2 = k /\ e2 = e)
  <2> SUFFICES ASSUME NEW k2, NEW e2
               PROVE  <<t, n>> \in Refs(k2, e2) <=> (k2 = k /\ e2 = e)
    OBVIOUS
  <2>1. [tok |-> k, ex |-> e] = [tok |-> k2, ex |-> e2] <=> (k2 = k /\ e2 = e)
    OBVIOUS
  <2>2. PICK p : p = <<t, n>> /\ p[1] = t /\ p[2] = n /\ p \in Ref
    BY <1>0
  <2>3. p \in Refs(k2, e2) <=> [tok |-> k, ex |-> e] = [tok |-> k2, ex |-> e2]
    BY <2>2 DEF Refs
  <2> QED BY <2>1, <2>2, <2>3
<1>5. \A k2, e2 : <<t, n>> \notin Refs(k2, e2)'
  BY DEF Refs
<1>6. \A k2, e2 : Refs(k2, e2) \subseteq Ref /\ Refs(k2, e2)' \subseteq Ref
  BY DEF Refs, Ref
<1>7. PICK p : p = <<t, n>>
  OBVIOUS
<1>8. Refs(k, e)' = Refs(k, e) \ {p}
  <2>1. p \notin Refs(k, e)'
    BY <1>5, <1>7
  <2>2. \A r \in Ref : r # p => (r \in Refs(k, e)' <=> r \in Refs(k, e))
    BY <1>3, <1>7
  <2> QED BY <1>6, <2>1, <2>2
<1>9. ASSUME NEW k2, NEW e2, k2 # k \/ e2 # e PROVE Refs(k2, e2)' = Refs(k2, e2)
  <2>1. p \notin Refs(k2, e2)' /\ p \notin Refs(k2, e2)
    BY <1>4, <1>5, <1>7, <1>9
  <2>2. PICK A, B : A = Refs(k2, e2) /\ B = Refs(k2, e2)'
    OBVIOUS
  <2>3. \A r \in Ref : r # p => (r \in B <=> r \in A)
    BY <1>3, <1>7, <2>2
  <2>4. A \subseteq Ref /\ B \subseteq Ref /\ p \notin A /\ p \notin B
    BY <1>6, <2>1, <2>2
  <2>5. A = B
    <3>1. ASSUME NEW r PROVE r \in A <=> r \in B
      <4>1. CASE r = p
        BY <2>4, <4>1
      <4>2. CASE r \in Ref /\ r # p
        BY <2>3, <4>2
      <4>3. CASE r \notin Ref
        BY <2>4, <4>3
      <4> QED BY <4>1, <4>2, <4>3
    <3> QED BY <3>1
  <2> QED BY <2>2, <2>5
<1> QED BY <1>2, <1>7, <1>8, <1>9

(* The same in the next state.                                             *)
LEMMA HeldNext ==
  ASSUME NEW t \in Thread
  PROVE  /\ pc'[t] = "run" => Held(t)' = 1 .. Len(toks'[t])
         /\ pc'[t] = "asleep" => Held(t)' = {}
         /\ pc'[t] \in {"try", "setreq"} => Held(t)' = Scanned(t, cur[t] - 1)'
         /\ pc'[t] \in {"setref", "rel", "relcas"} => Held(t)' = Scanned(t, cur[t])'
<1> DEFINE H1 == Scanned(t, cur[t] - 1)'
           H2 == Scanned(t, cur[t])'
<1>1. Held(t)' = CASE pc'[t] = "run"    -> 1 .. Len(toks'[t])
                   [] pc'[t] = "asleep" -> {}
                   [] pc'[t] \in {"try", "setreq"} -> H1
                   [] OTHER -> H2
  BY DEF Held, Scanned, Order
<1> HIDE DEF H1, H2
<1>2. /\ pc'[t] = "run" => Held(t)' = 1 .. Len(toks'[t])
      /\ pc'[t] = "asleep" => Held(t)' = {}
      /\ pc'[t] \in {"try", "setreq"} => Held(t)' = H1
      /\ pc'[t] \in {"setref", "rel", "relcas"} => Held(t)' = H2
  BY <1>1
<1> QED BY <1>2 DEF H1, H2

(* After an acquisition t holds everything up to the one it was trying.    *)
LEMMA AcquiredHeld ==
  ASSUME LocalInv, NEW t \in Thread, pc[t] \in {"try", "setref"}, Acquired(t),
         toks' \in [Thread -> Seq(Tokref)], Len(toks'[t]) = Len(toks[t]),
         \A u \in Thread \ {t} : toks'[u] = toks[u],
         SortArray(toks'[t]) = SortArray(toks[t])
  PROVE  LocalInv' /\ Alone(t) /\ AcquiredTo(t) /\ Held(t)' = Scanned(t, cur[t])
<1>1. LocalType' /\ Alone(t) /\ Placed(t)' /\ AcquiredTo(t)
  BY AcquiredLocal
<1>2. LocalInv'
  BY <1>1, LocalByThread
<1>3. /\ cur[t] \in 1 .. Len(toks[t]) /\ Len(toks[t]) \in Nat /\ cur[t] \in Nat
      /\ ctx[t] \in {"get", "trytoken", "getall"}
      /\ ctx[t] \in {"get", "trytoken"} => cur[t] = Len(toks[t])
  BY LocalFacts DEF Placed
<1>4. CASE pc'[t] = "try" /\ cur'[t] = cur[t] + 1 /\ sorted'[t] = sorted[t]
  <2>1. Held(t)' = Scanned(t, cur[t] - 1)'
    BY <1>4, HeldNext
  <2>2. cur'[t] - 1 = cur[t]
    BY <1>3, <1>4
  <2>3. Scanned(t, cur[t] - 1)' = Scanned(t, cur[t])
    BY <1>4, <2>2 DEF Scanned, Order
  <2> QED BY <1>1, <1>2, <2>1, <2>3
<1>5. CASE pc'[t] = "run" /\ (ctx[t] = "getall" => cur[t] = Len(toks[t]))
  <2>1. Held(t)' = 1 .. Len(toks'[t])
    BY <1>5, HeldNext
  <2>2. cur[t] = Len(toks[t])
    BY <1>3, <1>5
  <2>3. Scanned(t, cur[t]) = 1 .. Len(toks[t])
    BY <2>2, ScannedFacts
  <2> QED BY <1>1, <1>2, <2>1, <2>3
<1> QED BY <1>1, <1>4, <1>5 DEF AcquiredTo

(* The stack without its last reference.                                   *)
LEMMA PopHeld ==
  ASSUME LocalInv, LocalInv', NEW t \in Thread, Len(toks[t]) > 0,
         cur[t] = Len(toks[t]), pc'[t] = "run", ~sorted[t],
         toks' = [toks EXCEPT ![t] = SubSeq(@, 1, Len(@) - 1)]
  PROVE  /\ Held(t)' = Scanned(t, cur[t] - 1)
         /\ \A i \in Scanned(t, cur[t] - 1) : toks'[t][i] = toks[t][i]
<1> DEFINE r == SubSeq(toks[t], 1, Len(toks[t]) - 1)
<1>1. toks \in [Thread -> Seq(Tokref)] /\ toks[t] \in Seq(Tokref) /\ Len(toks[t]) \in Nat
  BY LocalFacts DEF LocalInv, LocalType
<1>2. /\ r \in Seq(Tokref) /\ Len(r) = Len(toks[t]) - 1
      /\ \A i \in 1 .. Len(toks[t]) - 1 : r[i] = toks[t][i]
  BY <1>1, PopTokref
<1>3. toks'[t] = r
  BY <1>1
<1> HIDE DEF r
<1>4. Held(t)' = 1 .. Len(toks[t]) - 1
  BY <1>2, <1>3, HeldNext
<1>5. Scanned(t, cur[t] - 1) = 1 .. Len(toks[t]) - 1
  BY <1>1 DEF Scanned, Order
<1> QED BY <1>2, <1>3, <1>4, <1>5

(* After a failure t holds what it held.                                   *)
LEMMA FailedHeld ==
  ASSUME LocalInv, NEW t \in Thread, pc[t] \in {"try", "setreq"}, Failed(t)
  PROVE  /\ LocalInv' /\ Alone(t) /\ FailedTo(t) /\ Held(t)' = Held(t)
         /\ \A i \in Held(t) : toks'[t][i] = toks[t][i]
         /\ pc'[t] \notin {"setref", "relcas"}
<1>1. LocalType' /\ Alone(t) /\ Placed(t)' /\ FailedTo(t)
  BY FailedLocal
<1>2. LocalInv'
  BY <1>1, LocalByThread
<1>3. /\ cur[t] \in 1 .. Len(toks[t]) /\ Len(toks[t]) \in Nat /\ Len(toks[t]) > 0
      /\ ctx[t] = "trytoken" => cur[t] = Len(toks[t]) /\ ~sorted[t]
  BY LocalFacts DEF Placed
<1>4. Held(t) = Scanned(t, cur[t] - 1)
  BY HeldFacts
<1>a. CASE pc'[t] = "try" /\ toks' = toks /\ cur'[t] = cur[t] /\ sorted'[t] = sorted[t]
  <2>1. Held(t)' = Scanned(t, cur[t] - 1)'
    BY <1>a, HeldNext
  <2>2. Scanned(t, cur[t] - 1)' = Scanned(t, cur[t] - 1)
    BY <1>a DEF Scanned, Order
  <2> QED BY <1>1, <1>2, <1>4, <1>a, <2>1, <2>2
<1>b. CASE pc'[t] = "rel" /\ toks' = toks /\ cur'[t] = cur[t] - 1 /\ sorted'[t] = sorted[t]
  <2>1. Held(t)' = Scanned(t, cur[t])'
    BY <1>b, HeldNext
  <2>2. Scanned(t, cur[t])' = Scanned(t, cur[t] - 1)
    BY <1>b DEF Scanned, Order
  <2> QED BY <1>1, <1>2, <1>4, <1>b, <2>1, <2>2
<1>c. CASE pc'[t] = "try" /\ toks' = toks /\ cur[t] = 1 /\ cur'[t] = 1
  <2>1. Held(t)' = Scanned(t, cur[t] - 1)'
    BY <1>c, HeldNext
  <2>2. Scanned(t, cur[t] - 1)' = {} /\ Scanned(t, cur[t] - 1) = {}
    BY <1>c DEF Scanned
  <2> QED BY <1>1, <1>2, <1>4, <1>c, <2>1, <2>2
<1>d. CASE /\ pc'[t] = "run" /\ ctx[t] = "trytoken"
           /\ toks' = [toks EXCEPT ![t] = SubSeq(@, 1, Len(@) - 1)]
  <2>1. /\ Held(t)' = Scanned(t, cur[t] - 1)
        /\ \A i \in Scanned(t, cur[t] - 1) : toks'[t][i] = toks[t][i]
    BY <1>2, <1>3, <1>d, PopHeld
  <2> QED BY <1>1, <1>2, <1>4, <1>d, <2>1
<1> QED BY <1>1, <1>a, <1>b, <1>c, <1>d DEF FailedTo

(* After a release t holds everything below the released reference.        *)
LEMMA ReleasedHeld ==
  ASSUME LocalInv, NEW t \in Thread, pc[t] \in {"rel", "relcas"}, Released(t)
  PROVE  /\ LocalInv' /\ Alone(t) /\ ReleasedTo(t) /\ Scan(t) \in Held(t)
         /\ Held(t)' = Held(t) \ {Scan(t)}
         /\ \A i \in Held(t) \ {Scan(t)} : toks'[t][i] = toks[t][i]
         /\ pc'[t] \notin {"setref", "relcas"}
<1>1. LocalType' /\ Alone(t) /\ Placed(t)' /\ ReleasedTo(t)
  BY ReleasedLocal
<1>2. LocalInv'
  BY <1>1, LocalByThread
<1>3. /\ cur[t] \in 1 .. Len(toks[t]) /\ Len(toks[t]) \in Nat /\ Len(toks[t]) > 0
      /\ ctx[t] = "reltoken" => cur[t] = Len(toks[t]) /\ ~sorted[t]
  BY LocalFacts DEF Placed
<1>4. Scan(t) \in Held(t) /\ Scanned(t, cur[t] - 1) = Held(t) \ {Scan(t)}
  <2>1. Held(t) = Scanned(t, cur[t])
    BY HeldFacts
  <2>2. /\ Scan(t) \notin Scanned(t, cur[t] - 1)
        /\ Scanned(t, cur[t]) = Scanned(t, cur[t] - 1) \cup {Scan(t)}
    BY <1>3, ScannedFacts
  <2> QED BY <2>1, <2>2
<1>a. CASE /\ pc'[t] = "run" /\ ctx[t] = "reltoken"
           /\ toks' = [toks EXCEPT ![t] = SubSeq(@, 1, Len(@) - 1)]
  <2>1. /\ Held(t)' = Scanned(t, cur[t] - 1)
        /\ \A i \in Scanned(t, cur[t] - 1) : toks'[t][i] = toks[t][i]
    BY <1>2, <1>3, <1>a, PopHeld
  <2> QED BY <1>1, <1>2, <1>4, <1>a, <2>1
<1>b. CASE pc'[t] = "rel" /\ toks' = toks /\ cur'[t] = cur[t] - 1 /\ sorted'[t] = sorted[t]
  <2>1. Held(t)' = Scanned(t, cur[t])'
    BY <1>b, HeldNext
  <2>2. Scanned(t, cur[t])' = Scanned(t, cur[t] - 1)
    BY <1>b DEF Scanned, Order
  <2> QED BY <1>1, <1>2, <1>4, <1>b, <2>1, <2>2
<1>c. CASE pc'[t] = "try" /\ toks' = toks /\ cur[t] = 1 /\ cur'[t] = 1
  <2>1. Held(t)' = Scanned(t, cur[t] - 1)'
    BY <1>c, HeldNext
  <2>2. Scanned(t, cur[t] - 1)' = {} /\ Scanned(t, cur[t] - 1) = {}
    BY <1>c DEF Scanned
  <2> QED BY <1>1, <1>2, <1>4, <1>c, <2>1, <2>2
<1>d. CASE pc'[t] = "asleep" /\ toks' = toks /\ cur[t] = 1
  <2>1. Held(t)' = {}
    BY <1>d, HeldNext
  <2>2. Scanned(t, cur[t] - 1) = {}
    BY <1>d DEF Scanned
  <2> QED BY <1>1, <1>2, <1>4, <1>d, <2>1, <2>2
<1> QED BY <1>1, <1>a, <1>b, <1>c, <1>d DEF ReleasedTo

-----------------------------------------------------------------------------
(* The words and the references agree.                                     *)

WordType ==
  /\ t_count \in [Token -> Count]
  /\ t_ref \in [Token -> Ref \cup {NULL}]
  /\ seen \in [Thread -> Count]

(* t has TOK_EXCLUSIVE and has not recorded it yet, or no longer.          *)
Pending(t) == pc[t] \in {"setref", "relcas"}

Exact(k) ==
  /\ t_count[k].ex <=> Refs(k, TRUE) # {}
  /\ t_count[k].cnt = Cardinality(Refs(k, FALSE))
  /\ \A r, q \in Refs(k, TRUE) : r = q
  /\ \A r \in Refs(k, TRUE), q \in Refs(k, FALSE) : r[1] = q[1]
  /\ t_ref[k] # NULL => t_ref[k] \in Refs(k, TRUE)
  /\ \A r \in Refs(k, TRUE) :
       t_ref[k] = r \/ (t_ref[k] = NULL /\ Pending(r[1]) /\ Scan(r[1]) = r[2])

Withdrawn(t) ==
  Pending(t) => <<t, Scan(t)>> \in Refs(Tr(t).tok, TRUE) /\ t_ref[Tr(t).tok] = NULL

WordInv == (\A k \in Token : Exact(k)) /\ (\A t \in Thread : Withdrawn(t))

TokenInv == LocalInv /\ WordType /\ WordInv

(* A held reference is to one token, in one way.                           *)
LEMMA RefsFacts ==
  ASSUME NEW k, NEW e
  PROVE  /\ IsFiniteSet(Refs(k, e)) /\ Cardinality(Refs(k, e)) \in Nat
         /\ \A r \in Refs(k, e) :
              /\ r \in Ref /\ r[1] \in Thread /\ r = <<r[1], r[2]>> /\ r # NULL
              /\ \A k2, e2 : r \in Refs(k2, e2) => k2 = k /\ e2 = e
<1>1. IsFiniteSet(Ref)
  <2>1. IsFiniteSet(1 .. MaxRefs)
    BY FS_Interval, TokBoundAssumption
  <2> QED BY <2>1, FS_Product, TokThreadAssumption DEF Ref
<1>2. IsFiniteSet(Refs(k, e)) /\ Cardinality(Refs(k, e)) \in Nat
  <2>1. Refs(k, e) \in SUBSET Ref
    BY DEF Refs
  <2> QED BY <1>1, <2>1, FS_Subset, FS_CardinalityType
<1>3. \A r \in Ref : r[1] \in Thread /\ r = <<r[1], r[2]>> /\ r # NULL
  BY TokNullAssumption, TokBoundAssumption DEF Ref
<1>4. \A k2, e2 : [tok |-> k, ex |-> e] = [tok |-> k2, ex |-> e2] => k2 = k /\ e2 = e
  OBVIOUS
<1>5. \A r \in Refs(k, e) : \A k2, e2 : r \in Refs(k2, e2) => k2 = k /\ e2 = e
  BY <1>4 DEF Refs
<1>6. \A r \in Refs(k, e) : r \in Ref
  BY DEF Refs
<1> QED BY <1>2, <1>3, <1>5, <1>6

(* The fields of a word, and what becomes of them when one is changed.     *)
LEMMA CountFields ==
  ASSUME NEW w \in Count
  PROVE  w.ex \in BOOLEAN /\ w.req \in BOOLEAN /\ w.cnt \in Nat
BY SMT DEF Count

(* A word whose count is replaced.                                         *)
LEMMA CountCnt ==
  ASSUME NEW w \in Count, NEW n \in Nat, NEW x, x = [w EXCEPT !.cnt = n]
  PROVE  x \in Count /\ x.cnt = n /\ x.ex = w.ex
BY SMT DEF Count

(* A word whose TOK_EXCLUSIVE is replaced.                                 *)
LEMMA CountEx ==
  ASSUME NEW w \in Count, NEW b \in BOOLEAN, NEW x, x = [w EXCEPT !.ex = b]
  PROVE  x \in Count /\ x.ex = b /\ x.cnt = w.cnt
BY SMT DEF Count

(* A word whose TOK_EXCLREQ is replaced.                                   *)
LEMMA CountReq ==
  ASSUME NEW w \in Count, NEW b \in BOOLEAN, NEW x, x = [w EXCEPT !.req = b]
  PROVE  x \in Count /\ x.ex = w.ex /\ x.cnt = w.cnt
BY SMT DEF Count

(* The word of k is not touched, nor what is held of it.                   *)
LEMMA ExactOther ==
  ASSUME LocalInv, WordInv, NEW t \in Thread, Alone(t), NEW k \in Token,
         Refs(k, TRUE)' = Refs(k, TRUE), Refs(k, FALSE)' = Refs(k, FALSE),
         t_ref'[k] = t_ref[k],
         t_count'[k].ex = t_count[k].ex, t_count'[k].cnt = t_count[k].cnt,
         Pending(t) => (Pending(t)' /\ Scan(t)' = Scan(t)) \/ Tr(t).tok # k
  PROVE  Exact(k)'
<1>1. Exact(k)
  BY DEF WordInv
<1>2. ASSUME NEW r \in Refs(k, TRUE), t_ref[k] = NULL, Pending(r[1]), Scan(r[1]) = r[2]
      PROVE  Pending(r[1])' /\ Scan(r[1])' = r[2]
  <2>0. /\ r[1] \in Thread /\ r = <<r[1], r[2]>>
        /\ \A k2, e2 : r \in Refs(k2, e2) => k2 = k
    <3>1. PICK e : e = TRUE
      OBVIOUS
    <3>2. r \in Refs(k, e)
      BY <3>1
    <3> QED BY <3>2, RefsFacts
  <2>1. CASE r[1] = t
    <3>1. <<t, Scan(t)>> \in Refs(Tr(t).tok, TRUE)
      BY <1>2, <2>1 DEF WordInv, Withdrawn
    <3>2. r = <<t, Scan(t)>>
      BY <1>2, <2>0, <2>1
    <3>3. Tr(t).tok = k
      BY <3>1, <3>2, <2>0
    <3> QED BY <1>2, <2>1, <3>3
  <2>2. CASE r[1] # t
    <3>1. pc'[r[1]] = pc[r[1]] /\ Scan(r[1])' = Scan(r[1])
      BY <2>0, <2>2, HeldOther
    <3> QED BY <1>2, <3>1 DEF Pending
  <2> QED BY <2>1, <2>2
<1>3. \A r \in Refs(k, TRUE) :
        t_ref'[k] = r \/ (t_ref'[k] = NULL /\ Pending(r[1])' /\ Scan(r[1])' = r[2])
  BY <1>1, <1>2 DEF Exact
<1> QED BY <1>1, <1>3 DEF Exact

(* Another thread's exclusive token stays as it is.                        *)
LEMMA WithdrawnOther ==
  ASSUME WordInv, NEW t \in Thread, Alone(t), NEW u \in Thread, u # t,
         NEW k, k = Tr(u).tok,
         Pending(u) => t_ref'[k] = NULL /\ Refs(k, TRUE)' = Refs(k, TRUE)
  PROVE  Withdrawn(u)'
<1>1. /\ Scan(u)' = Scan(u) /\ Tr(u)' = Tr(u) /\ (Pending(u)' <=> Pending(u))
      /\ Withdrawn(u)
  BY HeldOther DEF Pending, WordInv
<1>2. Pending(u) => <<u, Scan(u)>> \in Refs(k, TRUE)
  BY <1>1 DEF Withdrawn
<1>3. Pending(u)' => /\ <<u, Scan(u)'>> \in Refs(k, TRUE)' /\ t_ref'[k] = NULL
                     /\ k = Tr(u).tok'
  BY <1>1, <1>2
<1> QED BY <1>3 DEF Withdrawn

(* A step that changes neither what is held nor a word.                    *)
LEMMA KeepWords ==
  ASSUME LocalInv, WordInv, NEW t \in Thread, Alone(t),
         \A k \in Token, e \in BOOLEAN : Refs(k, e)' = Refs(k, e),
         t_ref' = t_ref,
         \A k \in Token : t_count'[k].ex = t_count[k].ex /\ t_count'[k].cnt = t_count[k].cnt,
         ~Pending(t), ~Pending(t)'
  PROVE  WordInv'
<1>1. ASSUME NEW k \in Token PROVE Exact(k)'
  BY ExactOther
<1>2. ASSUME NEW u \in Thread PROVE Withdrawn(u)'
  <2>1. CASE u = t
    BY <2>1 DEF Withdrawn
  <2>2. CASE u # t
    <3>0. PICK k : k = Tr(u).tok
      OBVIOUS
    <3>1. Pending(u) => k \in Token /\ t_ref[k] = NULL
      BY <3>0, ScanFacts DEF Pending, WordInv, Withdrawn
    <3>2. Pending(u) => t_ref'[k] = NULL /\ Refs(k, TRUE)' = Refs(k, TRUE)
      BY <3>1
    <3> QED BY <2>2, <3>0, <3>2, WithdrawnOther
  <2> QED BY <2>1, <2>2
<1> QED BY <1>1, <1>2 DEF WordInv

(* A step of t on one token.                                               *)
LEMMA OneToken ==
  ASSUME LocalInv, WordInv, NEW t \in Thread, Alone(t), NEW k \in Token,
         Pending(t) => Tr(t).tok = k,
         \A k2 \in Token \ {k} :
           /\ \A e \in BOOLEAN : Refs(k2, e)' = Refs(k2, e)
           /\ t_ref'[k2] = t_ref[k2] /\ t_count'[k2] = t_count[k2],
         Exact(k)', Withdrawn(t)',
         \A u \in Thread \ {t} : Pending(u) /\ Tr(u).tok = k =>
           t_ref'[k] = NULL /\ Refs(k, TRUE)' = Refs(k, TRUE)
  PROVE  WordInv'
<1>1. ASSUME NEW k2 \in Token PROVE Exact(k2)'
  <2>1. CASE k2 # k
    BY <2>1, ExactOther
  <2> QED BY <2>1
<1>2. ASSUME NEW u \in Thread PROVE Withdrawn(u)'
  <2>1. CASE u # t
    <3>0. PICK k2 : k2 = Tr(u).tok
      OBVIOUS
    <3>1. Pending(u) => k2 \in Token /\ t_ref[k2] = NULL
      BY <3>0, ScanFacts DEF Pending, WordInv, Withdrawn
    <3>2. Pending(u) => t_ref'[k2] = NULL /\ Refs(k2, TRUE)' = Refs(k2, TRUE)
      BY <2>1, <3>0, <3>1
    <3> QED BY <2>1, <3>0, <3>2, WithdrawnOther
  <2> QED BY <2>1
<1> QED BY <1>1, <1>2 DEF WordInv

(* The holder that is pending is the only one, and is not recorded.        *)
LEMMA PendingFacts ==
  ASSUME LocalInv, WordInv, NEW u \in Thread, Pending(u), NEW k, k = Tr(u).tok
  PROVE  /\ k \in Token /\ t_ref[k] = NULL /\ Refs(k, TRUE) = {<<u, Scan(u)>>}
         /\ t_count[k].ex
<1>1. k \in Token
  BY ScanFacts DEF Pending
<1>2. t_ref[k] = NULL /\ <<u, Scan(u)>> \in Refs(k, TRUE)
  BY DEF WordInv, Withdrawn
<1>3. (\A r, q \in Refs(k, TRUE) : r = q) /\ (t_count[k].ex <=> Refs(k, TRUE) # {})
  BY <1>1 DEF WordInv, Exact
<1> QED BY <1>1, <1>2, <1>3

(* The free word is taken.                                                 *)
LEMMA TakeExclusive ==
  ASSUME LocalInv, WordInv, NEW t \in Thread, Alone(t), NEW k \in Token, NEW n,
         ~Pending(t), Pending(t)', Scan(t)' = n, Tr(t)'.tok = k,
         ~t_count[k].ex, t_count[k].cnt = 0,
         t_count'[k].ex, t_count'[k].cnt = 0, t_ref' = t_ref,
         \A k2 \in Token \ {k} : t_count'[k2] = t_count[k2],
         Refs(k, TRUE)' = Refs(k, TRUE) \cup {<<t, n>>},
         \A k2, e2 : k2 # k \/ e2 # TRUE => Refs(k2, e2)' = Refs(k2, e2)
  PROVE  WordInv'
<1>1. Exact(k)
  BY DEF WordInv
<1>2. Refs(k, TRUE) = {} /\ Refs(k, FALSE) = {} /\ t_ref[k] = NULL
  <2>1. Cardinality(Refs(k, FALSE)) = 0 /\ Refs(k, TRUE) = {}
    BY <1>1 DEF Exact
  <2>2. IsFiniteSet(Refs(k, FALSE))
    BY RefsFacts
  <2> QED BY <1>1, <2>1, <2>2, FS_EmptySet DEF Exact
<1>3. Refs(k, TRUE)' = {<<t, n>>} /\ Refs(k, FALSE)' = {}
  BY <1>2
<1>4. Exact(k)'
  <2>1. Cardinality(Refs(k, FALSE)') = 0
    BY <1>3, FS_EmptySet
  <2>2. \A r \in Refs(k, TRUE)' :
          t_ref'[k] = NULL /\ Pending(r[1])' /\ Scan(r[1])' = r[2]
    <3> TAKE r \in Refs(k, TRUE)'
    <3>1. r = <<t, n>>
      BY <1>3
    <3>2. r[1] = t /\ r[2] = n
      BY <3>1
    <3> QED BY <1>2, <3>2
  <2>3. (\A r, q \in Refs(k, TRUE)' : r = q) /\ Refs(k, TRUE)' # {}
    BY <1>3
  <2>4. t_ref'[k] = NULL /\ \A q \in Refs(k, FALSE)' : FALSE
    BY <1>2, <1>3
  <2> QED BY <2>1, <2>2, <2>3, <2>4 DEF Exact
<1>5. Withdrawn(t)'
  BY <1>2, <1>3 DEF Withdrawn
<1>6. \A u \in Thread \ {t} : ~(Pending(u) /\ Tr(u).tok = k)
  BY PendingFacts
<1>7. \A k2 \in Token \ {k} : \A e \in BOOLEAN : Refs(k2, e)' = Refs(k2, e)
  OBVIOUS
<1> QED BY <1>4, <1>5, <1>6, <1>7, OneToken

(* The reference to the exclusive token is recorded, again or at last.     *)
LEMMA Record ==
  ASSUME LocalInv, WordType, WordInv, NEW t \in Thread, Alone(t), NEW k, k = Tr(t).tok,
         Pending(t), ~Pending(t)', NEW n, n = Scan(t),
         t_ref' = [t_ref EXCEPT ![k] = <<t, n>>], t_count' = t_count,
         \A k2 \in Token, e \in BOOLEAN : Refs(k2, e)' = Refs(k2, e)
  PROVE  WordInv'
<1>1. k \in Token /\ t_ref[k] = NULL /\ Refs(k, TRUE) = {<<t, n>>}
  BY PendingFacts
<1>2. t_ref'[k] = <<t, n>> /\ \A k2 \in Token \ {k} : t_ref'[k2] = t_ref[k2]
  BY <1>1 DEF WordType
<1>3. Refs(k, TRUE)' = {<<t, n>>} /\ Refs(k, FALSE)' = Refs(k, FALSE)
  BY <1>1
<1>4. Exact(k)'
  <2>1. Exact(k)
    BY <1>1 DEF WordInv
  <2>2. \A r \in Refs(k, TRUE)' : t_ref'[k] = r
    BY <1>2, <1>3
  <2>3. t_ref'[k] \in Refs(k, TRUE)' /\ Refs(k, TRUE)' = Refs(k, TRUE)
    BY <1>1, <1>2, <1>3
  <2>4. /\ t_count'[k].ex <=> Refs(k, TRUE)' # {}
        /\ t_count'[k].cnt = Cardinality(Refs(k, FALSE)')
        /\ \A r, q \in Refs(k, TRUE)' : r = q
        /\ \A r \in Refs(k, TRUE)', q \in Refs(k, FALSE)' : r[1] = q[1]
    <3>1. /\ t_count[k].ex <=> Refs(k, TRUE) # {}
          /\ t_count[k].cnt = Cardinality(Refs(k, FALSE))
          /\ \A r, q \in Refs(k, TRUE) : r = q
          /\ \A r \in Refs(k, TRUE), q \in Refs(k, FALSE) : r[1] = q[1]
      BY <2>1, Zenon DEF Exact
    <3>2. Refs(k, FALSE)' = Refs(k, FALSE) /\ Refs(k, TRUE)' = Refs(k, TRUE)
      BY <1>3, <2>3
    <3> QED BY <3>1, <3>2
  <2> QED BY <2>2, <2>3, <2>4 DEF Exact
<1>5. Withdrawn(t)'
  BY DEF Withdrawn
<1>6. \A u \in Thread \ {t} : ~(Pending(u) /\ Tr(u).tok = k)
  <2> SUFFICES ASSUME NEW u \in Thread \ {t}, Pending(u), Tr(u).tok = k PROVE FALSE
    OBVIOUS
  <2>1. Refs(k, TRUE) = {<<u, Scan(u)>>}
    BY PendingFacts
  <2>2. <<t, n>> = <<u, Scan(u)>>
    BY <1>1, <2>1
  <2> QED BY <2>2
<1> QED BY <1>1, <1>2, <1>4, <1>5, <1>6, OneToken

(* A shared reference is counted, to a free token or to one's own.         *)
LEMMA CountUp ==
  ASSUME LocalInv, WordInv, NEW t \in Thread, Alone(t), NEW k \in Token, NEW n,
         ~Pending(t), ~Pending(t)', t_ref' = t_ref,
         \A r \in Refs(k, TRUE) : r[1] = t,
         t_count'[k].ex = t_count[k].ex, t_count'[k].cnt = t_count[k].cnt + 1,
         \A k2 \in Token \ {k} : t_count'[k2] = t_count[k2],
         <<t, n>> \notin Refs(k, FALSE), Refs(k, FALSE)' = Refs(k, FALSE) \cup {<<t, n>>},
         \A k2, e2 : k2 # k \/ e2 # FALSE => Refs(k2, e2)' = Refs(k2, e2)
  PROVE  WordInv'
<1>1. Exact(k)
  BY DEF WordInv
<1>2. Cardinality(Refs(k, FALSE)') = Cardinality(Refs(k, FALSE)) + 1
  BY RefsFacts, FS_AddElement
<1>3. Refs(k, TRUE)' = Refs(k, TRUE)
  OBVIOUS
<1>4. ASSUME NEW r \in Refs(k, TRUE), t_ref[k] = NULL, Pending(r[1]), Scan(r[1]) = r[2]
      PROVE  FALSE
  BY <1>4
<1>5. \A r \in Refs(k, TRUE) : t_ref'[k] = r
  BY <1>1, <1>4 DEF Exact
<1>6. \A r \in Refs(k, TRUE), q \in Refs(k, FALSE)' : r[1] = q[1]
  <2>1. \A r \in Refs(k, TRUE), q \in Refs(k, FALSE) : r[1] = q[1]
    BY <1>1 DEF Exact
  <2>2. <<t, n>>[1] = t
    OBVIOUS
  <2> QED BY <2>1, <2>2
<1>7. Exact(k)'
  <2>1. /\ t_count[k].ex <=> Refs(k, TRUE) # {}
        /\ t_count[k].cnt = Cardinality(Refs(k, FALSE))
        /\ \A r, q \in Refs(k, TRUE) : r = q
        /\ t_ref[k] # NULL => t_ref[k] \in Refs(k, TRUE)
    BY <1>1, Zenon DEF Exact
  <2>2. /\ t_count'[k].ex <=> Refs(k, TRUE)' # {}
        /\ t_count'[k].cnt = Cardinality(Refs(k, FALSE)')
    BY <1>2, <1>3, <2>1
  <2>3. /\ \A r, q \in Refs(k, TRUE)' : r = q
        /\ \A r \in Refs(k, TRUE)', q \in Refs(k, FALSE)' : r[1] = q[1]
        /\ t_ref'[k] # NULL => t_ref'[k] \in Refs(k, TRUE)'
        /\ \A r \in Refs(k, TRUE)' : t_ref'[k] = r
    <3>1. PICK X, Y : X = Refs(k, TRUE) /\ X = Refs(k, TRUE)' /\ Y = Refs(k, FALSE)'
      BY <1>3
    <3>2. (\A r, q \in X : r = q) /\ (\A r \in X, q \in Y : r[1] = q[1])
          /\ (t_ref'[k] # NULL => t_ref'[k] \in X) /\ \A r \in X : t_ref'[k] = r
      <4>1. t_ref'[k] = t_ref[k]
        OBVIOUS
      <4> QED BY <1>5, <1>6, <2>1, <3>1, <4>1, Zenon
    <3> QED BY <3>1, <3>2, Zenon
  <2> QED BY <2>2, <2>3 DEF Exact
<1>8. Withdrawn(t)'
  BY DEF Withdrawn
<1>9. \A u \in Thread \ {t} : ~(Pending(u) /\ Tr(u).tok = k)
  <2> SUFFICES ASSUME NEW u \in Thread \ {t}, Pending(u), Tr(u).tok = k PROVE FALSE
    OBVIOUS
  <2>1. Refs(k, TRUE) = {<<u, Scan(u)>>}
    BY PendingFacts
  <2>2. <<u, Scan(u)>>[1] = t
    BY <2>1
  <2> QED BY <2>2
<1>10. \A k2 \in Token \ {k} : \A e \in BOOLEAN : Refs(k2, e)' = Refs(k2, e)
  OBVIOUS
<1> QED BY <1>7, <1>8, <1>9, <1>10, OneToken

(* The holder withdraws from the token before it lets go of the word.      *)
LEMMA Withdraw ==
  ASSUME LocalInv, WordType, WordInv, NEW t \in Thread, Alone(t), NEW k \in Token,
         NEW n \in Nat, ~Pending(t), Pending(t)', Scan(t)' = n, Tr(t)'.tok = k,
         t_ref[k] = <<t, n>>, t_ref' = [t_ref EXCEPT ![k] = NULL], t_count' = t_count,
         \A k2 \in Token, e \in BOOLEAN : Refs(k2, e)' = Refs(k2, e)
  PROVE  WordInv'
<1>1. Exact(k)
  BY DEF WordInv
<1>2. t_ref[k] # NULL
  <2>1. <<t, n>> \in Thread \X Nat
    OBVIOUS
  <2> QED BY <2>1, TokNullAssumption
<1>3. Refs(k, TRUE) = {<<t, n>>}
  <2>1. <<t, n>> \in Refs(k, TRUE) /\ \A r, q \in Refs(k, TRUE) : r = q
    BY <1>1, <1>2 DEF Exact
  <2> QED BY <2>1
<1>4. t_ref'[k] = NULL /\ \A k2 \in Token \ {k} : t_ref'[k2] = t_ref[k2]
  BY DEF WordType
<1>5. Refs(k, TRUE)' = {<<t, n>>} /\ Refs(k, TRUE)' = Refs(k, TRUE)
      /\ Refs(k, FALSE)' = Refs(k, FALSE)
  BY <1>3
<1>6. Exact(k)'
  <2>1. \A r \in Refs(k, TRUE)' :
          t_ref'[k] = NULL /\ Pending(r[1])' /\ Scan(r[1])' = r[2]
    <3> TAKE r \in Refs(k, TRUE)'
    <3>1. r = <<t, n>>
      BY <1>5
    <3>2. r[1] = t /\ r[2] = n
      BY <3>1
    <3> QED BY <1>4, <3>2
  <2>2. /\ t_count[k].ex <=> Refs(k, TRUE) # {}
        /\ t_count[k].cnt = Cardinality(Refs(k, FALSE))
        /\ \A r, q \in Refs(k, TRUE) : r = q
        /\ \A r \in Refs(k, TRUE), q \in Refs(k, FALSE) : r[1] = q[1]
    BY <1>1, Zenon DEF Exact
  <2>3. /\ t_count'[k].ex <=> Refs(k, TRUE)' # {}
        /\ t_count'[k].cnt = Cardinality(Refs(k, FALSE)')
        /\ \A r, q \in Refs(k, TRUE)' : r = q
        /\ \A r \in Refs(k, TRUE)', q \in Refs(k, FALSE)' : r[1] = q[1]
    <3>1. t_count'[k] = t_count[k]
      OBVIOUS
    <3>2. PICK X, Y : /\ X = Refs(k, TRUE) /\ X = Refs(k, TRUE)'
                      /\ Y = Refs(k, FALSE) /\ Y = Refs(k, FALSE)'
      BY <1>5
    <3> QED BY <2>2, <3>1, <3>2
  <2> QED BY <1>4, <2>1, <2>3 DEF Exact
<1>7. Withdrawn(t)'
  BY <1>4, <1>5 DEF Withdrawn
<1>8. \A u \in Thread \ {t} : Pending(u) /\ Tr(u).tok = k =>
        t_ref'[k] = NULL /\ Refs(k, TRUE)' = Refs(k, TRUE)
  BY <1>4, <1>5
<1> QED BY <1>4, <1>6, <1>7, <1>8, OneToken

(* The holder lets go of the word.                                         *)
LEMMA DropExclusive ==
  ASSUME LocalInv, WordInv, NEW t \in Thread, Alone(t), NEW k, k = Tr(t).tok,
         NEW n, n = Scan(t), Pending(t), ~Pending(t)', t_ref' = t_ref,
         ~t_count'[k].ex, t_count'[k].cnt = t_count[k].cnt,
         \A k2 \in Token \ {k} : t_count'[k2] = t_count[k2],
         Refs(k, TRUE)' = {},
         \A k2, e2 : k2 # k \/ e2 # TRUE => Refs(k2, e2)' = Refs(k2, e2)
  PROVE  WordInv'
<1>1. k \in Token /\ t_ref[k] = NULL /\ Refs(k, TRUE) = {<<t, n>>}
  BY PendingFacts
<1>2. Refs(k, TRUE)' = {} /\ Refs(k, FALSE)' = Refs(k, FALSE)
  BY <1>1
<1>3. t_count[k].cnt = Cardinality(Refs(k, FALSE))
  BY <1>1 DEF WordInv, Exact
<1>4. Exact(k)'
  BY <1>1, <1>2, <1>3 DEF Exact
<1>5. Withdrawn(t)'
  BY DEF Withdrawn
<1>6. \A u \in Thread \ {t} : ~(Pending(u) /\ Tr(u).tok = k)
  <2> SUFFICES ASSUME NEW u \in Thread \ {t}, Pending(u), Tr(u).tok = k PROVE FALSE
    OBVIOUS
  <2>1. Refs(k, TRUE) = {<<u, Scan(u)>>}
    BY PendingFacts
  <2>2. <<t, n>> = <<u, Scan(u)>>
    BY <1>1, <2>1
  <2> QED BY <2>2
<1>7. \A k2 \in Token \ {k} : \A e \in BOOLEAN : Refs(k2, e)' = Refs(k2, e)
  OBVIOUS
<1> QED BY <1>1, <1>4, <1>5, <1>6, <1>7, OneToken

(* A shared reference is uncounted.                                        *)
LEMMA CountDown ==
  ASSUME LocalInv, WordInv, NEW t \in Thread, Alone(t), NEW k \in Token, NEW n,
         ~Pending(t), ~Pending(t)', t_ref' = t_ref,
         t_count'[k].ex = t_count[k].ex, t_count'[k].cnt = t_count[k].cnt - 1,
         \A k2 \in Token \ {k} : t_count'[k2] = t_count[k2],
         <<t, n>> \in Refs(k, FALSE), Refs(k, FALSE)' = Refs(k, FALSE) \ {<<t, n>>},
         \A k2, e2 : k2 # k \/ e2 # FALSE => Refs(k2, e2)' = Refs(k2, e2)
  PROVE  WordInv'
<1>1. Exact(k)
  BY DEF WordInv
<1>2. Cardinality(Refs(k, FALSE)') = Cardinality(Refs(k, FALSE)) - 1
  <2>1. IsFiniteSet(Refs(k, FALSE))
    BY RefsFacts
  <2> QED BY <2>1, FS_RemoveElement
<1>3. Refs(k, TRUE)' = Refs(k, TRUE)
  OBVIOUS
<1>4. \A r \in Refs(k, TRUE) : r[1] = t
  <2>1. \A r \in Refs(k, TRUE), q \in Refs(k, FALSE) : r[1] = q[1]
    BY <1>1 DEF Exact
  <2>2. <<t, n>>[1] = t
    OBVIOUS
  <2> QED BY <2>1, <2>2
<1>5. \A r \in Refs(k, TRUE) : t_ref'[k] = r
  BY <1>1, <1>4 DEF Exact
<1>6. \A r \in Refs(k, TRUE), q \in Refs(k, FALSE)' : r[1] = q[1]
  BY <1>1 DEF Exact
<1>7. Exact(k)'
  BY <1>1, <1>2, <1>3, <1>5, <1>6 DEF Exact
<1>8. Withdrawn(t)'
  BY DEF Withdrawn
<1>9. \A u \in Thread \ {t} : ~(Pending(u) /\ Tr(u).tok = k)
  <2> SUFFICES ASSUME NEW u \in Thread \ {t}, Pending(u), Tr(u).tok = k PROVE FALSE
    OBVIOUS
  <2>1. Refs(k, TRUE) = {<<u, Scan(u)>>}
    BY PendingFacts
  <2>2. <<u, Scan(u)>>[1] = t
    BY <1>4, <2>1
  <2> QED BY <2>2
<1>10. \A k2 \in Token \ {k} : \A e \in BOOLEAN : Refs(k2, e)' = Refs(k2, e)
  OBVIOUS
<1> QED BY <1>7, <1>8, <1>9, <1>10, OneToken

(* Two references to different tokens change places.                       *)
LEMMA SwapWords ==
  ASSUME LocalInv, WordType, WordInv, NEW t \in Thread, lwkt_token_swap(t)
  PROVE  LocalInv' /\ WordInv' /\ t_ref' \in [Token -> Ref \cup {NULL}]
<1>1. PICK n \in Nat : n = Len(toks[t])
  BY LocalFacts
<1>2. PICK m \in Nat : m = n - 1 /\ n >= 2 /\ m # n
  BY <1>1, SwapLocal
<1>3. /\ LocalType' /\ Alone(t) /\ Placed(t)'
      /\ Len(toks'[t]) = n
      /\ toks'[t][n] = toks[t][m] /\ toks'[t][m] = toks[t][n]
      /\ \A i \in 1 .. n : i # n /\ i # m => toks'[t][i] = toks[t][i]
  <2>1. /\ LocalType' /\ Alone(t) /\ Placed(t)' /\ Len(toks'[t]) = Len(toks[t])
        /\ toks'[t][Len(toks[t])] = toks[t][Len(toks[t]) - 1]
        /\ toks'[t][Len(toks[t]) - 1] = toks[t][Len(toks[t])]
        /\ \A i \in 1 .. Len(toks[t]) - 2 : toks'[t][i] = toks[t][i]
    BY SwapLocal
  <2>2. \A i \in 1 .. n : i # n /\ i # m => i \in 1 .. n - 2
    BY <1>2
  <2> QED BY <1>1, <1>2, <2>1, <2>2
<1>4. LocalInv'
  BY <1>3, LocalByThread
<1>5. /\ pc[t] = "run" /\ pc'[t] = "run" /\ t_count' = t_count
      /\ \A k \in Token : t_ref'[k] = CASE t_ref[k] = <<t, n>> -> <<t, m>>
                                       [] t_ref[k] = <<t, m>> -> <<t, n>>
                                       [] OTHER -> t_ref[k]
      /\ t_ref' = [k \in Token |-> t_ref'[k]]
  BY <1>1, <1>2 DEF lwkt_token_swap
<1>6. ~Pending(t) /\ ~Pending(t)' /\ Held(t) = 1 .. n /\ Held(t)' = 1 .. n
  BY <1>1, <1>3, <1>5, HeldFacts, HeldNext DEF Pending
<1>7. n \in 1 .. n /\ m \in 1 .. n /\ <<t, n>> \in Ref /\ <<t, m>> \in Ref
  BY <1>1, <1>2, HeldFacts DEF Ref
(* where a reference was before the exchange                               *)
<1> DEFINE was(r) == IF r = <<t, n>> THEN <<t, m>>
                     ELSE IF r = <<t, m>> THEN <<t, n>> ELSE r
<1>8. \A r \in Ref : /\ was(r) \in Ref /\ was(was(r)) = r /\ was(r)[1] = r[1]
                     /\ was(r) # r => r[1] = t
  BY <1>7, <1>2
<1>9. \A k, e : \A r \in Ref : r \in Refs(k, e)' <=> was(r) \in Refs(k, e)
  <2> SUFFICES ASSUME NEW k, NEW e, NEW r \in Ref
               PROVE  r \in Refs(k, e)' <=> was(r) \in Refs(k, e)
    OBVIOUS
  <2>0. /\ r \in Refs(k, e)' <=>
             r[2] \in Held(r[1])' /\ toks'[r[1]][r[2]] = [tok |-> k, ex |-> e]
        /\ \A q \in Ref : q \in Refs(k, e) <=>
             q[2] \in Held(q[1]) /\ toks[q[1]][q[2]] = [tok |-> k, ex |-> e]
    BY DEF Refs, Ref
  <2>1. r[1] \in Thread /\ r = <<r[1], r[2]>>
    BY DEF Ref
  <2>2. CASE r[1] # t
    BY <2>0, <2>1, <2>2, <1>3, HeldOther
  <2>3. CASE r = <<t, n>>
    BY <2>0, <2>3, <1>2, <1>3, <1>6, <1>7
  <2>4. CASE r = <<t, m>>
    BY <2>0, <2>4, <1>2, <1>3, <1>6, <1>7
  <2>5. CASE r[1] = t /\ r # <<t, n>> /\ r # <<t, m>>
    BY <2>0, <2>1, <2>5, <1>3, <1>6
  <2> QED BY <2>1, <2>2, <2>3, <2>4, <2>5
<1>10. \A k \in Token : /\ t_ref[k] = NULL => t_ref'[k] = NULL
                        /\ t_ref[k] # NULL =>
                             t_ref[k] \in Ref /\ t_ref'[k] = was(t_ref[k])
  <2>1. \A k \in Token : t_ref[k] \in Ref \cup {NULL}
    BY DEF WordType
  <2>2. NULL # <<t, n>> /\ NULL # <<t, m>>
    BY TokNullAssumption
  <2> QED BY <1>5, <2>1, <2>2
<1> HIDE DEF was
<1>11. t_ref' \in [Token -> Ref \cup {NULL}]
  <2>1. \A k \in Token : t_ref'[k] \in Ref \cup {NULL}
    BY <1>8, <1>10
  <2> QED BY <1>5, <2>1
<1>12. ASSUME NEW k \in Token PROVE Exact(k)'
  <2>1. Exact(k)
    BY DEF WordInv
  <2>2. \A e : Refs(k, e) \subseteq Ref /\ Refs(k, e)' \subseteq Ref
    BY DEF Refs, Ref
  <2>a. ASSUME NEW e, NEW r \in Refs(k, e)'
        PROVE  was(r) \in Refs(k, e) /\ was(r)[1] = r[1] /\ was(was(r)) = r /\ r \in Ref
    BY <2>2, <1>8, <1>9
  <2>b. ASSUME NEW e, NEW r \in Refs(k, e)
        PROVE  was(r) \in Refs(k, e)'
    <3>1. r \in Ref /\ was(r) \in Ref /\ was(was(r)) = r
      BY <2>2, <1>8
    <3> QED BY <3>1, <1>9
  <2>3. t_count'[k].ex <=> Refs(k, TRUE)' # {}
    <3>1. t_count[k].ex <=> Refs(k, TRUE) # {}
      BY <2>1 DEF Exact
    <3>2. Refs(k, TRUE) # {} <=> Refs(k, TRUE)' # {}
      BY <2>a, <2>b
    <3> QED BY <1>5, <3>1, <3>2
  <2>4. t_count'[k].cnt = Cardinality(Refs(k, FALSE)')
    <3> DEFINE f == [r \in Refs(k, FALSE) |-> was(r)]
    <3>1. f \in Bijection(Refs(k, FALSE), Refs(k, FALSE)')
      <4>1. \A r \in Refs(k, FALSE) : was(r) \in Refs(k, FALSE)'
        BY <1>8, <1>9, <2>2
      <4>2. ASSUME NEW r \in Refs(k, FALSE), NEW q \in Refs(k, FALSE), was(r) = was(q)
            PROVE  r = q
        <5>1. r \in Ref /\ q \in Ref
          BY <2>2
        <5>2. was(was(r)) = r /\ was(was(q)) = q
          BY <5>1, <1>8
        <5> QED BY <4>2, <5>2
      <4>3. \A q \in Refs(k, FALSE)' : was(q) \in Refs(k, FALSE) /\ was(was(q)) = q
        BY <1>8, <1>9, <2>2
      <4> QED BY <4>1, <4>2, <4>3 DEF Bijection, Injection, Surjection, IsInjective
    <3>2. ExistsBijection(Refs(k, FALSE), Refs(k, FALSE)')
      BY <3>1 DEF ExistsBijection
    <3>3. Cardinality(Refs(k, FALSE)') = Cardinality(Refs(k, FALSE))
      BY <3>2, RefsFacts, FS_Bijection
    <3> QED BY <1>5, <2>1, <3>3 DEF Exact
  <2>5. \A r, q \in Refs(k, TRUE)' : r = q
    <3>1. \A r, q \in Refs(k, TRUE) : r = q
      BY <2>1 DEF Exact
    <3>2. ASSUME NEW r \in Refs(k, TRUE)', NEW q \in Refs(k, TRUE)' PROVE r = q
      <4>1. /\ was(r) \in Refs(k, TRUE) /\ was(q) \in Refs(k, TRUE)
            /\ was(was(r)) = r /\ was(was(q)) = q
        BY <2>a
      <4>2. was(r) = was(q)
        BY <4>1, <3>1
      <4> QED BY <4>1, <4>2
    <3> QED BY <3>2
  <2>6. \A r \in Refs(k, TRUE)', q \in Refs(k, FALSE)' : r[1] = q[1]
    <3>1. \A r \in Refs(k, TRUE), q \in Refs(k, FALSE) : r[1] = q[1]
      BY <2>1 DEF Exact
    <3>2. ASSUME NEW r \in Refs(k, TRUE)', NEW q \in Refs(k, FALSE)' PROVE r[1] = q[1]
      <4>1. was(r)[1] = was(q)[1]
        BY <2>a, <3>1
      <4> QED BY <2>a, <4>1
    <3> QED BY <3>2
  <2>7. t_ref'[k] # NULL => t_ref'[k] \in Refs(k, TRUE)'
    <3>1. t_ref[k] # NULL => t_ref[k] \in Refs(k, TRUE)
      BY <2>1 DEF Exact
    <3> QED BY <1>8, <1>9, <1>10, <3>1
  <2>8. ASSUME NEW r \in Refs(k, TRUE)'
        PROVE  t_ref'[k] = r \/ (t_ref'[k] = NULL /\ Pending(r[1])' /\ Scan(r[1])' = r[2])
    <3>1. was(r) \in Refs(k, TRUE) /\ r \in Ref /\ r[1] \in Thread
      BY <2>a DEF Ref
    <3>2. \/ t_ref[k] = was(r)
          \/ t_ref[k] = NULL /\ Pending(was(r)[1]) /\ Scan(was(r)[1]) = was(r)[2]
      BY <2>1, <3>1 DEF Exact
    <3>3. CASE t_ref[k] = was(r)
      <4>0. PICK q : q = was(r)
        OBVIOUS
      <4>1. q # NULL
        BY <3>1, <4>0, RefsFacts
      <4>2. was(q) = r
        BY <2>a, <4>0
      <4> QED BY <1>10, <3>3, <4>0, <4>1, <4>2
    <3>4. CASE t_ref[k] = NULL /\ Pending(was(r)[1]) /\ Scan(was(r)[1]) = was(r)[2]
      <4>1. was(r)[1] = r[1] /\ r[1] # t /\ was(r) = r
        BY <1>6, <1>8, <3>1, <3>4
      <4>2. pc'[r[1]] = pc[r[1]] /\ Scan(r[1])' = Scan(r[1])
        BY <1>3, <3>1, <4>1, HeldOther
      <4> QED BY <1>10, <3>4, <4>1, <4>2 DEF Pending
    <3> QED BY <3>2, <3>3, <3>4
  <2> QED BY <2>3, <2>4, <2>5, <2>6, <2>7, <2>8 DEF Exact
<1>13. ASSUME NEW u \in Thread PROVE Withdrawn(u)'
  <2>1. CASE u = t
    BY <1>6, <2>1 DEF Withdrawn
  <2>2. CASE u # t
    <3>0. PICK k : k = Tr(u).tok
      OBVIOUS
    <3>1. /\ Scan(u)' = Scan(u) /\ Tr(u)' = Tr(u) /\ (Pending(u)' <=> Pending(u))
      BY <1>3, <2>2, HeldOther DEF Pending
    <3>2. Pending(u) =>
            k \in Token /\ t_ref[k] = NULL /\ <<u, Scan(u)>> \in Refs(k, TRUE)
      BY <3>0, ScanFacts DEF Pending, WordInv, Withdrawn
    <3>3. Pending(u) => <<u, Scan(u)>> \in Ref /\ was(<<u, Scan(u)>>) = <<u, Scan(u)>>
      BY <2>2, <3>2 DEF Refs, was
    <3>4. Pending(u) => t_ref'[k] = NULL /\ <<u, Scan(u)>> \in Refs(k, TRUE)'
      BY <1>9, <1>10, <3>2, <3>3
    <3> QED BY <3>0, <3>1, <3>4 DEF Withdrawn
  <2> QED BY <2>1, <2>2
<1> QED BY <1>4, <1>11, <1>12, <1>13 DEF WordInv

-----------------------------------------------------------------------------
(* The invariant is kept, action by action.                                *)

(* Entering the scan: a call of a running thread, or the wakeup.           *)
LEMMA KeepInv ==
  ASSUME TokenInv, NEW t \in Thread, LocalInv', Alone(t), Held(t)' = Held(t),
         \A i \in Held(t) : toks'[t][i] = toks[t][i],
         UNCHANGED <<t_count, t_ref, seen>>, ~Pending(t), ~Pending(t)'
  PROVE  TokenInv'
<1>1. LocalInv /\ WordInv /\ WordType
  BY DEF TokenInv
<1>2. \A k \in Token, e \in BOOLEAN : Refs(k, e)' = Refs(k, e)
  BY <1>1, RefsSame
<1>3. WordInv'
  BY <1>1, <1>2, KeepWords
<1>4. WordType'
  BY <1>1 DEF WordType
<1> QED BY <1>3, <1>4 DEF TokenInv

(* A pushed reference is not held yet.                                     *)
LEMMA PushInv ==
  ASSUME TokenInv, NEW t \in Thread, NEW k \in Token, NEW o \in Ops, Push(t, k, o)
  PROVE  TokenInv'
<1>1. PICK e \in Tokref : toks' = [toks EXCEPT ![t] = Append(@, e)]
  <2>1. [tok |-> k, ex |-> o # "gettoken_shared"] \in Tokref
    BY DEF Tokref
  <2> QED BY <2>1 DEF Push
<1>2. PICK c \in {"get", "trytoken"} : At(t, "try", c, Len(toks[t]) + 1)
  BY DEF Push
<1>3. /\ LocalInv /\ pc[t] = "run" /\ Len(toks[t]) < MaxRefs
      /\ UNCHANGED <<t_count, t_ref, seen, spinning, sorted, idle>>
  BY DEF Push, tokVars, TokenInv
<1>4. /\ toks \in [Thread -> Seq(Tokref)] /\ toks[t] \in Seq(Tokref)
      /\ Len(toks[t]) \in Nat /\ ctx[t] = "none" /\ ~sorted[t]
  BY <1>3, LocalFacts DEF LocalInv, LocalType, Placed
<1>5. PICK r : r = Append(toks[t], e)
  OBVIOUS
<1>6. r \in Seq(Tokref) /\ Len(r) = Len(toks[t]) + 1 /\ \A i \in 1 .. Len(toks[t]) : r[i] = toks[t][i]
  BY <1>4, <1>5, PushTokref
<1>7. /\ toks' \in [Thread -> Seq(Tokref)] /\ toks'[t] = r
      /\ \A u \in Thread \ {t} : toks'[u] = toks[u]
  BY <1>1, <1>4, <1>5, <1>6
<1>8. Len(toks[t]) + 1 \in 0 .. MaxRefs /\ 0 \in 0 .. TokenSpin /\ "try" \in PCs /\ c \in Ctxs
  BY <1>3, <1>4, TokBoundAssumption DEF PCs, Ctxs
<1>9. /\ LocalType' /\ Alone(t)
      /\ pc'[t] = "try" /\ ctx'[t] = c /\ cur'[t] = Len(toks[t]) + 1 /\ sorted'[t] = sorted[t]
  BY <1>2, <1>3, <1>7, <1>8 DEF LocalInv, LocalType, At, Alone
<1>10. Placed(t)'
  <2>1. /\ Len(toks'[t]) = Len(toks[t]) + 1 /\ Len(toks'[t]) <= MaxRefs
        /\ cur'[t] \in 1 .. Len(toks'[t]) /\ cur'[t] = Len(toks'[t])
    BY <1>3, <1>4, <1>6, <1>7, <1>9, TokBoundAssumption
  <2> QED BY <1>4, <1>9, <2>1 DEF Placed
<1>11. LocalInv'
  BY <1>3, <1>9, <1>10, LocalByThread
<1>12. Held(t) = 1 .. Len(toks[t]) /\ Held(t)' = 1 .. Len(toks[t])
  <2>1. Held(t)' = Scanned(t, cur[t] - 1)'
    BY <1>9, HeldNext
  <2>2. Scanned(t, cur[t] - 1)' = 1 .. Len(toks[t])
    BY <1>4, <1>9 DEF Scanned, Order
  <2> QED BY <1>3, <2>1, <2>2, HeldFacts
<1> QED BY <1>3, <1>6, <1>7, <1>9, <1>11, <1>12, KeepInv DEF Pending

(* A release or a switch starts: nothing is released yet.                  *)
LEMMA GiveUpInv ==
  ASSUME TokenInv, NEW t \in Thread, lwkt_reltoken(t) \/ \E o \in Ops : lwkt_switch(t, o)
  PROVE  TokenInv'
<1>1. PICK c \in {"reltoken", "yield", "sleep"} : At(t, "rel", c, Len(toks[t]))
  BY DEF lwkt_reltoken, lwkt_switch
<1>2. /\ LocalInv /\ pc[t] = "run" /\ toks[t] # <<>>
      /\ UNCHANGED <<t_count, t_ref, seen, toks, spinning, sorted, idle>>
  BY DEF lwkt_reltoken, lwkt_switch, tokVars, TokenInv
<1>3. /\ toks[t] \in Seq(Tokref) /\ Len(toks[t]) \in Nat /\ Len(toks[t]) <= MaxRefs
      /\ ctx[t] = "none" /\ ~sorted[t]
  BY <1>2, LocalFacts DEF Placed
<1>4. Len(toks[t]) > 0
  BY <1>2, <1>3
<1>5. Len(toks[t]) \in 0 .. MaxRefs /\ "rel" \in PCs /\ c \in Ctxs
  BY <1>3, TokBoundAssumption DEF PCs, Ctxs
<1>6. /\ LocalType' /\ Alone(t) /\ toks'[t] = toks[t]
      /\ pc'[t] = "rel" /\ ctx'[t] = c /\ cur'[t] = Len(toks[t])
  BY <1>1, <1>2, <1>5, MoveLocal
<1>7. Placed(t)'
  BY <1>2, <1>3, <1>4, <1>6 DEF Placed
<1>8. LocalInv'
  BY <1>2, <1>6, <1>7, LocalByThread
<1>9. Held(t)' = Held(t)
  <2>1. Held(t)' = Scanned(t, cur[t])'
    BY <1>6, HeldNext
  <2>2. Scanned(t, cur[t])' = 1 .. Len(toks[t])
    BY <1>2, <1>3, <1>6 DEF Scanned, Order
  <2> QED BY <1>2, <2>1, <2>2, HeldFacts
<1> QED BY <1>2, <1>6, <1>8, <1>9, KeepInv DEF Pending

(* The scan for a sleeper starts: nothing is held yet.                     *)
LEMMA WakeupInv ==
  ASSUME TokenInv, NEW t \in Thread, Wakeup(t)
  PROVE  TokenInv'
<1>1. /\ LocalInv /\ pc[t] = "asleep" /\ At(t, "try", "getall", 1)
      /\ idle' = [idle EXCEPT ![t] = TRUE]
      /\ UNCHANGED <<t_count, t_ref, seen, toks, spinning, sorted>>
  BY DEF Wakeup, tokVars, TokenInv
<1>2. /\ toks[t] \in Seq(Tokref) /\ Len(toks[t]) \in Nat /\ Len(toks[t]) <= MaxRefs
      /\ ctx[t] = "none" /\ ~sorted[t] /\ Len(toks[t]) > 0
  BY <1>1, LocalFacts DEF Placed
<1>3. /\ 1 \in 0 .. MaxRefs /\ "try" \in PCs /\ "getall" \in Ctxs
      /\ toks' = toks /\ idle' \in [Thread -> BOOLEAN]
      /\ spinning' \in [Thread -> 0 .. SpinLoops] /\ sorted' \in [Thread -> BOOLEAN]
      /\ \A u \in Thread \ {t} : sorted'[u] = sorted[u]
  BY <1>1, TokBoundAssumption DEF PCs, Ctxs, LocalInv, LocalType
<1>4. /\ LocalType' /\ Alone(t) /\ toks'[t] = toks[t]
      /\ pc'[t] = "try" /\ ctx'[t] = "getall" /\ cur'[t] = 1
  BY <1>1, <1>3, AtLocal
<1>5. Placed(t)'
  BY <1>1, <1>2, <1>4 DEF Placed
<1>6. LocalInv'
  BY <1>1, <1>4, <1>5, LocalByThread
<1>7. Held(t)' = {} /\ Held(t) = {}
  <2>1. Held(t)' = Scanned(t, cur[t] - 1)'
    BY <1>4, HeldNext
  <2>2. Scanned(t, cur[t] - 1)' = {}
    BY <1>4 DEF Scanned
  <2> QED BY <1>1, <2>1, <2>2, HeldFacts
<1> QED BY <1>1, <1>4, <1>6, <1>7, KeepInv DEF Pending

(* Swapped references keep their words.                                    *)
LEMMA SwapInv ==
  ASSUME TokenInv, NEW t \in Thread, lwkt_token_swap(t)
  PROVE  TokenInv'
<1>1. LocalInv' /\ WordInv' /\ t_ref' \in [Token -> Ref \cup {NULL}]
  BY SwapWords DEF TokenInv
<1>2. t_count' = t_count /\ seen' = seen
  BY DEF lwkt_token_swap
<1> QED BY <1>1, <1>2 DEF TokenInv, WordType

(* trytokref and reltokref.                                                *)
LEMMA TryExclusiveInv ==
  ASSUME TokenInv, NEW t \in Thread, TryExclusive(t)
  PROVE  TokenInv'
<1>1. PICK k, n : k = Tr(t).tok /\ n = Scan(t)
  OBVIOUS
<1>2. /\ LocalInv /\ WordType /\ WordInv /\ pc[t] = "try" /\ Tr(t).ex
      /\ ~t_count[k].ex /\ t_count[k].cnt = 0
      /\ t_count' = [t_count EXCEPT ![k] = [Free EXCEPT !.ex = TRUE]]
      /\ pc' = [pc EXCEPT ![t] = "setref"]
      /\ UNCHANGED <<t_ref, toks, ctx, seen, scanVars>>
  BY <1>1 DEF TokenInv, TryExclusive
<1>3. LocalType' /\ Alone(t) /\ Placed(t)' /\ pc'[t] = "setref"
  BY <1>2, PcLocal DEF PCs
<1>4. LocalInv'
  BY <1>2, <1>3, LocalByThread
<1>5. toks' = toks /\ cur' = cur /\ sorted' = sorted /\ t_ref' = t_ref /\ seen' = seen
  BY <1>2 DEF scanVars
<1>6. Scan(t)' = n /\ Tr(t)' = Tr(t) /\ n \in 1 .. Len(toks[t]) /\ k \in Token /\ Tr(t) \in Tokref
  BY <1>1, <1>2, <1>5, ScanFacts DEF Scan, Tr
<1>7. toks'[t][n] = [tok |-> k, ex |-> TRUE]
  <2>1. Tr(t) = [tok |-> k, ex |-> TRUE]
    BY <1>1, <1>2, <1>6, TokrefFields
  <2> QED BY <1>1, <1>5, <2>1 DEF Tr
<1>8. n \notin Held(t) /\ Held(t)' = Held(t) \cup {n}
  <2>1. Held(t) = Scanned(t, cur[t] - 1)
    BY <1>2, HeldFacts
  <2>2. Held(t)' = Scanned(t, cur[t])'
    BY <1>3, HeldNext
  <2>3. Scanned(t, cur[t])' = Scanned(t, cur[t])
    BY <1>5 DEF Scanned, Order
  <2>4. cur[t] \in 1 .. Len(toks[t])
    BY <1>2, LocalFacts DEF Placed
  <2> QED BY <1>1, <1>2, <2>1, <2>2, <2>3, <2>4, ScannedFacts
<1>9. /\ Refs(k, TRUE)' = Refs(k, TRUE) \cup {<<t, n>>}
      /\ \A k2, e2 : k2 # k \/ e2 # TRUE => Refs(k2, e2)' = Refs(k2, e2)
  <2>1. n \in 1 .. Len(toks[t]) /\ \A i \in Held(t) : toks'[t][i] = toks[t][i]
    BY <1>5, <1>6
  <2>2. LocalInv /\ Alone(t) /\ n \notin Held(t) /\ Held(t)' = Held(t) \cup {n}
    BY <1>2, <1>3, <1>8
  <2>3. PICK e : e = TRUE
    OBVIOUS
  <2>4. toks'[t][n] = [tok |-> k, ex |-> e]
    BY <1>7, <2>3
  <2>5. /\ <<t, n>> \notin Refs(k, e) /\ Refs(k, e)' = Refs(k, e) \cup {<<t, n>>}
        /\ \A k2, e2 : k2 # k \/ e2 # e => Refs(k2, e2)' = Refs(k2, e2)
    BY <2>1, <2>2, <2>4, RefsAdd
  <2> QED BY <2>3, <2>5
<1>10. /\ t_count' \in [Token -> Count] /\ t_count'[k].ex /\ t_count'[k].cnt = 0
       /\ \A k2 \in Token \ {k} : t_count'[k2] = t_count[k2]
  <2>1. [Free EXCEPT !.ex = TRUE] \in Count /\ [Free EXCEPT !.ex = TRUE].ex
        /\ [Free EXCEPT !.ex = TRUE].cnt = 0
    BY DEF Count, Free
  <2> QED BY <1>2, <1>6, <2>1 DEF WordType
<1>11. WordInv'
  <2>1. ~Pending(t) /\ Pending(t)' /\ Tr(t)'.tok = k
    BY <1>1, <1>2, <1>3, <1>6 DEF Pending
  <2>2. /\ LocalInv /\ WordInv /\ Alone(t) /\ k \in Token /\ Scan(t)' = n
        /\ ~t_count[k].ex /\ t_count[k].cnt = 0 /\ t_ref' = t_ref
    BY <1>2, <1>3, <1>5, <1>6
  <2> QED BY <1>9, <1>10, <2>1, <2>2, TakeExclusive
<1> QED BY <1>2, <1>4, <1>5, <1>10, <1>11 DEF TokenInv, WordType

(* The holder of TOK_EXCLUSIVE records its reference.                      *)
LEMMA SetRefInv ==
  ASSUME TokenInv, NEW t \in Thread, SetRef(t)
  PROVE  TokenInv'
<1>1. PICK k, n : k = Tr(t).tok /\ n = Scan(t)
  OBVIOUS
<1>2. /\ LocalInv /\ WordType /\ WordInv /\ pc[t] = "setref"
      /\ t_ref' = [t_ref EXCEPT ![k] = <<t, n>>] /\ Acquired(t)
      /\ UNCHANGED <<t_count, toks, seen>>
  BY <1>1 DEF TokenInv, SetRef
<1>3. toks' \in [Thread -> Seq(Tokref)] /\ toks' = toks
  BY <1>2 DEF LocalInv, LocalType
<1>4. LocalInv' /\ Alone(t) /\ AcquiredTo(t) /\ Held(t)' = Scanned(t, cur[t])
  BY <1>2, <1>3, AcquiredHeld
<1>5. Held(t)' = Held(t)
  BY <1>2, <1>4, HeldFacts
<1>6. \A k2 \in Token, e \in BOOLEAN : Refs(k2, e)' = Refs(k2, e)
  BY <1>2, <1>3, <1>4, <1>5, RefsSame
<1>7. Pending(t) /\ ~Pending(t)'
  BY <1>2, <1>4 DEF Pending, AcquiredTo
<1>8. WordInv'
  BY <1>1, <1>2, <1>4, <1>6, <1>7, Record
<1>9. WordType'
  <2>1. <<t, n>> \in Ref
    BY <1>1, <1>2, ScanFacts, HeldFacts DEF Ref
  <2> QED BY <1>2, <2>1 DEF WordType
<1> QED BY <1>4, <1>8, <1>9 DEF TokenInv

(* One more shared reference: n of t's stack, to k.                        *)
Counted(t, k, n) ==
  /\ k = Tr(t).tok /\ n = Scan(t) /\ pc[t] = "try" /\ Acquired(t)
  /\ t_count' = [t_count EXCEPT ![k].cnt = @ + 1] /\ UNCHANGED <<t_ref, seen>>
  /\ toks' \in [Thread -> Seq(Tokref)] /\ Len(toks'[t]) = Len(toks[t])
  /\ \A u \in Thread \ {t} : toks'[u] = toks[u]
  /\ \A i \in 1 .. Len(toks[t]) : i # n => toks'[t][i] = toks[t][i]
  /\ SortArray(toks'[t]) = SortArray(toks[t])
  /\ toks'[t][n] = [tok |-> k, ex |-> FALSE]
  /\ \A r \in Refs(k, TRUE) : r[1] = t

(* The word with another count.                                            *)
LEMMA CountChange ==
  ASSUME WordType, NEW k \in Token, NEW c \in Nat,
         t_count' = [t_count EXCEPT ![k].cnt = c]
  PROVE  /\ t_count' \in [Token -> Count] /\ t_count'[k].ex = t_count[k].ex
         /\ t_count'[k].cnt = c
         /\ \A k2 \in Token \ {k} : t_count'[k2] = t_count[k2]
<1>1. t_count[k] \in Count /\ t_count \in [Token -> Count]
  BY DEF WordType
<1>2. PICK v : v = t_count[k]
  OBVIOUS
<1>3. PICK w : w = [v EXCEPT !.cnt = c]
  OBVIOUS
<1>4. w \in Count /\ w.cnt = c /\ w.ex = v.ex
  BY <1>1, <1>2, <1>3, CountCnt
<1>5. t_count' = [t_count EXCEPT ![k] = w]
  BY <1>2, <1>3
<1> QED BY <1>1, <1>2, <1>4, <1>5

(* A reference that becomes shared, or is, is counted.                     *)
LEMMA CountUpInv ==
  ASSUME TokenInv, NEW t \in Thread, NEW k, NEW n, Counted(t, k, n)
  PROVE  TokenInv'
<1>1. LocalInv /\ WordType /\ WordInv
  BY DEF TokenInv
<1>2. LocalInv' /\ Alone(t) /\ AcquiredTo(t) /\ Held(t)' = Scanned(t, cur[t])
  BY <1>1, AcquiredHeld DEF Counted
<1>3. n \in 1 .. Len(toks[t]) /\ k \in Token
  BY <1>1, ScanFacts DEF Counted
<1>4. n \notin Held(t) /\ Held(t)' = Held(t) \cup {n} /\ Held(t) \subseteq 1 .. Len(toks[t])
  <2>1. Held(t) = Scanned(t, cur[t] - 1) /\ Held(t) \subseteq 1 .. Len(toks[t])
    BY <1>1, HeldFacts DEF Counted
  <2>2. cur[t] \in 1 .. Len(toks[t]) /\ n = Scan(t)
    BY <1>1, LocalFacts DEF Placed, Counted
  <2> QED BY <1>1, <1>2, <2>1, <2>2, ScannedFacts
<1>5. /\ <<t, n>> \notin Refs(k, FALSE) /\ Refs(k, FALSE)' = Refs(k, FALSE) \cup {<<t, n>>}
      /\ \A k2, e2 : k2 # k \/ e2 # FALSE => Refs(k2, e2)' = Refs(k2, e2)
  <2>1. \A i \in Held(t) : toks'[t][i] = toks[t][i]
    BY <1>4 DEF Counted
  <2>2. LocalInv /\ Alone(t) /\ n \notin Held(t) /\ Held(t)' = Held(t) \cup {n}
        /\ n \in 1 .. Len(toks[t])
    BY <1>1, <1>2, <1>3, <1>4
  <2>3. PICK e : e = FALSE
    OBVIOUS
  <2>4. toks'[t][n] = [tok |-> k, ex |-> e]
    BY <2>3 DEF Counted
  <2>5. /\ <<t, n>> \notin Refs(k, e) /\ Refs(k, e)' = Refs(k, e) \cup {<<t, n>>}
        /\ \A k2, e2 : k2 # k \/ e2 # e => Refs(k2, e2)' = Refs(k2, e2)
    BY <2>1, <2>2, <2>4, RefsAdd
  <2> QED BY <2>3, <2>5
<1>6. ~Pending(t) /\ ~Pending(t)'
  BY <1>2 DEF Pending, AcquiredTo, Counted
<1>7. /\ t_count' \in [Token -> Count] /\ t_count'[k].ex = t_count[k].ex
      /\ t_count'[k].cnt = t_count[k].cnt + 1
      /\ \A k2 \in Token \ {k} : t_count'[k2] = t_count[k2]
  <2>1. t_count[k].cnt + 1 \in Nat
    BY <1>1, <1>3, CountFields DEF WordType
  <2>2. t_count' = [t_count EXCEPT ![k].cnt = t_count[k].cnt + 1]
    BY DEF Counted
  <2> QED BY <1>1, <1>3, <2>1, <2>2, CountChange
<1>8. t_ref' = t_ref /\ seen' = seen /\ \A r \in Refs(k, TRUE) : r[1] = t
  BY DEF Counted
<1>9. WordInv'
  BY <1>1, <1>2, <1>3, <1>5, <1>6, <1>7, <1>8, CountUp
<1> QED BY <1>1, <1>2, <1>7, <1>8, <1>9 DEF TokenInv, WordType

(* The owner's second reference is counted as a shared one.                *)
LEMMA TryOwnInv ==
  ASSUME TokenInv, NEW t \in Thread, TryOwn(t)
  PROVE  TokenInv'
<1>1. PICK k, n : k = Tr(t).tok /\ n = Scan(t)
  OBVIOUS
<1>2. /\ LocalInv /\ WordInv /\ pc[t] = "try" /\ OwnRef(t, k) /\ Acquired(t)
      /\ t_count' = [t_count EXCEPT ![k].cnt = @ + 1]
      /\ toks' = [toks EXCEPT ![t][Scan(t)].ex = FALSE] /\ UNCHANGED <<t_ref, seen>>
  BY <1>1 DEF TokenInv, TryOwn
<1>3. /\ toks' \in [Thread -> Seq(Tokref)] /\ Len(toks'[t]) = Len(toks[t])
      /\ \A u \in Thread \ {t} : toks'[u] = toks[u]
      /\ \A i \in 1 .. Len(toks[t]) : i # Scan(t) => toks'[t][i] = toks[t][i]
      /\ toks'[t][Scan(t)] = [tok |-> Tr(t).tok, ex |-> FALSE]
      /\ SortArray(toks'[t]) = SortArray(toks[t])
  BY <1>2, OwnLocal
<1>4. \A r \in Refs(k, TRUE) : r[1] = t
  <2>1. PICK i \in 1 .. Len(toks[t]) : t_ref[k] = <<t, i>>
    BY <1>2 DEF OwnRef
  <2>2. k \in Token /\ <<t, i>> \in Thread \X Nat
    BY <1>1, <1>2, ScanFacts, LocalFacts
  <2>3. t_ref[k] # NULL
    BY <2>1, <2>2, TokNullAssumption
  <2>4. \A r \in Refs(k, TRUE) : r = <<t, i>>
    BY <1>2, <2>1, <2>2, <2>3 DEF WordInv, Exact
  <2>5. <<t, i>>[1] = t
    OBVIOUS
  <2> QED BY <2>4, <2>5
<1>5. Counted(t, k, n)
  BY <1>1, <1>2, <1>3, <1>4 DEF Counted
<1> QED BY <1>5, CountUpInv

(* A shared reference is counted.                                          *)
LEMMA TrySharedInv ==
  ASSUME TokenInv, NEW t \in Thread, TryShared(t)
  PROVE  TokenInv'
<1>1. PICK k, n : k = Tr(t).tok /\ n = Scan(t)
  OBVIOUS
<1>2. /\ LocalInv /\ WordInv /\ pc[t] = "try" /\ ~Tr(t).ex /\ ~t_count[k].ex /\ Acquired(t)
      /\ t_count' = [t_count EXCEPT ![k].cnt = @ + 1] /\ UNCHANGED <<t_ref, toks, seen>>
  BY <1>1 DEF TokenInv, TryShared
<1>3. toks' = toks /\ toks' \in [Thread -> Seq(Tokref)] /\ Tr(t) \in Tokref /\ k \in Token
  BY <1>1, <1>2, ScanFacts DEF LocalInv, LocalType
<1>4. toks'[t][n] = [tok |-> k, ex |-> FALSE]
  <2>1. Tr(t) = [tok |-> k, ex |-> FALSE]
    BY <1>1, <1>2, <1>3, TokrefFields
  <2> QED BY <1>1, <1>3, <2>1 DEF Tr
<1>5. \A r \in Refs(k, TRUE) : r[1] = t
  BY <1>2, <1>3 DEF WordInv, Exact
<1>6. Counted(t, k, n)
  BY <1>1, <1>2, <1>3, <1>4, <1>5 DEF Counted
<1> QED BY <1>6, CountUpInv

(* A failed try keeps what the thread holds.                               *)
LEMMA TryFailInv ==
  ASSUME TokenInv, NEW t \in Thread, TryFail(t)
  PROVE  TokenInv'
<1>1. LocalInv /\ pc[t] = "try" /\ UNCHANGED <<t_count, t_ref, seen>>
  BY DEF TokenInv, TryFail, tokVars
<1>2. \/ pc' = [pc EXCEPT ![t] = "setreq"] /\ UNCHANGED <<toks, ctx, scanVars>>
      \/ Failed(t)
  BY DEF TryFail
<1>3. CASE pc' = [pc EXCEPT ![t] = "setreq"] /\ UNCHANGED <<toks, ctx, scanVars>>
  <2>1. LocalType' /\ Alone(t) /\ Placed(t)' /\ pc'[t] = "setreq"
    BY <1>1, <1>3, PcLocal DEF PCs
  <2>2. LocalInv'
    BY <1>1, <2>1, LocalByThread
  <2>3. toks' = toks /\ cur' = cur /\ sorted' = sorted
    BY <1>3 DEF scanVars
  <2>4. Held(t)' = Held(t)
    <3>1. Held(t) = Scanned(t, cur[t] - 1) /\ Held(t)' = Scanned(t, cur[t] - 1)'
      BY <1>1, <2>1, HeldFacts, HeldNext
    <3>2. Scanned(t, cur[t] - 1)' = Scanned(t, cur[t] - 1)
      BY <2>3 DEF Scanned, Order
    <3> QED BY <3>1, <3>2
  <2> QED BY <1>1, <2>1, <2>2, <2>3, <2>4, KeepInv DEF Pending
<1>4. CASE Failed(t)
  BY <1>1, <1>4, FailedHeld, KeepInv DEF Pending
<1> QED BY <1>2, <1>3, <1>4

(* TOK_EXCLREQ changes neither holder nor count.                           *)
LEMMA SetReqInv ==
  ASSUME TokenInv, NEW t \in Thread, SetReq(t)
  PROVE  TokenInv'
<1>1. PICK k : k = Tr(t).tok
  OBVIOUS
<1>2. /\ LocalInv /\ WordType /\ WordInv /\ pc[t] = "setreq" /\ Failed(t)
      /\ t_count' = [t_count EXCEPT ![k].req = TRUE] /\ t_ref' = t_ref /\ seen' = seen
  BY <1>1 DEF TokenInv, SetReq
<1>3. /\ LocalInv' /\ Alone(t) /\ Held(t)' = Held(t) /\ ~Pending(t) /\ ~Pending(t)'
      /\ \A i \in Held(t) : toks'[t][i] = toks[t][i]
  BY <1>2, FailedHeld DEF Pending
<1>4. /\ t_count' \in [Token -> Count]
      /\ \A k2 \in Token : t_count'[k2].ex = t_count[k2].ex /\ t_count'[k2].cnt = t_count[k2].cnt
  <2>1. k \in Token /\ t_count[k] \in Count /\ t_count \in [Token -> Count]
    BY <1>1, <1>2, ScanFacts DEF WordType
  <2>2. PICK v : v = t_count[k]
    OBVIOUS
  <2>3. PICK w : w = [v EXCEPT !.req = TRUE]
    OBVIOUS
  <2>4. w \in Count /\ w.cnt = v.cnt /\ w.ex = v.ex
    BY <2>1, <2>2, <2>3, CountReq
  <2>5. t_count' = [t_count EXCEPT ![k] = w]
    BY <1>2, <2>2, <2>3
  <2> QED BY <2>1, <2>2, <2>4, <2>5
<1>5. \A k2 \in Token, e \in BOOLEAN : Refs(k2, e)' = Refs(k2, e)
  BY <1>2, <1>3, RefsSame
<1>6. WordInv'
  BY <1>2, <1>3, <1>4, <1>5, KeepWords
<1> QED BY <1>2, <1>3, <1>4, <1>6 DEF TokenInv, WordType

(* The exclusive reference withdraws from t_ref.                           *)
LEMMA RelRefInv ==
  ASSUME TokenInv, NEW t \in Thread, RelRef(t)
  PROVE  TokenInv'
<1>1. PICK k, n : k = Tr(t).tok /\ n = Scan(t)
  OBVIOUS
<1>2. /\ LocalInv /\ WordType /\ WordInv /\ pc[t] = "rel" /\ t_ref[k] = <<t, n>>
      /\ seen' = [seen EXCEPT ![t] = t_count[k]] /\ t_ref' = [t_ref EXCEPT ![k] = NULL]
      /\ pc' = [pc EXCEPT ![t] = "relcas"] /\ t_count' = t_count
      /\ UNCHANGED <<toks, ctx, scanVars>>
  BY <1>1 DEF TokenInv, RelRef
<1>3. LocalType' /\ Alone(t) /\ Placed(t)' /\ pc'[t] = "relcas"
  BY <1>2, PcLocal DEF PCs
<1>4. LocalInv'
  BY <1>2, <1>3, LocalByThread
<1>5. toks' = toks /\ cur' = cur /\ sorted' = sorted
  BY <1>2 DEF scanVars
<1>6. Scan(t)' = n /\ Tr(t)' = Tr(t) /\ n \in Nat /\ k \in Token
  BY <1>1, <1>2, <1>5, ScanFacts DEF Scan, Tr
<1>7. Held(t)' = Held(t)
  <2>1. Held(t) = Scanned(t, cur[t]) /\ Held(t)' = Scanned(t, cur[t])'
    BY <1>2, <1>3, HeldFacts, HeldNext
  <2>2. Scanned(t, cur[t])' = Scanned(t, cur[t])
    BY <1>5 DEF Scanned, Order
  <2> QED BY <2>1, <2>2
<1>8. \A k2 \in Token, e \in BOOLEAN : Refs(k2, e)' = Refs(k2, e)
  BY <1>2, <1>3, <1>5, <1>7, RefsSame
<1>9. ~Pending(t) /\ Pending(t)' /\ Tr(t)'.tok = k
  BY <1>1, <1>2, <1>3, <1>6 DEF Pending
<1>10. WordInv'
  BY <1>2, <1>3, <1>6, <1>8, <1>9, Withdraw
<1>11. WordType'
  BY <1>2, <1>6 DEF WordType
<1> QED BY <1>4, <1>10, <1>11 DEF TokenInv

(* TOK_EXCLUSIVE is cleared, or the withdrawal is undone.                  *)
LEMMA RelExclusiveInv ==
  ASSUME TokenInv, NEW t \in Thread, RelExclusive(t)
  PROVE  TokenInv'
<1>1. PICK k, n : k = Tr(t).tok /\ n = Scan(t)
  OBVIOUS
<1>2. /\ LocalInv /\ WordType /\ WordInv /\ pc[t] = "relcas"
      /\ seen' = [seen EXCEPT ![t] = Free]
  BY DEF TokenInv, RelExclusive
<1>3. \/ /\ t_count' = [t_count EXCEPT ![k].ex = FALSE] /\ Released(t) /\ t_ref' = t_ref
      \/ /\ t_ref' = [t_ref EXCEPT ![k] = <<t, n>>] /\ pc' = [pc EXCEPT ![t] = "rel"]
         /\ t_count' = t_count /\ UNCHANGED <<toks, ctx, scanVars>>
  BY <1>1 DEF RelExclusive
<1>4. /\ n \in 1 .. Len(toks[t]) /\ k \in Token /\ <<t, n>> \in Ref /\ Pending(t)
      /\ seen' \in [Thread -> Count]
  <2>1. Free \in Count
    BY DEF Free, Count
  <2> QED BY <1>1, <1>2, <2>1, ScanFacts, HeldFacts DEF Ref, Pending, WordType
<1>5. CASE t_count' = [t_count EXCEPT ![k].ex = FALSE] /\ Released(t) /\ t_ref' = t_ref
  <2>1. /\ LocalInv' /\ Alone(t) /\ n \in Held(t) /\ Held(t)' = Held(t) \ {n}
        /\ \A i \in Held(t) \ {n} : toks'[t][i] = toks[t][i]
        /\ ~Pending(t)'
    BY <1>1, <1>2, <1>5, ReleasedHeld DEF Pending
  <2>2. toks[t][n] = [tok |-> k, ex |-> TRUE]
    <3>1. <<t, n>> \in Refs(k, TRUE)
      BY <1>1, <1>2, <1>4, PendingFacts
    <3>2. <<t, n>>[1] = t /\ <<t, n>>[2] = n
      OBVIOUS
    <3> QED BY <3>1, <3>2 DEF Refs
  <2>3. /\ Refs(k, TRUE)' = Refs(k, TRUE) \ {<<t, n>>}
        /\ \A k2, e2 : k2 # k \/ e2 # TRUE => Refs(k2, e2)' = Refs(k2, e2)
    <3>1. PICK e : e = TRUE
      OBVIOUS
    <3>2. toks[t][n] = [tok |-> k, ex |-> e] /\ LocalInv
      BY <1>2, <2>2, <3>1
    <3>3. /\ <<t, n>> \in Refs(k, e) /\ Refs(k, e)' = Refs(k, e) \ {<<t, n>>}
          /\ \A k2, e2 : k2 # k \/ e2 # e => Refs(k2, e2)' = Refs(k2, e2)
      BY <2>1, <3>2, RefsRemove
    <3> QED BY <3>1, <3>3
  <2>4. /\ t_count' \in [Token -> Count] /\ ~t_count'[k].ex
        /\ t_count'[k].cnt = t_count[k].cnt
        /\ \A k2 \in Token \ {k} : t_count'[k2] = t_count[k2]
    <3>1. t_count[k] \in Count /\ t_count \in [Token -> Count]
      BY <1>2, <1>4 DEF WordType
    <3>2. PICK v : v = t_count[k]
      OBVIOUS
    <3>b. PICK b \in BOOLEAN : b = FALSE
      OBVIOUS
    <3>3. PICK w : w = [v EXCEPT !.ex = b]
      OBVIOUS
    <3>4. w \in Count /\ w.ex = b /\ w.cnt = v.cnt
      BY <3>1, <3>2, <3>3, CountEx
    <3>5. t_count' = [t_count EXCEPT ![k] = w]
      BY <1>5, <3>b, <3>2, <3>3
    <3> QED BY <1>4, <3>b, <3>1, <3>2, <3>4, <3>5
  <2>5. WordInv'
    <3>1. /\ LocalInv /\ WordInv /\ Alone(t) /\ k = Tr(t).tok /\ n = Scan(t)
          /\ Pending(t) /\ ~Pending(t)' /\ t_ref' = t_ref
      BY <1>1, <1>2, <1>4, <1>5, <2>1
    <3>2. Refs(k, TRUE)' = {}
      BY <2>3, <3>1, PendingFacts
    <3>3. \A k2, e2 : k2 # k \/ e2 # TRUE => Refs(k2, e2)' = Refs(k2, e2)
      BY <2>3
    <3> QED BY <2>4, <3>1, <3>2, <3>3, DropExclusive
  <2>6. WordType'
    BY <1>2, <1>4, <1>5, <2>4 DEF WordType
  <2> QED BY <2>1, <2>5, <2>6 DEF TokenInv
<1>6. CASE /\ t_ref' = [t_ref EXCEPT ![k] = <<t, n>>] /\ pc' = [pc EXCEPT ![t] = "rel"]
           /\ t_count' = t_count /\ UNCHANGED <<toks, ctx, scanVars>>
  <2>1. LocalType' /\ Alone(t) /\ Placed(t)' /\ pc'[t] = "rel"
    BY <1>2, <1>6, PcLocal DEF PCs
  <2>2. LocalInv'
    BY <1>2, <2>1, LocalByThread
  <2>3. toks' = toks /\ cur' = cur /\ sorted' = sorted
    BY <1>6 DEF scanVars
  <2>4. Held(t)' = Held(t)
    <3>1. Held(t) = Scanned(t, cur[t]) /\ Held(t)' = Scanned(t, cur[t])'
      BY <1>2, <2>1, HeldFacts, HeldNext
    <3>2. Scanned(t, cur[t])' = Scanned(t, cur[t])
      BY <2>3 DEF Scanned, Order
    <3> QED BY <3>1, <3>2
  <2>5. \A k2 \in Token, e \in BOOLEAN : Refs(k2, e)' = Refs(k2, e)
    BY <1>2, <2>1, <2>3, <2>4, RefsSame
  <2>6. WordInv'
    BY <1>1, <1>2, <1>4, <1>6, <2>1, <2>5, Record DEF Pending
  <2>7. WordType'
    BY <1>2, <1>4, <1>6 DEF WordType
  <2> QED BY <2>2, <2>6, <2>7 DEF TokenInv
<1> QED BY <1>3, <1>5, <1>6

(* A shared reference is uncounted.                                        *)
LEMMA RelSharedInv ==
  ASSUME TokenInv, NEW t \in Thread, RelShared(t)
  PROVE  TokenInv'
<1>1. PICK k, n : k = Tr(t).tok /\ n = Scan(t)
  OBVIOUS
<1>2. /\ LocalInv /\ WordType /\ WordInv /\ pc[t] = "rel" /\ t_ref[k] # <<t, n>> /\ Released(t)
      /\ t_count' = [t_count EXCEPT ![k].cnt = t_count[k].cnt - 1]
      /\ t_ref' = t_ref /\ seen' = seen
  BY <1>1 DEF TokenInv, RelShared
<1>3. /\ n \in 1 .. Len(toks[t]) /\ k \in Token /\ <<t, n>> \in Ref /\ ~Pending(t)
      /\ Tr(t) \in Tokref
  BY <1>1, <1>2, ScanFacts, HeldFacts DEF Ref, Pending
<1>4. /\ LocalInv' /\ Alone(t) /\ n \in Held(t) /\ Held(t)' = Held(t) \ {n}
      /\ \A i \in Held(t) \ {n} : toks'[t][i] = toks[t][i]
      /\ ~Pending(t)'
  BY <1>1, <1>2, ReleasedHeld DEF Pending
(* were it the exclusive reference, t_ref would name it                    *)
<1>5. toks[t][n] = [tok |-> k, ex |-> FALSE]
  <2>1. Tr(t) = [tok |-> k, ex |-> Tr(t).ex] /\ Tr(t).ex \in BOOLEAN /\ Tr(t) = toks[t][n]
    BY <1>1, <1>3, TokrefFields DEF Tr
  <2>2. ASSUME toks[t][n] = [tok |-> k, ex |-> TRUE] PROVE FALSE
    <3>1. <<t, n>>[1] = t /\ <<t, n>>[2] = n
      OBVIOUS
    <3>2. <<t, n>> \in Refs(k, TRUE)
      BY <1>3, <1>4, <2>2, <3>1 DEF Refs
    <3>3. t_ref[k] = <<t, n>> \/ Pending(<<t, n>>[1])
      BY <1>2, <1>3, <3>2 DEF WordInv, Exact
    <3> QED BY <1>2, <1>3, <3>1, <3>3
  <2> QED BY <2>1, <2>2
<1>6. /\ <<t, n>> \in Refs(k, FALSE) /\ Refs(k, FALSE)' = Refs(k, FALSE) \ {<<t, n>>}
      /\ \A k2, e2 : k2 # k \/ e2 # FALSE => Refs(k2, e2)' = Refs(k2, e2)
  <2>1. PICK e : e = FALSE
    OBVIOUS
  <2>2. toks[t][n] = [tok |-> k, ex |-> e] /\ LocalInv
    BY <1>2, <1>5, <2>1
  <2>3. /\ <<t, n>> \in Refs(k, e) /\ Refs(k, e)' = Refs(k, e) \ {<<t, n>>}
        /\ \A k2, e2 : k2 # k \/ e2 # e => Refs(k2, e2)' = Refs(k2, e2)
    BY <1>4, <2>2, RefsRemove
  <2> QED BY <2>1, <2>3
<1>7. /\ t_count' \in [Token -> Count] /\ t_count'[k].ex = t_count[k].ex
      /\ t_count'[k].cnt = t_count[k].cnt - 1
      /\ \A k2 \in Token \ {k} : t_count'[k2] = t_count[k2]
  <2>1. t_count[k].cnt - 1 \in Nat
    <3>1. t_count[k].cnt = Cardinality(Refs(k, FALSE))
      BY <1>2, <1>3 DEF WordInv, Exact
    <3>2. IsFiniteSet(Refs(k, FALSE)) /\ Cardinality(Refs(k, FALSE)) \in Nat
      BY RefsFacts
    <3>3. Cardinality(Refs(k, FALSE)) # 0
      BY <1>6, <3>2, FS_EmptySet
    <3>4. \A c \in Nat : c # 0 => c - 1 \in Nat
      OBVIOUS
    <3> QED BY <3>1, <3>2, <3>3, <3>4
  <2> QED BY <1>2, <1>3, <2>1, CountChange
<1>8. WordInv'
  <2>1. /\ LocalInv /\ WordInv /\ Alone(t) /\ k \in Token
        /\ ~Pending(t) /\ ~Pending(t)' /\ t_ref' = t_ref
    BY <1>2, <1>3, <1>4
  <2> QED BY <1>6, <1>7, <2>1, CountDown
<1> QED BY <1>2, <1>4, <1>7, <1>8 DEF TokenInv, WordType

-----------------------------------------------------------------------------
(* The inductive invariant holds initially.                                *)
LEMMA TokenInvInit == lwkt_token_init => TokenInv
<1> SUFFICES ASSUME lwkt_token_init PROVE TokenInv
  OBVIOUS
<1> USE DEF lwkt_token_init
<1>1. LocalType
  BY TokBoundAssumption DEF LocalType, PCs, Ctxs
<1>2. ASSUME NEW t \in Thread PROVE Placed(t)
  <2>1. toks[t] = <<>> /\ pc[t] = "run" /\ ctx[t] = "none" /\ cur[t] = 0 /\ ~sorted[t]
    OBVIOUS
  <2>2. Len(toks[t]) = 0
    BY <2>1
  <2> QED BY <2>1, <2>2, TokBoundAssumption DEF Placed
<1>3. LocalInv
  BY <1>1, <1>2 DEF LocalInv
<1>4. WordType
  BY DEF WordType, Free, Count
<1>5. \A k, e : Refs(k, e) = {}
  <2>1. \A t \in Thread : Held(t) = {}
    <3> TAKE t \in Thread
    <3>1. Held(t) = 1 .. Len(toks[t])
      BY <1>3, HeldFacts
    <3>2. Len(toks[t]) = 0
      OBVIOUS
    <3> QED BY <3>1, <3>2
  <2>2. \A r \in Ref : r[1] \in Thread
    BY DEF Ref
  <2> QED BY <2>1, <2>2 DEF Refs
<1>6. ASSUME NEW k \in Token PROVE Exact(k)
  <2>1. ~t_count[k].ex /\ t_count[k].cnt = 0 /\ t_ref[k] = NULL
    BY DEF Free
  <2>2. Cardinality(Refs(k, FALSE)) = 0 /\ Refs(k, TRUE) = {}
    BY <1>5, FS_EmptySet
  <2> QED BY <2>1, <2>2 DEF Exact
<1>7. ASSUME NEW t \in Thread PROVE Withdrawn(t)
  BY DEF Withdrawn, Pending
<1> QED BY <1>3, <1>4, <1>6, <1>7 DEF TokenInv, WordInv

(* Nothing happens.                                                        *)
LEMMA StutterInv == ASSUME TokenInv, UNCHANGED vars PROVE TokenInv'
<1>1. /\ t_count' = t_count /\ t_ref' = t_ref /\ toks' = toks /\ pc' = pc /\ ctx' = ctx
      /\ cur' = cur /\ seen' = seen /\ spin' = spin /\ spinning' = spinning
      /\ sorted' = sorted /\ idle' = idle
  BY DEF vars
<1>2. LocalInv' /\ WordType'
  BY <1>1 DEF TokenInv, LocalInv, LocalType, Placed, WordType
<1>3. WordInv'
  <2>1. \A t : Held(t)' = Held(t) /\ Scan(t)' = Scan(t) /\ Tr(t)' = Tr(t)
    BY <1>1 DEF Held, Scan, Tr
  <2>2. \A k, e : Refs(k, e)' = Refs(k, e)
    BY <1>1, <2>1 DEF Refs
  <2>3. \A k : Exact(k)' <=> Exact(k)
    BY <1>1, <2>1, <2>2 DEF Exact, Pending
  <2>4. \A t : Withdrawn(t)' <=> Withdrawn(t)
    BY <1>1, <2>1, <2>2 DEF Withdrawn, Pending
  <2> QED BY <2>3, <2>4 DEF TokenInv, WordInv
<1> QED BY <1>2, <1>3 DEF TokenInv

(* Every step keeps the inductive invariant.                               *)
LEMMA TokenInvStep == TokenInv /\ [Next]_vars => TokenInv'
<1> SUFFICES ASSUME TokenInv, [Next]_vars PROVE TokenInv'
  OBVIOUS
<1>1. ASSUME NEW t \in Thread, Step(t) PROVE TokenInv'
  BY <1>1, TryExclusiveInv, SetRefInv, TryOwnInv, TrySharedInv, TryFailInv, SetReqInv,
     RelRefInv, RelExclusiveInv, RelSharedInv DEF Step
<1>2. ASSUME NEW t \in Thread, NEW k \in Token, NEW o \in Ops, Push(t, k, o) PROVE TokenInv'
  BY <1>2, PushInv
<1>3. ASSUME NEW t \in Thread, lwkt_reltoken(t) \/ \E o \in Ops : lwkt_switch(t, o)
      PROVE  TokenInv'
  BY <1>3, GiveUpInv
<1>4. ASSUME NEW t \in Thread, lwkt_token_swap(t) PROVE TokenInv'
  BY <1>4, SwapInv
<1>5. ASSUME NEW t \in Thread, Wakeup(t) PROVE TokenInv'
  BY <1>5, WakeupInv
<1>6. ASSUME UNCHANGED vars PROVE TokenInv'
  BY <1>6, StutterInv
<1> QED BY <1>1, <1>2, <1>3, <1>4, <1>5, <1>6 DEF Next

(* The inductive invariant: stacks, scans, words and t_ref agree.          *)
THEOREM TokenInvariant == Spec => []TokenInv
BY TokenInvInit, TokenInvStep, PTL DEF Spec

(* Types: in particular the count of a word never drops below zero and no  *)
(* stack outgrows td_toks_array.                                           *)
THEOREM TokenTypes == Spec => []TypeOK
<1>1. TokenInv => TypeOK
  <2> SUFFICES ASSUME TokenInv PROVE TypeOK
    OBVIOUS
  <2>1. \A t \in Thread : Len(toks[t]) <= MaxRefs
    BY DEF TokenInv, LocalInv, Placed
  <2> QED BY <2>1 DEF TokenInv, LocalInv, LocalType, WordType, TypeOK, PCs, Ctxs
<1> QED BY <1>1, TokenInvariant, PTL

(* A thread holds a token when one of its references to it is held.        *)
LEMMA HoldsRefs ==
  ASSUME TokenInv, NEW t \in Thread, NEW k, NEW e
  PROVE  Holds(t, k, e) <=> \E r \in Refs(k, e) : r[1] = t
<1>1. ASSUME Holds(t, k, e) PROVE \E r \in Refs(k, e) : r[1] = t
  <2>1. PICK i \in Held(t) : toks[t][i] = [tok |-> k, ex |-> e]
    BY <1>1 DEF Holds
  <2>2. <<t, i>> \in Ref
    BY HeldFacts DEF Ref, TokenInv
  <2>3. <<t, i>>[1] = t /\ <<t, i>>[2] = i
    OBVIOUS
  <2>4. <<t, i>> \in Refs(k, e)
    BY <2>1, <2>2, <2>3 DEF Refs
  <2> QED BY <2>3, <2>4
<1>2. ASSUME NEW r \in Refs(k, e), r[1] = t PROVE Holds(t, k, e)
  BY <1>2 DEF Refs, Holds
<1> QED BY <1>1, <1>2

(***************************************************************************)
(* Two threads never hold a token together unless both hold it shared:     *)
(* every exclusive reference is the only one, and the shared references    *)
(* beside it are its own thread's.                                         *)
(***************************************************************************)
THEOREM TokensExclude == Spec => []TokenExclusion
<1>1. TokenInv => TokenExclusion
  <2> SUFFICES ASSUME TokenInv, NEW t \in Thread, NEW u \in Thread, NEW k \in Token,
                      t # u, Holds(t, k, TRUE)
               PROVE  ~Holds(u, k, TRUE) /\ ~Holds(u, k, FALSE)
    BY DEF TokenExclusion
  <2>1. /\ \A r, q \in Refs(k, TRUE) : r = q
        /\ \A r \in Refs(k, TRUE), q \in Refs(k, FALSE) : r[1] = q[1]
    BY DEF TokenInv, WordInv, Exact
  <2>2. \E r \in Refs(k, TRUE) : r[1] = t
    BY HoldsRefs
  <2>3. ~ \E r \in Refs(k, TRUE) : r[1] = u
    BY <2>1, <2>2
  <2>4. ~ \E r \in Refs(k, FALSE) : r[1] = u
    BY <2>1, <2>2
  <2> QED BY <2>3, <2>4, HoldsRefs
<1> QED BY <1>1, TokenInvariant, PTL

(* The word of every token counts exactly the references that are held.    *)
THEOREM TokenCountsExact == Spec => []TokenCountExact
<1>1. TokenInv => TokenCountExact
  <2> SUFFICES ASSUME TokenInv, NEW k \in Token
               PROVE  /\ t_count[k].ex <=> \E t \in Thread : Holds(t, k, TRUE)
                      /\ t_count[k].cnt = Cardinality(Refs(k, FALSE))
    BY DEF TokenCountExact, Refs
  <2>1. /\ t_count[k].ex <=> Refs(k, TRUE) # {}
        /\ t_count[k].cnt = Cardinality(Refs(k, FALSE))
    BY DEF TokenInv, WordInv, Exact
  <2>2. Refs(k, TRUE) # {} <=> \E t \in Thread : \E r \in Refs(k, TRUE) : r[1] = t
    <3>1. \A r \in Refs(k, TRUE) : r[1] \in Thread
      BY DEF Refs, Ref
    <3> QED BY <3>1
  <2> QED BY <2>1, <2>2, HoldsRefs
<1> QED BY <1>1, TokenInvariant, PTL

(* t_ref is NULL while TOK_EXCLUSIVE changes hands, and names the one      *)
(* exclusive reference otherwise, through recursion and swaps.             *)
THEOREM TokenRefsExact == Spec => []RefExact
<1>1. TokenInv => RefExact
  <2> SUFFICES ASSUME TokenInv PROVE RefExact
    OBVIOUS
  <2>0. LocalInv /\ WordInv /\ WordType
    BY DEF TokenInv
  <2>1. ASSUME NEW t \in Thread, pc[t] = "setref" PROVE t_ref[Tr(t).tok] = NULL
    BY <2>0, <2>1, PendingFacts DEF Pending
  <2>2. ASSUME NEW t \in Thread, pc[t] = "run", NEW i \in 1 .. Len(toks[t]), toks[t][i].ex
        PROVE  t_ref[toks[t][i].tok] = <<t, i>>
    <3>1. PICK k : k = toks[t][i].tok
      OBVIOUS
    <3>2. toks[t][i] \in Tokref
      BY <2>0, LocalFacts
    <3>3. toks[t][i] = [tok |-> k, ex |-> TRUE] /\ k \in Token
      BY <2>2, <3>1, <3>2, TokrefFields
    <3>4. i \in Held(t) /\ <<t, i>> \in Ref
      BY <2>0, <2>2, HeldFacts DEF Ref
    <3>5. <<t, i>>[1] = t /\ <<t, i>>[2] = i
      OBVIOUS
    <3>6. <<t, i>> \in Refs(k, TRUE)
      BY <3>3, <3>4, <3>5 DEF Refs
    <3>7. t_ref[k] = <<t, i>> \/ Pending(<<t, i>>[1])
      BY <2>0, <3>3, <3>6 DEF WordInv, Exact
    <3> QED BY <2>2, <3>1, <3>5, <3>7 DEF Pending
  <2>3. ASSUME NEW k \in Token, t_ref[k] # NULL
        PROVE  LET r == t_ref[k]
               IN  r[2] \in Held(r[1]) /\ toks[r[1]][r[2]] = [tok |-> k, ex |-> TRUE]
    <3>1. t_ref[k] \in Refs(k, TRUE)
      BY <2>0, <2>3 DEF WordInv, Exact
    <3> QED BY <3>1 DEF Refs
  <2> QED BY <2>1, <2>2, <2>3 DEF RefExact
<1> QED BY <1>1, TokenInvariant, PTL

-----------------------------------------------------------------------------
(* Tokens implement TokenSpec.                                             *)

(***************************************************************************)
(* No stack has two exclusive references to one token, but for the one     *)
(* that is being tried.  So getalltokens never turns a reference into a    *)
(* shared one: a thread gets back exactly what it gave up.                 *)
(***************************************************************************)
Depth(t) ==
  IF pc[t] = "try" /\ ctx[t] \in {"get", "trytoken"} THEN Len(toks[t]) - 1 ELSE Len(toks[t])

PairFree(s, n) ==
  \A i, j \in 1 .. n : i # j /\ s[i].ex /\ s[j].ex => s[i].tok # s[j].tok

StackInv == \A t \in Thread : PairFree(toks[t], Depth(t))

(* A step of t alone keeps StackInv if it keeps it for t.                  *)
LEMMA StackByThread ==
  ASSUME StackInv, NEW t \in Thread, Alone(t), PairFree(toks[t], Depth(t))'
  PROVE  StackInv'
BY DEF StackInv, Alone, Depth

(* The thread that tries a token it has exclusively finds that it has it.  *)
LEMMA TryFree ==
  ASSUME TokenInv, StackInv, NEW t \in Thread, pc[t] = "try",
         LET k == Tr(t).tok
         IN  ~Tr(t).ex \/ ~t_count[k].ex \/ ~OwnRef(t, k)
  PROVE  PairFree(toks[t], Len(toks[t]))
<1>0. LocalInv /\ WordInv
  BY DEF TokenInv
<1>1. /\ PairFree(toks[t], Depth(t)) /\ toks[t] \in Seq(Tokref) /\ Len(toks[t]) \in Nat
      /\ cur[t] \in 1 .. Len(toks[t]) /\ ctx[t] \in {"get", "trytoken", "getall"}
      /\ ctx[t] \in {"get", "trytoken"} => cur[t] = Len(toks[t]) /\ ~sorted[t]
  BY <1>0, LocalFacts DEF StackInv, Placed
<1>2. CASE ctx[t] = "getall"
  BY <1>1, <1>2 DEF Depth
<1>3. CASE ctx[t] \in {"get", "trytoken"}
  <2>1. PICK n \in Nat : n = Len(toks[t]) /\ Scan(t) = n /\ n \in 1 .. Len(toks[t])
    BY <1>1, <1>3 DEF Scan
  <2>2. Depth(t) = n - 1 /\ Held(t) = 1 .. n - 1
    <3>1. Held(t) = Scanned(t, cur[t] - 1)
      BY <1>0, HeldFacts
    <3> QED BY <1>1, <1>3, <2>1, <3>1 DEF Depth, Scanned, Order
  <2>3. ASSUME NEW i \in 1 .. n - 1, toks[t][i].ex, toks[t][n].ex, toks[t][i].tok = toks[t][n].tok
        PROVE  FALSE
    <3>1. PICK k : k = Tr(t).tok
      OBVIOUS
    <3>2. i \in Held(t) /\ i \in 1 .. Len(toks[t]) /\ toks[t][i] \in Tokref
      BY <1>1, <2>1, <2>2
    <3>3. toks[t][i] = [tok |-> k, ex |-> TRUE] /\ k \in Token /\ Tr(t).ex
      BY <2>1, <2>3, <3>1, <3>2, TokrefFields DEF Tr
    <3>4. <<t, i>> \in Ref /\ <<t, i>>[1] = t /\ <<t, i>>[2] = i
      BY <1>0, <3>2, HeldFacts DEF Ref
    <3>5. <<t, i>> \in Refs(k, TRUE)
      BY <3>2, <3>3, <3>4 DEF Refs
    <3>6. t_count[k].ex /\ (t_ref[k] = <<t, i>> \/ Pending(<<t, i>>[1]))
      BY <1>0, <3>3, <3>5 DEF WordInv, Exact
    <3>7. OwnRef(t, k)
      BY <3>2, <3>4, <3>6 DEF OwnRef, Pending
    <3> QED BY <3>1, <3>3, <3>6, <3>7
  <2>4. \A i \in 1 .. n : i = n \/ i \in 1 .. n - 1
    OBVIOUS
  <2>5. PairFree(toks[t], n - 1)
    BY <1>1, <2>2
  <2> QED BY <2>1, <2>3, <2>4, <2>5 DEF PairFree
<1> QED BY <1>1, <1>2, <1>3

(* Where no reference is being tried, the stack is free of pairs.          *)
LEMMA NotTrying ==
  ASSUME StackInv, NEW t \in Thread, pc[t] # "try"
  PROVE  PairFree(toks[t], Len(toks[t]))
BY DEF StackInv, Depth

(* A stack without pairs keeps none when references are popped or become   *)
(* shared.                                                                 *)
LEMMA StackKept ==
  ASSUME LocalInv, LocalInv', StackInv, NEW t \in Thread, Alone(t),
         PairFree(toks[t], Len(toks[t])), Len(toks'[t]) <= Len(toks[t]),
         \A i \in 1 .. Len(toks'[t]) :
           toks'[t][i].tok = toks[t][i].tok /\ (toks'[t][i].ex => toks[t][i].ex)
  PROVE  StackInv'
<1>1. Len(toks[t]) \in Nat
  BY LocalFacts
<1>2. toks'[t] \in Seq(Tokref)
  BY DEF LocalInv, LocalType
<1>3. Len(toks'[t]) \in Nat
  BY <1>2
<1>4. PICK d \in Int : d = Depth(t)' /\ d <= Len(toks'[t])
  <2>1. Depth(t)' = Len(toks'[t]) - 1 \/ Depth(t)' = Len(toks'[t])
    BY DEF Depth
  <2>2. Len(toks'[t]) - 1 \in Int /\ Len(toks'[t]) \in Int
        /\ Len(toks'[t]) - 1 <= Len(toks'[t])
    BY <1>3
  <2> QED BY <2>1, <2>2
<1>5. PairFree(toks'[t], d)
  <2>1. \A i \in 1 .. d : i \in 1 .. Len(toks'[t]) /\ i \in 1 .. Len(toks[t])
    BY <1>1, <1>3, <1>4
  <2> QED BY <2>1 DEF PairFree
<1>6. PairFree(toks[t], Depth(t))'
  BY <1>4, <1>5
<1> QED BY <1>6, StackByThread

(* The same for a step that leaves the stack or pops its last reference.   *)
LEMMA StackPopped ==
  ASSUME LocalInv, LocalInv', StackInv, NEW t \in Thread, Alone(t),
         PairFree(toks[t], Len(toks[t])), Len(toks[t]) > 0,
         toks' = toks \/ toks' = [toks EXCEPT ![t] = SubSeq(@, 1, Len(@) - 1)]
  PROVE  StackInv'
<1>1. toks \in [Thread -> Seq(Tokref)] /\ toks[t] \in Seq(Tokref) /\ Len(toks[t]) \in Nat
  BY LocalFacts DEF LocalInv, LocalType
<1>2. CASE toks' = toks
  BY <1>1, <1>2, StackKept
<1>3. CASE toks' = [toks EXCEPT ![t] = SubSeq(@, 1, Len(@) - 1)]
  <2>1. PICK r : r = SubSeq(toks[t], 1, Len(toks[t]) - 1)
    OBVIOUS
  <2>2. r \in Seq(Tokref) /\ Len(r) = Len(toks[t]) - 1
        /\ \A i \in 1 .. Len(toks[t]) - 1 : r[i] = toks[t][i]
    BY <1>1, <2>1, PopTokref
  <2>3. toks'[t] = r
    BY <1>1, <1>3, <2>1
  <2>4. Len(r) <= Len(toks[t]) /\ \A i \in 1 .. Len(r) : r[i] = toks[t][i]
    BY <1>1, <2>2
  <2>5. Len(toks'[t]) <= Len(toks[t]) /\ \A i \in 1 .. Len(toks'[t]) :
           toks'[t][i].tok = toks[t][i].tok /\ (toks'[t][i].ex => toks[t][i].ex)
    BY <2>3, <2>4
  <2> QED BY <2>5, StackKept
<1> QED BY <1>2, <1>3

(* The steps of trytokref.                                                 *)
LEMMA StackTry ==
  ASSUME TokenInv, StackInv, LocalInv', NEW t \in Thread,
         TryExclusive(t) \/ SetRef(t) \/ TryOwn(t) \/ TryShared(t) \/ TryFail(t) \/ SetReq(t)
  PROVE  StackInv'
<1>0. LocalInv
  BY DEF TokenInv
<1>1. toks \in [Thread -> Seq(Tokref)]
  BY <1>0 DEF LocalInv, LocalType
<1>2. pc[t] \in {"try", "setref", "setreq"}
  BY DEF TryExclusive, SetRef, TryOwn, TryShared, TryFail, SetReq
<1>3. toks[t] \in Seq(Tokref) /\ Len(toks[t]) \in Nat /\ Len(toks[t]) > 0
  BY <1>0, <1>2, LocalFacts
<1>4. CASE TryExclusive(t)
  <2>1. /\ pc[t] = "try" /\ ~t_count[Tr(t).tok].ex /\ pc' = [pc EXCEPT ![t] = "setref"]
        /\ UNCHANGED <<toks, ctx, scanVars>>
    BY <1>4 DEF TryExclusive
  <2>2. Alone(t)
    BY <1>0, <2>1, PcLocal DEF PCs
  <2>3. PairFree(toks[t], Len(toks[t]))
    BY <2>1, TryFree
  <2> QED BY <1>0, <1>3, <2>1, <2>2, <2>3, StackPopped
<1>5. CASE SetRef(t)
  <2>1. pc[t] = "setref" /\ toks' = toks /\ Acquired(t)
    BY <1>5 DEF SetRef
  <2>2. Alone(t)
    BY <1>0, <1>1, <2>1, AcquiredLocal
  <2> QED BY <1>0, <1>3, <2>1, <2>2, NotTrying, StackPopped
<1>6. CASE TryShared(t)
  <2>1. pc[t] = "try" /\ ~Tr(t).ex /\ toks' = toks /\ Acquired(t)
    BY <1>6 DEF TryShared
  <2>2. Alone(t)
    BY <1>0, <1>1, <2>1, AcquiredLocal
  <2> QED BY <1>0, <1>3, <2>1, <2>2, TryFree, StackPopped
<1>7. CASE TryOwn(t)
  <2>1. pc[t] = "try" /\ toks' = [toks EXCEPT ![t][Scan(t)].ex = FALSE] /\ Acquired(t)
    BY <1>7 DEF TryOwn
  <2>2. PICK n : n = Scan(t) /\ n \in 1 .. Len(toks[t]) /\ Tr(t) = toks[t][n]
    BY <1>0, <2>1, ScanFacts DEF Tr
  <2>3. /\ toks' \in [Thread -> Seq(Tokref)] /\ Len(toks'[t]) = Len(toks[t])
        /\ \A u \in Thread \ {t} : toks'[u] = toks[u]
        /\ \A i \in 1 .. Len(toks[t]) : i # n => toks'[t][i] = toks[t][i]
        /\ toks'[t][n] = [tok |-> toks[t][n].tok, ex |-> FALSE]
    BY <1>0, <2>1, <2>2, OwnLocal
  <2>4. Alone(t) /\ AcquiredTo(t)
    BY <1>0, <2>1, <2>3, AcquiredLocal
  <2>5. /\ \A i \in 1 .. Len(toks[t]) :
             toks'[t][i].tok = toks[t][i].tok /\ (toks'[t][i].ex => toks[t][i].ex)
        /\ ~toks'[t][n].ex
    BY <2>3
  <2>6. CASE ctx[t] = "getall"
    <3>1. PairFree(toks[t], Len(toks[t]))
      BY <2>6 DEF StackInv, Depth
    <3> QED BY <1>0, <1>3, <2>3, <2>4, <2>5, <3>1, StackKept
  <2>7. CASE ctx[t] # "getall"
    <3>1. ctx[t] \in {"get", "trytoken"} /\ n = Len(toks[t])
      BY <1>0, <2>1, <2>2, <2>7, LocalFacts DEF Placed, Scan
    <3>2. PairFree(toks[t], n - 1)
      BY <2>1, <3>1 DEF StackInv, Depth
    <3>3. PairFree(toks'[t], n)
      <4>1. \A i \in 1 .. n : i # n => i \in 1 .. n - 1
        BY <1>3, <3>1
      <4> QED BY <2>5, <3>1, <3>2, <4>1 DEF PairFree
    <3>4. Depth(t)' = n
      BY <2>3, <2>4, <2>7, <3>1 DEF Depth, AcquiredTo
    <3>5. PairFree(toks[t], Depth(t))'
      BY <3>3, <3>4
    <3> QED BY <2>4, <3>5, StackByThread
  <2> QED BY <2>6, <2>7
<1>8. CASE TryFail(t)
  <2>1. /\ pc[t] = "try" /\ ~(t_count[Tr(t).tok].ex /\ OwnRef(t, Tr(t).tok))
        /\ \/ pc' = [pc EXCEPT ![t] = "setreq"] /\ UNCHANGED <<toks, ctx, scanVars>>
           \/ Failed(t)
    BY <1>8 DEF TryFail
  <2>2. PairFree(toks[t], Len(toks[t]))
    BY <2>1, TryFree
  <2>3. CASE pc' = [pc EXCEPT ![t] = "setreq"] /\ UNCHANGED <<toks, ctx, scanVars>>
    <3>1. Alone(t)
      BY <1>0, <2>1, <2>3, PcLocal DEF PCs
    <3> QED BY <1>0, <1>3, <2>2, <2>3, <3>1, StackPopped
  <2>4. CASE Failed(t)
    <3>1. Alone(t) /\ FailedTo(t)
      BY <1>0, <2>1, <2>4, FailedLocal
    <3>2. toks' = toks \/ toks' = [toks EXCEPT ![t] = SubSeq(@, 1, Len(@) - 1)]
      BY <3>1 DEF FailedTo
    <3> QED BY <1>0, <1>3, <2>2, <3>1, <3>2, StackPopped
  <2> QED BY <2>1, <2>3, <2>4
<1>9. CASE SetReq(t)
  <2>1. pc[t] = "setreq" /\ Failed(t)
    BY <1>9 DEF SetReq
  <2>2. Alone(t) /\ FailedTo(t)
    BY <1>0, <2>1, FailedLocal
  <2>3. toks' = toks \/ toks' = [toks EXCEPT ![t] = SubSeq(@, 1, Len(@) - 1)]
    BY <2>2 DEF FailedTo
  <2> QED BY <1>0, <1>3, <2>1, <2>2, <2>3, NotTrying, StackPopped
<1> QED BY <1>4, <1>5, <1>6, <1>7, <1>8, <1>9

(* The steps of reltokref.                                                 *)
LEMMA StackRel ==
  ASSUME TokenInv, StackInv, LocalInv', NEW t \in Thread,
         RelRef(t) \/ RelExclusive(t) \/ RelShared(t)
  PROVE  StackInv'
<1>0. LocalInv
  BY DEF TokenInv
<1>1. pc[t] \in {"rel", "relcas"}
  BY DEF RelRef, RelExclusive, RelShared
<1>2. Len(toks[t]) > 0 /\ PairFree(toks[t], Len(toks[t]))
  BY <1>0, <1>1, LocalFacts, NotTrying
<1>3. CASE Released(t)
  <2>1. Alone(t) /\ ReleasedTo(t)
    BY <1>0, <1>1, <1>3, ReleasedLocal
  <2>2. toks' = toks \/ toks' = [toks EXCEPT ![t] = SubSeq(@, 1, Len(@) - 1)]
    BY <2>1 DEF ReleasedTo
  <2> QED BY <1>0, <1>2, <2>1, <2>2, StackPopped
<1>4. CASE ~Released(t)
  <2>1. PICK p \in {"rel", "relcas"} :
          pc' = [pc EXCEPT ![t] = p] /\ UNCHANGED <<toks, ctx, scanVars>>
    BY <1>4 DEF RelRef, RelExclusive, RelShared
  <2>2. Alone(t)
    BY <1>0, <1>1, <2>1, PcLocal DEF PCs
  <2> QED BY <1>0, <1>2, <2>1, <2>2, StackPopped
<1> QED BY <1>3, <1>4

(* The entry points and the wakeup.                                        *)
LEMMA StackCalls ==
  ASSUME TokenInv, StackInv, LocalInv', NEW t \in Thread,
         \/ \E k \in Token, o \in Ops : Push(t, k, o)
         \/ lwkt_reltoken(t) \/ lwkt_token_swap(t)
         \/ \E o \in Ops : lwkt_switch(t, o)
         \/ Wakeup(t)
  PROVE  StackInv'
<1>0. LocalInv
  BY DEF TokenInv
<1>1. pc[t] \in {"run", "asleep"}
  BY DEF Push, lwkt_reltoken, lwkt_token_swap, lwkt_switch, Wakeup
<1>2. /\ PairFree(toks[t], Len(toks[t])) /\ toks[t] \in Seq(Tokref)
      /\ Len(toks[t]) \in Nat /\ Len(toks[t]) <= MaxRefs
      /\ toks \in [Thread -> Seq(Tokref)]
  BY <1>0, <1>1, LocalFacts, NotTrying DEF Placed, LocalInv, LocalType
<1>3. CASE \E k \in Token, o \in Ops : Push(t, k, o)
  <2>1. PICK k \in Token, o \in Ops : Push(t, k, o)
    BY <1>3
  <2>2. PICK e \in Tokref : toks' = [toks EXCEPT ![t] = Append(@, e)]
    <3>1. PICK b \in BOOLEAN : b = (o # "gettoken_shared")
      OBVIOUS
    <3>2. [tok |-> k, ex |-> b] \in Tokref
      BY DEF Tokref
    <3> QED BY <2>1, <3>1, <3>2 DEF Push
  <2>3. PICK s : s = Append(toks[t], e)
    OBVIOUS
  <2>4. s \in Seq(Tokref) /\ Len(s) = Len(toks[t]) + 1
        /\ \A i \in 1 .. Len(toks[t]) : s[i] = toks[t][i]
    BY <1>2, <2>3, PushTokref
  <2>5. toks'[t] = s
    BY <1>2, <2>2, <2>3
  <2>6. pc'[t] = "try" /\ ctx'[t] \in {"get", "trytoken"}
        /\ \A u \in Thread \ {t} :
             /\ toks'[u] = toks[u] /\ pc'[u] = pc[u] /\ ctx'[u] = ctx[u]
             /\ cur'[u] = cur[u] /\ sorted'[u] = sorted[u]
    BY <1>0, <2>1 DEF Push, At, LocalInv, LocalType
  <2>7. Depth(t)' = Len(toks[t])
    BY <1>2, <2>4, <2>5, <2>6 DEF Depth
  <2>8. PairFree(s, Len(toks[t]))
    BY <1>2, <2>4 DEF PairFree
  <2>9. PairFree(toks[t], Depth(t))'
    BY <2>5, <2>7, <2>8
  <2> QED BY <2>6, <2>9, StackByThread DEF Alone
<1>4. CASE toks' = toks /\ toks[t] # <<>> /\ Alone(t)
  BY <1>0, <1>2, <1>4, StackPopped
<1>5. CASE lwkt_reltoken(t) \/ \E o \in Ops : lwkt_switch(t, o)
  <2>1. PICK c \in {"reltoken", "yield", "sleep"} : At(t, "rel", c, Len(toks[t]))
    BY <1>5 DEF lwkt_reltoken, lwkt_switch
  <2>2. UNCHANGED <<toks, spinning, sorted, idle>> /\ toks[t] # <<>>
    BY <1>5 DEF lwkt_reltoken, lwkt_switch
  <2>3. Len(toks[t]) \in 0 .. MaxRefs /\ c \in Ctxs /\ "rel" \in PCs
    BY <1>2, TokBoundAssumption DEF Ctxs, PCs
  <2>4. Alone(t)
    BY <1>0, <2>1, <2>2, <2>3, MoveLocal
  <2> QED BY <1>4, <2>2, <2>4
<1>6. CASE Wakeup(t)
  <2>1. toks' = toks /\ Len(toks[t]) > 0
    BY <1>0, <1>6, LocalFacts DEF Wakeup, Placed
  <2>2. Alone(t)
    BY <1>0, <1>6 DEF Wakeup, At, Alone, LocalInv, LocalType
  <2> QED BY <1>0, <1>2, <2>1, <2>2, StackPopped
<1>7. CASE lwkt_token_swap(t)
  <2>1. PICK n : n = Len(toks[t])
    OBVIOUS
  <2>2. /\ Alone(t) /\ Len(toks'[t]) = n /\ n >= 2 /\ n \in Nat
        /\ toks'[t][n] = toks[t][n - 1] /\ toks'[t][n - 1] = toks[t][n]
        /\ \A i \in 1 .. n - 2 : toks'[t][i] = toks[t][i]
    BY <1>0, <1>2, <1>7, <2>1, SwapLocal
  <2>3. pc'[t] = "run"
    BY <1>7 DEF lwkt_token_swap
  <2>4. Depth(t)' = n
    BY <2>2, <2>3 DEF Depth
  <2>5. PairFree(toks[t], n)
    BY <1>2, <2>1
  <2>6. PICK f : f = [i \in 1 .. n |-> IF i = n THEN n - 1 ELSE IF i = n - 1 THEN n ELSE i]
    OBVIOUS
  <2>7. \A i \in 1 .. n : f[i] \in 1 .. n /\ toks'[t][i] = toks[t][f[i]]
    BY <2>2, <2>6
  <2>8. \A i, j \in 1 .. n : i # j => f[i] # f[j]
    BY <2>2, <2>6
  <2>9. PairFree(toks'[t], n)
    BY <2>5, <2>7, <2>8 DEF PairFree
  <2>10. PairFree(toks[t], Depth(t))'
    BY <2>4, <2>9
  <2> QED BY <2>2, <2>10, StackByThread
<1> QED BY <1>3, <1>5, <1>6, <1>7

(* Every step keeps StackInv.                                              *)
LEMMA StackStep == TokenInv /\ TokenInv' /\ StackInv /\ [Next]_vars => StackInv'
<1> SUFFICES ASSUME TokenInv, TokenInv', StackInv, [Next]_vars PROVE StackInv'
  OBVIOUS
<1>1. LocalInv'
  BY DEF TokenInv
<1>2. CASE UNCHANGED vars
  BY <1>2 DEF vars, StackInv, Depth
<1>3. CASE Next
  <2>1. PICK t \in Thread :
          \/ Step(t)
          \/ \E k \in Token, o \in Ops : Push(t, k, o)
          \/ lwkt_reltoken(t) \/ lwkt_token_swap(t)
          \/ \E o \in Ops : lwkt_switch(t, o)
          \/ Wakeup(t)
    BY <1>3 DEF Next
  <2> QED BY <1>1, <2>1, StackTry, StackRel, StackCalls DEF Step
<1> QED BY <1>2, <1>3

(***************************************************************************)
(* No stack of a running or switched-out thread names a token exclusively  *)
(* twice: trytokref makes the second reference a shared one.               *)
(***************************************************************************)
THEOREM StackInvariant == Spec => []StackInv
<1>1. lwkt_token_init => StackInv
  BY DEF lwkt_token_init, StackInv, Depth, PairFree
<1> QED BY <1>1, StackStep, TokenInvariant, PTL DEF Spec

-----------------------------------------------------------------------------
(* The refinement mapping.                                                 *)
AbsStack == [t \in Thread |-> Owned(t)]
AbsRuns == [t \in Thread |-> Runs(t)]
absVars == <<AbsStack, AbsRuns>>

(* What is on the abstract stack, and that a running thread holds it.      *)
LEMMA OwnedFacts ==
  ASSUME LocalInv, NEW t \in Thread
  PROVE  /\ Owned(t) \in Seq(Tokref) /\ Len(Owned(t)) \in Nat
         /\ \A i \in 1 .. Len(Owned(t)) : i \in 1 .. Len(toks[t]) /\ Owned(t)[i] = toks[t][i]
         /\ Runs(t) => 1 .. Len(Owned(t)) \subseteq Held(t)
         /\ ctx[t] \notin {"get", "trytoken"} => Owned(t) = toks[t]
         /\ ctx[t] \in {"get", "trytoken"} => Len(Owned(t)) = Len(toks[t]) - 1
<1>1. toks[t] \in Seq(Tokref) /\ Len(toks[t]) \in Nat /\ Placed(t) /\ pc[t] \in PCs
  BY LocalFacts
<1>2. CASE ctx[t] \in {"get", "trytoken"}
  <2>1. pc[t] \in {"try", "setref", "setreq"} /\ cur[t] = Len(toks[t])
        /\ Len(toks[t]) > 0 /\ ~sorted[t]
    BY <1>1, <1>2, LocalFacts DEF Placed, PCs
  <2>2. PICK r : r = SubSeq(toks[t], 1, Len(toks[t]) - 1) /\ Owned(t) = r
    BY <1>2 DEF Owned
  <2>3. r \in Seq(Tokref) /\ Len(r) = Len(toks[t]) - 1
        /\ \A i \in 1 .. Len(toks[t]) - 1 : r[i] = toks[t][i]
    BY <1>1, <2>1, <2>2, PopTokref
  <2>4. Held(t) = Scanned(t, cur[t] - 1) \/ Held(t) = Scanned(t, cur[t])
    BY <2>1, HeldFacts
  <2>5. 1 .. Len(toks[t]) - 1 \subseteq Held(t)
    BY <1>1, <2>1, <2>4 DEF Scanned, Order
  <2> QED BY <1>1, <1>2, <2>1, <2>2, <2>3, <2>5
<1>3. CASE ctx[t] \notin {"get", "trytoken"}
  <2>1. Owned(t) = toks[t]
    BY <1>3 DEF Owned
  <2>2. ASSUME Runs(t) PROVE 1 .. Len(toks[t]) \subseteq Held(t)
    <3>1. CASE pc[t] = "run"
      BY <3>1, HeldFacts
    <3>2. CASE pc[t] # "run"
      <4>1. pc[t] \in {"rel", "relcas"} /\ cur[t] = Len(toks[t])
        BY <1>1, <1>3, <2>2, <3>2 DEF Runs, Placed, PCs
      <4> QED BY <4>1, HeldFacts, ScannedFacts
    <3> QED BY <3>1, <3>2
  <2> QED BY <1>1, <1>3, <2>1, <2>2
<1> QED BY <1>2, <1>3

(* A step of t changes the abstract state of t only.                       *)
LEMMA MapOne ==
  ASSUME LocalInv, NEW t \in Thread, Alone(t), NEW s, s = Owned(t)',
         NEW b \in BOOLEAN, b = Runs(t)'
  PROVE  /\ AbsStack' = [AbsStack EXCEPT ![t] = s]
         /\ AbsRuns' = [AbsRuns EXCEPT ![t] = b]
<1>1. \A u \in Thread \ {t} : Owned(u)' = Owned(u) /\ Runs(u)' = Runs(u)
  BY DEF Alone, Owned, Runs
<1> QED BY <1>1 DEF AbsStack, AbsRuns

(* A step of t that changes nothing of t's abstract state.                 *)
LEMMA MapSame ==
  ASSUME NEW t \in Thread, Alone(t), Owned(t)' = Owned(t), Runs(t)' = Runs(t)
  PROVE  absVars' = absVars
<1>1. \A u \in Thread : Owned(u)' = Owned(u) /\ Runs(u)' = Runs(u)
  BY DEF Alone, Owned, Runs
<1> QED BY <1>1 DEF AbsStack, AbsRuns, absVars

(***************************************************************************)
(* A thread that runs after a step has its whole stack, and exactness of   *)
(* the words rules out a conflict with another running thread.             *)
(***************************************************************************)
LEMMA RunsCompatible ==
  ASSUME LocalInv, TokenInv', NEW t \in Thread, Alone(t), pc'[t] = "run"
  PROVE  Abstract!Compatible(t, toks'[t])
<1>1. SUFFICES ASSUME NEW p \in Thread \ {t}, Runs(p),
                      NEW i \in 1 .. Len(toks'[t]), NEW j \in 1 .. Len(Owned(p)),
                      toks'[t][i].tok = Owned(p)[j].tok
               PROVE  ~toks'[t][i].ex /\ ~Owned(p)[j].ex
  BY DEF Abstract!Compatible, Abstract!Elements
<1>2. PICK x, y : x = toks'[t][i] /\ y = toks'[p][j]
  OBVIOUS
<1>3. /\ j \in Held(p)' /\ y = Owned(p)[j] /\ j \in 1 .. Len(toks'[p])
  <2>1. Held(p)' = Held(p) /\ toks'[p] = toks[p]
    BY HeldOther
  <2>2. j \in Held(p) /\ j \in 1 .. Len(toks[p]) /\ Owned(p)[j] = toks[p][j]
    BY <1>1, OwnedFacts
  <2> QED BY <1>2, <2>1, <2>2
<1>4. i \in Held(t)'
  BY <1>1, HeldNext
<1>5. /\ toks' \in [Thread -> Seq(Tokref)]
      /\ \A u \in Thread : Len(toks'[u]) <= MaxRefs
      /\ \A k \in Token : Exact(k)'
  BY DEF TokenInv, LocalInv, LocalType, Placed, WordInv
<1>6. /\ x \in Tokref /\ y \in Tokref /\ Len(toks'[t]) \in Nat /\ Len(toks'[p]) \in Nat
      /\ Len(toks'[t]) <= MaxRefs /\ Len(toks'[p]) <= MaxRefs
  <2>1. toks'[t] \in Seq(Tokref) /\ toks'[p] \in Seq(Tokref)
    BY <1>5
  <2>2. Len(toks'[t]) \in Nat /\ Len(toks'[p]) \in Nat
    BY <2>1
  <2>3. x \in Tokref
    BY <1>2, <2>1, ElementOfSeq
  <2>4. y \in Tokref
    <3>1. PICK s \in Seq(Tokref) : s = toks'[p]
      BY <2>1
    <3>2. j \in 1 .. Len(s) /\ y = s[j]
      BY <1>2, <1>3, <3>1
    <3> QED BY <3>2, ElementOfSeq
  <2> QED BY <1>5, <2>2, <2>3, <2>4
<1>7. PICK k \in Token, e \in BOOLEAN, f \in BOOLEAN :
        x = [tok |-> k, ex |-> e] /\ y = [tok |-> k, ex |-> f]
  <2>1. PICK b \in BOOLEAN : b = TRUE
    OBVIOUS
  <2>2. x = [tok |-> x.tok, ex |-> x.ex] /\ x.tok \in Token /\ x.ex \in BOOLEAN
        /\ y = [tok |-> y.tok, ex |-> y.ex] /\ y.ex \in BOOLEAN
    BY <1>6, <2>1, TokrefFields
  <2>3. x.tok = y.tok
    BY <1>1, <1>2, <1>3
  <2> QED BY <2>2, <2>3
<1>8. <<t, i>> \in Ref /\ <<t, i>>[1] = t /\ <<t, i>>[2] = i
      /\ <<p, j>> \in Ref /\ <<p, j>>[1] = p /\ <<p, j>>[2] = j
  <2>1. MaxRefs \in Nat
    BY TokBoundAssumption
  <2>2. i \in 1 .. MaxRefs /\ j \in 1 .. MaxRefs
    BY <1>3, <1>6, <2>1
  <2> QED BY <2>2 DEF Ref
<1>9. <<t, i>> \in Refs(k, e)' /\ <<p, j>> \in Refs(k, f)'
  BY <1>2, <1>3, <1>4, <1>7, <1>8 DEF Refs
<1>10. /\ \A r, q \in Refs(k, TRUE)' : r = q
       /\ \A r \in Refs(k, TRUE)', q \in Refs(k, FALSE)' : r[1] = q[1]
  BY <1>5 DEF Exact
<1>11. e = FALSE /\ f = FALSE
  BY <1>1, <1>7, <1>8, <1>9, <1>10
<1> QED BY <1>2, <1>3, <1>7, <1>11

(* Pushing back what was taken off.                                        *)
LEMMA PopPush ==
  ASSUME NEW s \in Seq(Tokref), Len(s) > 0
  PROVE  LET r == SubSeq(s, 1, Len(s) - 1)
         IN  s[Len(s)] \in Tokref /\ Append(r, s[Len(s)]) = s
<1>1. PICK r : r = SubSeq(s, 1, Len(s) - 1)
  OBVIOUS
<1>2. r \in Seq(Tokref) /\ Len(r) = Len(s) - 1
      /\ \A i \in 1 .. Len(s) - 1 : r[i] = s[i]
  BY <1>1, PopTokref
<1>3. Len(s) \in Nat /\ s[Len(s)] \in Tokref
  OBVIOUS
<1>4. PICK q : q = Append(r, s[Len(s)])
  OBVIOUS
<1>5. q \in Seq(Tokref) /\ Len(q) = Len(s)
      /\ (\A i \in 1 .. Len(s) - 1 : q[i] = s[i]) /\ q[Len(s)] = s[Len(s)]
  BY <1>2, <1>3, <1>4, PushTokref
<1>6. \A i \in 1 .. Len(s) : q[i] = s[i]
  BY <1>3, <1>5
<1>7. q = s
  BY <1>5, <1>6, SeqEqual
<1> QED BY <1>1, <1>3, <1>4, <1>7

(* trytokref returned TRUE: the reference is got, or the scan ends.        *)
LEMMA AcquiredMap ==
  ASSUME LocalInv, TokenInv', NEW t \in Thread, pc[t] \in {"try", "setref"}, Alone(t),
         AcquiredTo(t), Len(toks'[t]) = Len(toks[t]),
         \A i \in 1 .. Len(toks[t]) : i # Scan(t) => toks'[t][i] = toks[t][i],
         ctx[t] = "getall" => toks'[t] = toks[t]
  PROVE  Abstract!PromiseNext \/ absVars' = absVars
<1>1. /\ toks[t] \in Seq(Tokref) /\ Len(toks[t]) \in Nat /\ Len(toks[t]) > 0
      /\ ctx[t] \in {"get", "trytoken", "getall"}
      /\ ctx[t] \in {"get", "trytoken"} => cur[t] = Len(toks[t]) /\ ~sorted[t]
  BY LocalFacts DEF Placed
<1>2. toks' \in [Thread -> Seq(Tokref)]
  BY DEF TokenInv, LocalInv, LocalType
<1>3. CASE pc'[t] = "try"
  <2>1. ctx[t] = "getall" /\ ctx'[t] = "getall" /\ toks'[t] = toks[t]
    BY <1>3 DEF AcquiredTo
  <2> QED BY <2>1, MapSame DEF Owned, Runs
<1>4. CASE pc'[t] = "run"
  <2>1. ctx'[t] = "none" /\ Owned(t)' = toks'[t]
    BY <1>4 DEF AcquiredTo, Owned
  <2>2. TRUE = Runs(t)'
    BY <1>4, <2>1 DEF Runs
  <2>3. AbsStack' = [AbsStack EXCEPT ![t] = toks'[t]] /\ AbsRuns' = [AbsRuns EXCEPT ![t] = TRUE]
    BY <2>1, <2>2, MapOne
  <2>4. Abstract!Compatible(t, toks'[t])
    BY <1>4, RunsCompatible
  <2>5. CASE ctx[t] = "getall"
    <3>1. ~Runs(t) /\ Owned(t) = toks'[t]
      BY <2>5 DEF Runs, Owned
    <3>2. AbsStack' = AbsStack
      BY <2>3, <3>1 DEF AbsStack
    <3>3. Abstract!Resume(t)
      BY <2>3, <2>4, <3>1, <3>2 DEF Abstract!Resume, AbsStack, AbsRuns
    <3> QED BY <3>3 DEF Abstract!PromiseNext
  <2>6. CASE ctx[t] # "getall"
    <3>1. PICK n \in Nat : n = Len(toks[t]) /\ Scan(t) = n /\ n > 0
      BY <1>1, <2>6 DEF Scan
    <3>2. toks'[t] \in Seq(Tokref) /\ Len(toks'[t]) = n
          /\ \A i \in 1 .. n - 1 : toks'[t][i] = toks[t][i]
      BY <1>2, <3>1
    <3>3. PICK r \in Tokref : r = toks'[t][n]
      BY <3>1, <3>2
    <3>4. Owned(t) \in Seq(Tokref) /\ Len(Owned(t)) = n - 1
          /\ \A i \in 1 .. n - 1 : Owned(t)[i] = toks[t][i]
      BY <1>1, <2>6, <3>1, OwnedFacts
    <3>5. PICK q : q = Append(Owned(t), r)
      OBVIOUS
    <3>6. q \in Seq(Tokref) /\ Len(q) = n
          /\ (\A i \in 1 .. n - 1 : q[i] = Owned(t)[i]) /\ q[n] = r
      BY <3>1, <3>3, <3>4, <3>5, PushTokref
    <3>7. \A i \in 1 .. n : q[i] = toks'[t][i]
      BY <3>1, <3>2, <3>3, <3>4, <3>6
    <3>8. q = toks'[t]
      BY <3>2, <3>6, <3>7, SeqEqual
    <3>9. Runs(t) /\ AbsRuns' = AbsRuns
      <4>1. Runs(t)
        BY <1>1, <2>6 DEF Runs
      <4> QED BY <2>3, <4>1 DEF AbsRuns, Runs
    <3>10. Abstract!Get(t, r)
      BY <2>3, <2>4, <3>5, <3>8, <3>9 DEF Abstract!Get, AbsStack, AbsRuns
    <3> QED BY <3>10 DEF Abstract!PromiseNext, Abstract!Reference, Tokref
  <2> QED BY <2>5, <2>6
<1> QED BY <1>3, <1>4 DEF AcquiredTo

(* trytokref returned FALSE: a gettoken stops, a trytoken gives up.        *)
LEMMA FailedMap ==
  ASSUME LocalInv, NEW t \in Thread, pc[t] \in {"try", "setreq"}, Failed(t)
  PROVE  Abstract!PromiseNext \/ absVars' = absVars
<1>1. /\ toks[t] \in Seq(Tokref) /\ Len(toks[t]) \in Nat /\ Len(toks[t]) > 0
      /\ ctx[t] \in {"get", "trytoken", "getall"} /\ toks \in [Thread -> Seq(Tokref)]
  BY LocalFacts DEF Placed, LocalInv, LocalType
<1>2. Alone(t) /\ FailedTo(t)
  BY FailedLocal
<1>3. CASE ctx[t] = "get" /\ ctx'[t] \in {"yield", "getall"} /\ toks' = toks
  <2>1. PICK r \in Tokref : r = toks[t][Len(toks[t])]
    BY <1>1
  <2>2. Owned(t)' = toks[t] /\ Append(Owned(t), r) = toks[t]
    BY <1>1, <1>3, <2>1, PopPush DEF Owned
  <2>3. Runs(t) /\ FALSE = Runs(t)'
    BY <1>3 DEF Runs
  <2>4. AbsStack' = [AbsStack EXCEPT ![t] = toks[t]] /\ AbsRuns' = [AbsRuns EXCEPT ![t] = FALSE]
    BY <1>2, <2>2, <2>3, MapOne
  <2>5. Abstract!Block(t, r)
    BY <2>2, <2>3, <2>4 DEF Abstract!Block, AbsStack, AbsRuns
  <2> QED BY <2>5 DEF Abstract!PromiseNext, Abstract!Reference, Tokref
<1>4. CASE ctx[t] = "trytoken" /\ ctx'[t] = "none" /\ pc'[t] = "run"
           /\ toks' = [toks EXCEPT ![t] = SubSeq(@, 1, Len(@) - 1)]
  <2>1. toks'[t] = SubSeq(toks[t], 1, Len(toks[t]) - 1)
    BY <1>1, <1>4
  <2>2. Owned(t)' = Owned(t) /\ Runs(t)' = Runs(t)
    BY <1>4, <2>1 DEF Owned, Runs
  <2> QED BY <1>2, <2>2, MapSame
<1>5. CASE ctx[t] = "getall" /\ ctx'[t] \in {"undo", "getall"} /\ toks' = toks
  BY <1>2, <1>5, MapSame DEF Owned, Runs
<1>6. CASE ctx'[t] = ctx[t] /\ pc'[t] = "try" /\ toks' = toks
  BY <1>2, <1>6, MapSame DEF Owned, Runs
<1> QED BY <1>1, <1>2, <1>3, <1>4, <1>5, <1>6 DEF FailedTo

(* reltokref returned: a reference is dropped, or the scan goes on.        *)
LEMMA ReleasedMap ==
  ASSUME LocalInv, NEW t \in Thread, pc[t] \in {"rel", "relcas"}, Released(t)
  PROVE  Abstract!PromiseNext \/ absVars' = absVars
<1>1. /\ toks[t] \in Seq(Tokref) /\ Len(toks[t]) \in Nat /\ Len(toks[t]) > 0
      /\ ctx[t] \in {"reltoken", "yield", "sleep", "undo"} /\ toks \in [Thread -> Seq(Tokref)]
  BY LocalFacts DEF Placed, LocalInv, LocalType
<1>2. Alone(t) /\ ReleasedTo(t)
  BY ReleasedLocal
<1>3. CASE ctx[t] = "reltoken"
  <2>1. pc'[t] = "run" /\ ctx'[t] = "none"
        /\ toks' = [toks EXCEPT ![t] = SubSeq(@, 1, Len(@) - 1)]
    BY <1>2, <1>3 DEF ReleasedTo
  <2>2. PICK q : q = SubSeq(toks[t], 1, Len(toks[t]) - 1)
    OBVIOUS
  <2>3. q = Owned(t)' /\ Owned(t) = toks[t] /\ Owned(t) # <<>>
    BY <1>1, <1>3, <2>1, <2>2 DEF Owned
  <2>4. Runs(t) /\ TRUE = Runs(t)'
    BY <1>3, <2>1 DEF Runs
  <2>5. AbsStack' = [AbsStack EXCEPT ![t] = q] /\ AbsRuns' = [AbsRuns EXCEPT ![t] = TRUE]
    BY <1>2, <2>3, <2>4, MapOne
  <2>6. AbsRuns' = AbsRuns
    BY <2>4, <2>5 DEF AbsRuns, Runs
  <2>7. Abstract!Drop(t)
    BY <2>2, <2>3, <2>4, <2>5, <2>6 DEF Abstract!Drop, AbsStack, AbsRuns
  <2> QED BY <2>7 DEF Abstract!PromiseNext
<1>4. CASE ctx[t] # "reltoken"
  <2>1. toks' = toks /\ ctx[t] \in {"yield", "sleep", "undo"}
        /\ (ctx'[t] \in {"yield", "sleep", "undo", "getall"}
            \/ (pc'[t] = "asleep" /\ ctx'[t] = "none"))
    BY <1>1, <1>2, <1>4 DEF ReleasedTo
  <2> QED BY <1>2, <2>1, MapSame DEF Owned, Runs
<1> QED BY <1>3, <1>4

(* A step that moves within trytokref or reltokref.                        *)
LEMMA InnerMap ==
  ASSUME LocalInv, NEW t \in Thread, NEW p \in PCs, pc' = [pc EXCEPT ![t] = p],
         pc[t] # "asleep", p # "asleep", UNCHANGED <<toks, ctx, scanVars>>
  PROVE  absVars' = absVars
<1>1. Alone(t) /\ pc'[t] = p
  BY DEF Alone, LocalInv, LocalType, scanVars
<1> QED BY <1>1, MapSame DEF Owned, Runs

(* The steps of trytokref and reltokref.                                   *)
LEMMA StepMap ==
  ASSUME TokenInv, TokenInv', StackInv, NEW t \in Thread, Step(t)
  PROVE  Abstract!PromiseNext \/ absVars' = absVars
<1>0. LocalInv /\ WordInv /\ toks \in [Thread -> Seq(Tokref)]
  BY DEF TokenInv, LocalInv, LocalType
<1>1. CASE TryExclusive(t) \/ RelRef(t)
  BY <1>0, <1>1, InnerMap DEF TryExclusive, RelRef, PCs
<1>2. CASE SetRef(t) \/ TryShared(t)
  <2>1. pc[t] \in {"try", "setref"} /\ toks' = toks /\ Acquired(t)
    BY <1>2 DEF SetRef, TryShared
  <2>2. Alone(t) /\ AcquiredTo(t)
    BY <1>0, <2>1, AcquiredLocal
  <2> QED BY <1>0, <2>1, <2>2, AcquiredMap
<1>3. CASE TryOwn(t)
  <2>1. PICK k : k = Tr(t).tok
    OBVIOUS
  <2>2. /\ pc[t] = "try" /\ toks' = [toks EXCEPT ![t][Scan(t)].ex = FALSE] /\ Acquired(t)
        /\ OwnRef(t, k)
    BY <1>3, <2>1 DEF TryOwn
  <2>3. PICK n : n = Scan(t) /\ n \in 1 .. Len(toks[t]) /\ Tr(t) = toks[t][n]
    BY <1>0, <2>2, ScanFacts DEF Tr
  <2>4. /\ toks' \in [Thread -> Seq(Tokref)] /\ Len(toks'[t]) = Len(toks[t])
        /\ \A u \in Thread \ {t} : toks'[u] = toks[u]
        /\ \A i \in 1 .. Len(toks[t]) : i # n => toks'[t][i] = toks[t][i]
        /\ toks'[t][n] = [tok |-> toks[t][n].tok, ex |-> FALSE]
    BY <1>0, <2>2, <2>3, OwnLocal
  <2>5. Alone(t) /\ AcquiredTo(t)
    BY <1>0, <2>2, <2>4, AcquiredLocal
  <2>6. ASSUME ctx[t] = "getall" PROVE toks'[t] = toks[t]
    <3>1. PairFree(toks[t], Len(toks[t]))
      BY <2>6 DEF StackInv, Depth
    <3>2. PICK i \in 1 .. Len(toks[t]) : t_ref[k] = <<t, i>>
      BY <2>2 DEF OwnRef
    <3>3. k \in Token /\ Tr(t) \in Tokref /\ <<t, i>> # NULL
      <4>1. <<t, i>> \in Thread \X Nat
        BY <3>2
      <4>2. k \in Token /\ Tr(t) \in Tokref
        BY <1>0, <2>1, <2>2, ScanFacts
      <4> QED BY <4>1, <4>2, TokNullAssumption
    <3>4. <<t, i>> \in Refs(k, TRUE)
      <4>1. t_ref[k] # NULL => t_ref[k] \in Refs(k, TRUE)
        BY <1>0, <3>3, Zenon DEF WordInv, Exact
      <4> QED BY <3>2, <3>3, <4>1
    <3>5. <<t, i>>[1] = t /\ <<t, i>>[2] = i
      OBVIOUS
    <3>6. i \in Held(t) /\ toks[t][i] = [tok |-> k, ex |-> TRUE]
      BY <3>4, <3>5 DEF Refs
    <3>7. Held(t) = Scanned(t, cur[t] - 1) /\ n = Order(t, cur[t])
          /\ cur[t] \in 1 .. Len(toks[t])
      BY <1>0, <2>2, <2>3, HeldFacts, ScannedFacts, LocalFacts DEF Placed
    <3>8. n # i
      BY <1>0, <3>6, <3>7, ScannedFacts
    <3>9. ~Tr(t).ex
      BY <2>1, <2>3, <3>1, <3>6, <3>8 DEF PairFree
    <3>10. PICK b \in BOOLEAN : b = FALSE
      OBVIOUS
    <3>11. Tr(t) = [tok |-> Tr(t).tok, ex |-> Tr(t).ex] /\ Tr(t).ex \in BOOLEAN
      BY <3>3, <3>10, TokrefFields
    <3>12. toks'[t][n] = toks[t][n]
      BY <2>3, <2>4, <3>9, <3>11
    <3>13. toks[t] \in Seq(Tokref) /\ toks'[t] \in Seq(Tokref)
          /\ \A j \in 1 .. Len(toks[t]) : toks'[t][j] = toks[t][j]
      BY <1>0, <2>4, <3>12
    <3> QED BY <2>4, <3>13, SeqEqual
  <2> QED BY <1>0, <2>2, <2>3, <2>4, <2>5, <2>6, AcquiredMap
<1>4. CASE TryFail(t)
  <2>1. pc[t] = "try" /\ \/ pc' = [pc EXCEPT ![t] = "setreq"] /\ UNCHANGED <<toks, ctx, scanVars>>
                         \/ Failed(t)
    BY <1>4 DEF TryFail
  <2> QED BY <1>0, <2>1, InnerMap, FailedMap DEF PCs
<1>5. CASE SetReq(t)
  BY <1>0, <1>5, FailedMap DEF SetReq
<1>6. CASE RelExclusive(t) \/ RelShared(t)
  <2>1. pc[t] \in {"rel", "relcas"}
        /\ \/ pc' = [pc EXCEPT ![t] = "rel"] /\ UNCHANGED <<toks, ctx, scanVars>>
           \/ Released(t)
    BY <1>6 DEF RelExclusive, RelShared
  <2> QED BY <1>0, <2>1, InnerMap, ReleasedMap DEF PCs
<1> QED BY <1>1, <1>2, <1>3, <1>4, <1>5, <1>6 DEF Step

(* The entry points and the wakeup.                                        *)
LEMMA CallMap ==
  ASSUME TokenInv, NEW t \in Thread,
         \/ \E k \in Token, o \in Ops : Push(t, k, o)
         \/ lwkt_reltoken(t) \/ lwkt_token_swap(t)
         \/ \E o \in Ops : lwkt_switch(t, o)
         \/ Wakeup(t)
  PROVE  Abstract!PromiseNext \/ absVars' = absVars
<1>0. LocalInv
  BY DEF TokenInv
<1>1. /\ pc[t] \in {"run", "asleep"} /\ ctx[t] = "none"
      /\ toks[t] \in Seq(Tokref) /\ Len(toks[t]) \in Nat
      /\ toks \in [Thread -> Seq(Tokref)]
  BY <1>0, LocalFacts
  DEF Push, lwkt_reltoken, lwkt_token_swap, lwkt_switch, Wakeup, Placed, LocalInv, LocalType
<1>2. Owned(t) = toks[t] /\ (Runs(t) <=> pc[t] = "run")
  BY <1>1 DEF Owned, Runs
<1>3. CASE \E k \in Token, o \in Ops : Push(t, k, o)
  <2>1. PICK k \in Token, o \in Ops : Push(t, k, o)
    BY <1>3
  <2>2. PICK e \in Tokref : toks' = [toks EXCEPT ![t] = Append(@, e)]
    <3>1. PICK b \in BOOLEAN : b = (o # "gettoken_shared")
      OBVIOUS
    <3>2. [tok |-> k, ex |-> b] \in Tokref
      BY DEF Tokref
    <3> QED BY <2>1, <3>1, <3>2 DEF Push
  <2>3. PICK s : s = Append(toks[t], e)
    OBVIOUS
  <2>4. s \in Seq(Tokref) /\ Len(s) = Len(toks[t]) + 1
        /\ \A i \in 1 .. Len(toks[t]) : s[i] = toks[t][i]
    BY <1>1, <2>3, PushTokref
  <2>5. PICK r : r = SubSeq(s, 1, Len(s) - 1)
    OBVIOUS
  <2>6. r \in Seq(Tokref) /\ Len(r) = Len(toks[t])
        /\ \A i \in 1 .. Len(toks[t]) : r[i] = toks[t][i]
    <3>1. Len(s) > 0 /\ Len(s) - 1 = Len(toks[t])
      BY <1>1, <2>4
    <3> QED BY <2>4, <2>5, <3>1, PopTokref
  <2>7. r = toks[t]
    BY <1>1, <2>6, SeqEqual
  <2>8. pc'[t] = "try" /\ ctx'[t] \in {"get", "trytoken"} /\ pc[t] = "run" /\ Alone(t)
    BY <1>0, <2>1 DEF Push, At, LocalInv, LocalType, Alone
  <2>9. toks'[t] = s
    BY <1>1, <2>2, <2>3
  <2>10. Owned(t)' = r
    BY <2>5, <2>8, <2>9 DEF Owned
  <2>11. Runs(t)' = Runs(t)
    BY <1>1, <2>8 DEF Runs
  <2> QED BY <1>2, <2>7, <2>8, <2>10, <2>11, MapSame
<1>4. CASE lwkt_reltoken(t) \/ Wakeup(t)
  <2>1. Alone(t) /\ toks' = toks
    BY <1>0, <1>4 DEF lwkt_reltoken, Wakeup, At, Alone, LocalInv, LocalType
  <2>2. \/ pc[t] = "run" /\ pc'[t] = "rel" /\ ctx'[t] = "reltoken"
        \/ pc[t] = "asleep" /\ ctx'[t] = "getall"
    BY <1>0, <1>4 DEF lwkt_reltoken, Wakeup, At, LocalInv, LocalType
  <2> QED BY <1>1, <2>1, <2>2, MapSame DEF Owned, Runs
<1>5. CASE \E o \in Ops : lwkt_switch(t, o)
  <2>1. /\ Alone(t) /\ toks' = toks /\ pc[t] = "run" /\ pc'[t] = "rel"
        /\ ctx'[t] \in {"yield", "sleep"}
    BY <1>0, <1>5 DEF lwkt_switch, At, Alone, LocalInv, LocalType
  <2>2. toks[t] = Owned(t)' /\ FALSE = Runs(t)'
    BY <2>1 DEF Owned, Runs
  <2>3. AbsStack' = [AbsStack EXCEPT ![t] = toks[t]] /\ AbsRuns' = [AbsRuns EXCEPT ![t] = FALSE]
    BY <1>0, <2>1, <2>2, MapOne
  <2>4. AbsStack' = AbsStack
    BY <1>2, <2>3 DEF AbsStack
  <2>5. Abstract!Stop(t)
    BY <1>2, <2>1, <2>3, <2>4 DEF Abstract!Stop, AbsStack, AbsRuns
  <2> QED BY <2>5 DEF Abstract!PromiseNext
<1>6. CASE lwkt_token_swap(t)
  <2>1. PICK n : n = Len(toks[t])
    OBVIOUS
  <2>2. /\ Alone(t) /\ n >= 2 /\ n \in Nat
    BY <1>0, <1>1, <1>6, <2>1, SwapLocal
  <2>3. /\ pc[t] = "run" /\ UNCHANGED <<pc, ctx>>
        /\ toks' = [toks EXCEPT ![t][n] = toks[t][n - 1], ![t][n - 1] = toks[t][n]]
    BY <1>6, <2>1 DEF lwkt_token_swap
  <2>4. PICK q : q = [toks[t] EXCEPT ![n] = toks[t][n - 1], ![n - 1] = toks[t][n]]
    OBVIOUS
  <2>5. toks'[t] = q
    BY <1>1, <2>3, <2>4
  <2>6. q = Owned(t)' /\ TRUE = Runs(t)'
    BY <1>1, <2>3, <2>5 DEF Owned, Runs
  <2>7. AbsStack' = [AbsStack EXCEPT ![t] = q] /\ AbsRuns' = [AbsRuns EXCEPT ![t] = TRUE]
    BY <1>0, <2>2, <2>6, MapOne
  <2>8. AbsRuns' = AbsRuns
    BY <1>2, <2>3, <2>7 DEF AbsRuns, Runs
  <2>9. AbsStack' = [AbsStack EXCEPT ![t][n] = toks[t][n - 1], ![t][n - 1] = toks[t][n]]
    BY <1>2, <2>4, <2>7 DEF AbsStack
  <2>10. Abstract!Exchange(t)
    BY <1>2, <2>1, <2>2, <2>3, <2>8, <2>9 DEF Abstract!Exchange, AbsStack, AbsRuns
  <2> QED BY <2>10 DEF Abstract!PromiseNext
<1> QED BY <1>3, <1>4, <1>5, <1>6

(***************************************************************************)
(* Tokens implement TokenSpec: through every interleaving of scans, failed *)
(* scans and releases, a switched-out thread gets all of its tokens back   *)
(* at once or none, and no two running threads own a token in conflict.    *)
(***************************************************************************)
THEOREM TokensAllOrNone == Spec => AllOrNone
<1>1. lwkt_token_init => Abstract!PromiseInit
  <2> SUFFICES ASSUME lwkt_token_init PROVE Abstract!PromiseInit
    OBVIOUS
  <2>1. \A t \in Thread : Owned(t) = <<>> /\ Runs(t) = TRUE
    BY DEF lwkt_token_init, Owned, Runs
  <2> QED BY <2>1 DEF Abstract!PromiseInit
<1>2. TokenInv /\ TokenInv' /\ StackInv /\ [Next]_vars
        => [Abstract!PromiseNext]_absVars
  <2> SUFFICES ASSUME TokenInv, TokenInv', StackInv, [Next]_vars
               PROVE  Abstract!PromiseNext \/ absVars' = absVars
    OBVIOUS
  <2>1. CASE UNCHANGED vars
    BY <2>1 DEF vars, absVars, AbsStack, AbsRuns, Owned, Runs
  <2>2. CASE Next
    <3>1. PICK t \in Thread :
            \/ Step(t)
            \/ \E k \in Token, o \in Ops : Push(t, k, o)
            \/ lwkt_reltoken(t) \/ lwkt_token_swap(t)
            \/ \E o \in Ops : lwkt_switch(t, o)
            \/ Wakeup(t)
      BY <2>2 DEF Next
    <3> QED BY <3>1, StepMap, CallMap
  <2> QED BY <2>1, <2>2
<1> QED
  BY <1>1, <1>2, TokenInvariant, StackInvariant, PTL
  DEF Spec, AllOrNone, Abstract!Promise, Abstract!tokenVars, absVars, AbsStack, AbsRuns
=============================================================================
