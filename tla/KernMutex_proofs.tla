-------------------------- MODULE KernMutex_proofs --------------------------
(***************************************************************************)
(* For every finite set of threads and every depth of recursion:           *)
(*   - whatever operations and flags are used, the ring of waiting links   *)
(*     is sound, MTX_EXLINK protects it, and shared waiters are announced  *)
(*     on exclusive locks only;                                            *)
(*   - where links are not aborted, waiters in the ring are announced;     *)
(*   - where waits are not interrupted and holders do not change the mode  *)
(*     of the lock, writers exclude, the count is exact and the owner is   *)
(*     the writer.                                                         *)
(***************************************************************************)
EXTENDS KernMutex, SequenceTheorems, FiniteSetTheorems, TLAPS

(* No link is in the ring twice; x is in the ring.                         *)
Distinct(q) == \A i, j \in DOMAIN q : q[i] = q[j] => i = j
In(x, q) == \E i \in DOMAIN q : q[i] = x

(***************************************************************************)
(* What a ring contains after a link was taken out of it and the ring      *)
(* starts at that link's successor (mtx_delete_link(),                     *)
(* mtx_abort_ex_link()).                                                   *)
(***************************************************************************)
LEMMA RemoveFromRing ==
  ASSUME NEW S, NEW q \in Seq(S), Distinct(q), NEW i \in DOMAIN q
  PROVE  LET r == SubSeq(q, i + 1, Len(q)) \o SubSeq(q, 1, i - 1)
         IN  /\ r \in Seq(S)
             /\ Distinct(r)
             /\ \A x : In(x, r) <=> In(x, q) /\ x # q[i]
<1> DEFINE n == Len(q)
           a == SubSeq(q, i + 1, n)
           b == SubSeq(q, 1, i - 1)
           r == a \o b
<1>1. n \in Nat /\ i \in 1 .. n /\ DOMAIN q = 1 .. n
  OBVIOUS
<1>2. a \in Seq(S) /\ Len(a) = n - i /\ \A j \in 1 .. n - i : a[j] = q[i + j]
  BY <1>1
<1>3. b \in Seq(S) /\ Len(b) = i - 1 /\ \A j \in 1 .. i - 1 : b[j] = q[j]
  BY <1>1
<1>4. /\ r \in Seq(S) /\ DOMAIN r = 1 .. n - 1
      /\ \A j \in 1 .. n - i : r[j] = q[i + j]
      /\ \A j \in n - i + 1 .. n - 1 : r[j] = q[j - (n - i)]
  <2> HIDE DEF n, a, b
  <2>1. /\ r \in Seq(S) /\ Len(r) = (n - i) + (i - 1)
        /\ \A j \in 1 .. (n - i) + (i - 1) :
             r[j] = IF j <= n - i THEN a[j] ELSE b[j - (n - i)]
    <3>1. /\ r \in Seq(S) /\ Len(r) = Len(a) + Len(b)
          /\ \A j \in 1 .. Len(a) + Len(b) :
               r[j] = IF j <= Len(a) THEN a[j] ELSE b[j - Len(a)]
      BY <1>2, <1>3, ConcatProperties, Zenon
    <3> HIDE DEF r
    <3> QED BY <3>1, <1>2, <1>3
  <2>2. DOMAIN r = 1 .. n - 1
    BY <2>1, <1>1
  <2>3. ASSUME NEW j \in n - i + 1 .. n - 1 PROVE r[j] = q[j - (n - i)]
    <3>1. r[j] = b[j - (n - i)] /\ j - (n - i) \in 1 .. i - 1
      BY <2>1, <1>1
    <3> QED BY <3>1, <1>3
  <2>4. ASSUME NEW j \in 1 .. n - i PROVE r[j] = q[i + j]
    BY <2>1, <1>1, <1>2
  <2> QED BY <2>1, <2>2, <2>3, <2>4
<1> HIDE DEF n, a, b, r
(* Position j of the new ring is position Old(j) of the old one.           *)
<1> DEFINE Old(j) == IF j <= n - i THEN i + j ELSE j - (n - i)
<1>5. /\ \A j \in DOMAIN r : Old(j) \in DOMAIN q /\ Old(j) # i /\ r[j] = q[Old(j)]
      /\ \A j, k \in DOMAIN r : Old(j) = Old(k) => j = k
      /\ \A k \in DOMAIN q : k # i => \E j \in DOMAIN r : Old(j) = k
  <2>1. ASSUME NEW j \in DOMAIN r
        PROVE  Old(j) \in DOMAIN q /\ Old(j) # i /\ r[j] = q[Old(j)]
    BY <1>1, <1>4
  <2>2. ASSUME NEW j \in DOMAIN r, NEW k \in DOMAIN r, Old(j) = Old(k)
        PROVE  j = k
    BY <2>2, <1>1, <1>4
  <2>3. ASSUME NEW k \in DOMAIN q, k # i PROVE \E j \in DOMAIN r : Old(j) = k
    <3>1. CASE k > i
      <4>1. k - i \in DOMAIN r /\ Old(k - i) = k
        BY <1>1, <1>4, <3>1
      <4> QED BY <4>1
    <3>2. CASE k < i
      <4>1. k + (n - i) \in DOMAIN r /\ Old(k + (n - i)) = k
        BY <1>1, <1>4, <3>2
      <4> QED BY <4>1
    <3> QED BY <2>3, <3>1, <3>2, <1>1
  <2> QED BY <2>1, <2>2, <2>3
<1> HIDE DEF Old
<1>6. Distinct(r)
  BY <1>5 DEF Distinct
<1>7. ASSUME NEW x PROVE In(x, r) <=> In(x, q) /\ x # q[i]
  <2>1. In(x, r) => In(x, q) /\ x # q[i]
    BY <1>5 DEF Distinct, In
  <2>2. In(x, q) /\ x # q[i] => In(x, r)
    BY <1>5 DEF In
  <2> QED BY <2>1, <2>2
<1> QED BY <1>4, <1>6, <1>7 DEF n, a, b, r

(* What a ring contains after a link was added at its end.                 *)
LEMMA AddToRing ==
  ASSUME NEW S, NEW q \in Seq(S), Distinct(q), NEW e \in S, ~In(e, q)
  PROVE  /\ Append(q, e) \in Seq(S)
         /\ Distinct(Append(q, e))
         /\ \A x : In(x, Append(q, e)) <=> In(x, q) \/ x = e
<1> DEFINE r == Append(q, e)
<1>1. /\ r \in Seq(S) /\ DOMAIN q = 1 .. Len(q) /\ DOMAIN r = 1 .. Len(q) + 1
      /\ \A j \in 1 .. Len(q) : r[j] = q[j]
      /\ r[Len(q) + 1] = e /\ Len(q) \in Nat
  OBVIOUS
<1> HIDE DEF r
<1>2. Distinct(r)
  BY <1>1 DEF Distinct, In
<1>3. ASSUME NEW x PROVE In(x, r) <=> In(x, q) \/ x = e
  BY <1>1 DEF In
<1> QED BY <1>1, <1>2, <1>3 DEF r

(* What a ring contains after its first link was handed the lock.          *)
LEMMA PopRing ==
  ASSUME NEW S, NEW q \in Seq(S), Distinct(q), q # << >>
  PROVE  /\ Tail(q) \in Seq(S) /\ Head(q) \in S /\ In(Head(q), q)
         /\ Distinct(Tail(q))
         /\ \A x : In(x, Tail(q)) <=> In(x, q) /\ x # Head(q)
<1> DEFINE r == Tail(q)
<1>1. /\ r \in Seq(S) /\ DOMAIN q = 1 .. Len(q) /\ DOMAIN r = 1 .. Len(q) - 1
      /\ \A j \in 1 .. Len(q) - 1 : r[j] = q[j + 1]
      /\ Len(q) \in Nat \ {0} /\ Head(q) = q[1] /\ Head(q) \in S
  OBVIOUS
<1> HIDE DEF r
<1>2. Distinct(r)
  <2> SUFFICES ASSUME NEW j \in DOMAIN r, NEW k \in DOMAIN r, r[j] = r[k]
               PROVE  j = k
    BY DEF Distinct
  <2>1. j + 1 \in DOMAIN q /\ k + 1 \in DOMAIN q /\ q[j + 1] = q[k + 1]
    BY <1>1
  <2>2. j + 1 = k + 1
    BY <2>1 DEF Distinct
  <2> QED BY <2>2, <1>1
<1>3. In(Head(q), q)
  BY <1>1 DEF In
<1>4. ASSUME NEW x PROVE In(x, r) <=> In(x, q) /\ x # Head(q)
  <2>1. ASSUME In(x, r) PROVE In(x, q) /\ x # Head(q)
    <3>1. PICK j \in 1 .. Len(q) - 1 : q[j + 1] = x
      BY <2>1, <1>1 DEF In
    <3>2. j + 1 \in DOMAIN q /\ j + 1 # 1 /\ 1 \in DOMAIN q
      BY <1>1
    <3> QED BY <3>1, <3>2, <1>1 DEF In, Distinct
  <2>2. ASSUME In(x, q), x # Head(q) PROVE In(x, r)
    <3>1. PICK j \in DOMAIN q : q[j] = x
      BY <2>2 DEF In
    <3>2. j - 1 \in DOMAIN r /\ r[j - 1] = x
      BY <3>1, <2>2, <1>1
    <3> QED BY <3>2 DEF In
  <2> QED BY <2>1, <2>2
<1> QED BY <1>1, <1>2, <1>3, <1>4 DEF r

-----------------------------------------------------------------------------
(***************************************************************************)
(* Where a release or an abort stands, the mutex is held or its target is  *)
(* known: needed for the counts to stay natural numbers.                   *)
(***************************************************************************)
HeldInv ==
  \A t \in Thread :
    /\ pc[t] \in {"un", "un_ex"} => exheld[t] + shheld[t] > 0
    /\ pc[t] = "chain" => exheld[t] > 0
    /\ pc[t] = "chain_clear" /\ target[t] = NULL => exheld[t] > 0
    /\ pc[t] = "chain_owner" => target[t] \in Thread
    /\ pc[t] \in {"wake_link", "ab_wait", "ab"} => target[t] \in Thread

(* The inductive invariant behind the ring.                                *)
IInv == TypeOK /\ HeldInv /\ RingSound

(* Unlink(), stated of the ring of the mutex.                              *)
LEMMA UnlinkRing ==
  ASSUME IInv, NEW t \in Thread, link[t] = "LINKED", Unlink(t)
  PROVE  /\ mtx_link' \in Seq(Thread)
         /\ Distinct(mtx_link')
         /\ \A x : In(x, mtx_link') <=> In(x, mtx_link) /\ x # t
<1> DEFINE i == CHOOSE j \in DOMAIN mtx_link : mtx_link[j] = t
<1>1. mtx_link \in Seq(Thread) /\ Distinct(mtx_link) /\ In(t, mtx_link)
  BY DEF IInv, TypeOK, RingSound, Distinct, In
<1>2. i \in DOMAIN mtx_link /\ mtx_link[i] = t
  BY <1>1 DEF In
<1>3. mtx_link' = SubSeq(mtx_link, i + 1, Len(mtx_link)) \o SubSeq(mtx_link, 1, i - 1)
  BY DEF Unlink
<1> HIDE DEF i
<1> QED BY <1>1, <1>2, <1>3, RemoveFromRing
-----------------------------------------------------------------------------
(* MTX_EXLINK.                                                             *)

(* What the argument about the ring's lock needs of the types.             *)
WordOK ==
  /\ mtx_lock \in [ex : BOOLEAN, shw : BOOLEAN, exw : BOOLEAN,
                   exlink : BOOLEAN, cnt : Nat]
  /\ pc \in [Thread -> PCs]

RingInv == WordOK /\ RingLocked

(* Every action keeps the bit in step with the program counters.           *)
LEMMA RingStep ==
  ASSUME RingInv, [Next]_vars
  PROVE  RingInv'
<1> USE DEF RingInv, WordOK, RingLocked, InRing
<1>1. ASSUME NEW t \in Thread, NEW o \in Ops, CallEx(t, o) PROVE RingInv'
  BY <1>1 DEF CallEx, mtxVars, PCs
<1>2. ASSUME NEW t \in Thread, NEW o \in Ops, CallSh(t, o) PROVE RingInv'
  BY <1>2 DEF CallSh, mtxVars, PCs
<1>3. ASSUME NEW t \in Thread, CallUnlock(t) PROVE RingInv'
  BY <1>3 DEF CallUnlock, Goto, mtxVars, PCs
<1>4. ASSUME NEW t \in Thread, Downgrade(t) PROVE RingInv'
  BY <1>4 DEF Downgrade, PCs
<1>5. ASSUME NEW t \in Thread, CallUpgrade(t) PROVE RingInv'
  BY <1>5 DEF CallUpgrade, mtxVars, PCs
<1>6. ASSUME NEW t \in Thread, NEW u \in Thread, CallAbort(t, u) PROVE RingInv'
  BY <1>6 DEF CallAbort, mtxVars, PCs
<1>7. ASSUME NEW t \in Thread, ExFree(t) PROVE RingInv'
  BY <1>7 DEF ExFree, Goto, Unlocked, PCs
<1>8. ASSUME NEW t \in Thread, SetOwner(t) PROVE RingInv'
  BY <1>8 DEF SetOwner, Return, PCs
<1>9. ASSUME NEW t \in Thread, ExRecurse(t) PROVE RingInv'
  BY <1>9 DEF ExRecurse, Return, PCs
<1>10. ASSUME NEW t \in Thread, ExTryFail(t) PROVE RingInv'
  BY <1>10 DEF ExTryFail, Return, Unlocked, mtxVars, PCs
<1>11. ASSUME NEW t \in Thread, ExWant(t) PROVE RingInv'
  BY <1>11 DEF ExWant, Goto, Unlocked, PCs
<1>12. ASSUME NEW t \in Thread, ExLink(t) PROVE RingInv'
  BY <1>12 DEF ExLink, Goto, PCs
<1>13. ASSUME NEW t \in Thread, EarlyAbort(t) PROVE RingInv'
  BY <1>13 DEF EarlyAbort, Goto, PCs
<1>14. ASSUME NEW t \in Thread, EarlyRead(t) PROVE RingInv'
  BY <1>14 DEF EarlyRead, Goto, Return, mtxVars, PCs
<1>15. ASSUME NEW t \in Thread, EarlyClear(t) PROVE RingInv'
  BY <1>15 DEF EarlyClear, Return, PCs
<1>16. ASSUME NEW t \in Thread, ExSleep(t) PROVE RingInv'
  BY <1>16 DEF ExSleep, Goto, mtxVars, PCs
<1>17. ASSUME NEW t \in Thread, ExWake(t) PROVE RingInv'
  BY <1>17 DEF ExWake, Goto, mtxVars, PCs
<1>18. ASSUME NEW t \in Thread, ExWoken(t) PROVE RingInv'
  BY <1>18 DEF ExWoken, Goto, mtxVars, PCs
<1>19. ASSUME NEW t \in Thread, DeleteLock(t) PROVE RingInv'
  BY <1>19 DEF DeleteLock, Goto, LockRing, PCs
<1>20. ASSUME NEW t \in Thread, mtx_delete_link(t) PROVE RingInv'
  BY <1>20 DEF mtx_delete_link, Goto, PCs
<1>21. ASSUME NEW t \in Thread, ExDone(t) PROVE RingInv'
  BY <1>21 DEF ExDone, Return, mtxVars, PCs
<1>22. ASSUME NEW t \in Thread, ExRetry(t) PROVE RingInv'
  BY <1>22 DEF ExRetry, Goto, mtxVars, PCs
<1>53. ASSUME NEW t \in Thread, ExPanic(t) PROVE RingInv'
  BY <1>53 DEF ExPanic, Goto, mtxVars, PCs
<1>23. ASSUME NEW t \in Thread, ShFree(t) PROVE RingInv'
  BY <1>23 DEF ShFree, Return, PCs
<1>24. ASSUME NEW t \in Thread, ShTryFail(t) PROVE RingInv'
  BY <1>24 DEF ShTryFail, Return, mtxVars, PCs
<1>25. ASSUME NEW t \in Thread, ShInterlock(t) PROVE RingInv'
  BY <1>25 DEF ShInterlock, Goto, mtxVars, PCs
<1>26. ASSUME NEW t \in Thread, ShWant(t) PROVE RingInv'
  BY <1>26 DEF ShWant, Goto, PCs
<1>27. ASSUME NEW t \in Thread, ShRetry(t) PROVE RingInv'
  BY <1>27 DEF ShRetry, Goto, mtxVars, PCs
<1>28. ASSUME NEW t \in Thread, ShSleep(t) PROVE RingInv'
  BY <1>28 DEF ShSleep, Goto, mtxVars, PCs
<1>29. ASSUME NEW t \in Thread, ShWake(t) PROVE RingInv'
  BY <1>29 DEF ShWake, Goto, Return, mtxVars, PCs
<1>30. ASSUME NEW t \in Thread, UnShared(t) PROVE RingInv'
  BY <1>30 DEF UnShared, Return, Released, Unlocked, PCs
<1>31. ASSUME NEW t \in Thread, UnOwner(t) PROVE RingInv'
  BY <1>31 DEF UnOwner, Goto, PCs
<1>32. ASSUME NEW t \in Thread, UnExclusive(t) PROVE RingInv'
  <2>1. pc[t] = "un_ex" /\ \E l \in {"wake_sh", "idle", "un"} : pc' = [pc EXCEPT ![t] = l]
    BY <1>32, Zenon DEF UnExclusive, Goto, Return
  <2>2. CASE mtx_lock' = Released
    BY <2>1, <2>2 DEF PCs, Unlocked, Released
  <2>3. CASE mtx_lock' = mtx_lock
    BY <2>1, <2>3 DEF PCs
  <2> QED BY <1>32, <2>2, <2>3, Zenon DEF UnExclusive
<1>33. ASSUME NEW t \in Thread, UnChain(t) PROVE RingInv'
  BY <1>33 DEF UnChain, Goto, PCs
<1>34. ASSUME NEW t \in Thread, UnCount(t) PROVE RingInv'
  BY <1>34 DEF UnCount, Return, PCs
<1>35. ASSUME NEW t \in Thread, ChainPick(t) PROVE RingInv'
  BY <1>35 DEF ChainPick, Goto, PCs
<1>54. ASSUME NEW t \in Thread, ChainOwner(t) PROVE RingInv'
  BY <1>54 DEF ChainOwner, Goto, PCs
<1>36. ASSUME NEW t \in Thread, ChainHandOff(t) PROVE RingInv'
  BY <1>36 DEF ChainHandOff, Goto, PCs
<1>37. ASSUME NEW t \in Thread, ChainRelease(t) PROVE RingInv'
  <2>1. pc[t] = "chain_clear" /\ \E l \in {"chain_null", "idle"} : pc' = [pc EXCEPT ![t] = l]
    BY <1>37, Zenon DEF ChainRelease, Goto, Return
  <2>2. mtx_lock' = [Unlocked EXCEPT !.cnt = mtx_lock.cnt - (mtx_lock.cnt % 2)]
    BY <1>37, Zenon DEF ChainRelease
  <2>3. mtx_lock.cnt - (mtx_lock.cnt % 2) \in Nat
    OBVIOUS
  <2>4. WordOK' /\ ~mtx_lock'.exlink
    BY <2>1, <2>2, <2>3 DEF PCs, Unlocked
  <2> QED BY <2>1, <2>4
<1>38. ASSUME NEW t \in Thread, ChainNull(t) PROVE RingInv'
  BY <1>38 DEF ChainNull, Goto, PCs
<1>39. ASSUME NEW t \in Thread, WakeShared(t) PROVE RingInv'
  BY <1>39 DEF WakeShared, Return, mtxVars, PCs
<1>40. ASSUME NEW t \in Thread, WakeLink(t) PROVE RingInv'
  BY <1>40 DEF WakeLink, Return, mtxVars, PCs
<1>41. ASSUME NEW t \in Thread, DowngradeFast(t) PROVE RingInv'
  BY <1>41 DEF DowngradeFast, Return, Unlocked, PCs
<1>42. ASSUME NEW t \in Thread, DowngradeSlow(t) PROVE RingInv'
  BY <1>42 DEF DowngradeSlow, Goto, Unlocked, mtxVars, PCs
<1>43. ASSUME NEW t \in Thread, _mtx_downgrade(t) PROVE RingInv'
  <2>1. pc[t] = "down_slow" /\ \E l \in {"wake_sh", "idle"} : pc' = [pc EXCEPT ![t] = l]
    BY <1>43, Zenon DEF _mtx_downgrade, Goto, Return
  <2>2. mtx_lock' = [mtx_lock EXCEPT !.ex = FALSE, !.shw = FALSE]
    BY <1>43, Zenon DEF _mtx_downgrade
  <2> QED BY <2>1, <2>2 DEF PCs
<1>44. ASSUME NEW t \in Thread, DowngradeNop(t) PROVE RingInv'
  BY <1>44 DEF DowngradeNop, Return, mtxVars, PCs
<1>45. ASSUME NEW t \in Thread, UpgradeFast(t) PROVE RingInv'
  BY <1>45 DEF UpgradeFast, Return, ToExclusive, Unlocked, PCs
<1>46. ASSUME NEW t \in Thread, _mtx_upgrade_try(t) PROVE RingInv'
  BY <1>46 DEF _mtx_upgrade_try, Goto, ToExclusive, Unlocked, PCs
<1>47. ASSUME NEW t \in Thread, UpgradeNop(t) PROVE RingInv'
  BY <1>47 DEF UpgradeNop, Return, Unlocked, mtxVars, PCs
<1>48. ASSUME NEW t \in Thread, AbortLock(t) PROVE RingInv'
  BY <1>48 DEF AbortLock, Goto, LockRing, PCs
<1>49. ASSUME NEW t \in Thread, mtx_abort_ex_link(t) PROVE RingInv'
  BY <1>49 DEF mtx_abort_ex_link, Return, PCs
<1>50. ASSUME NEW t \in Thread, Ipi(t) PROVE RingInv'
  BY <1>50 DEF Ipi, mtxVars, PCs
<1>51. ASSUME NEW t \in Thread, Interrupt(t) PROVE RingInv'
  BY <1>51 DEF Interrupt, mtxVars, PCs
<1>52. CASE UNCHANGED vars
  BY <1>52 DEF vars, mtxVars
<1> QED
  BY <1>1, <1>2, <1>3, <1>4, <1>5, <1>6, <1>7, <1>8, <1>9, <1>10, <1>11,
     <1>12, <1>13, <1>14, <1>15, <1>16, <1>17, <1>18, <1>19, <1>20, <1>21,
     <1>22, <1>23, <1>24, <1>25, <1>26, <1>27, <1>28, <1>29, <1>30, <1>31,
     <1>32, <1>33, <1>34, <1>35, <1>36, <1>37, <1>38, <1>39, <1>40, <1>41,
     <1>42, <1>43, <1>44, <1>45, <1>46, <1>47, <1>48, <1>49, <1>50, <1>51,
     <1>52, <1>53, <1>54
     DEF Next, Call, Step, StepEx, StepSh, StepUn, StepMode

(***************************************************************************)
(* MTX_EXLINK is a lock on the ring (kern_mutex.c): every section that     *)
(* changes the ring is entered by setting the bit while it is clear and    *)
(* left by clearing it, on all paths.                                      *)
(***************************************************************************)
THEOREM RingIsLocked == Spec => []RingLocked
<1>1. mtx_init => RingInv
  BY DEF mtx_init, PCs, Unlocked, RingInv, WordOK, RingLocked, InRing
<1> QED BY <1>1, RingStep, PTL DEF Spec, RingInv

-----------------------------------------------------------------------------
(* Types.                                                                  *)

(* Every step of a thread leaves the sleep queues alone or is one of the   *)
(* calls of kern_synch.c on a channel of the mutex.                        *)
LEMMA SleepStep ==
  ASSUME IInv, [Next]_vars
  PROVE  SleepTypeOK(Chan)'
<1> DEFINE Queue(t) ==
      \/ UNCHANGED sleepVars
      \/ tsleep_remove(t) \/ tsleep_return(t) \/ endtsleep(t)
      \/ \E c \in Chan : \/ tsleep_interlock(t, c) \/ tsleep(t, c, Flags)
                         \/ wakeup(t, c) \/ wakeup_ipi(t, c)
<1>1. ASSUME NEW t \in Thread, Queue(t) PROVE SleepTypeOK(Chan)'
  <2> SUFFICES ASSUME SleepTypeOK(Chan) PROVE SleepTypeOK(Chan)'
    BY DEF IInv, TypeOK
  <2> USE DEF SleepTypeOK
  <2>1. CASE UNCHANGED sleepVars
    BY <2>1 DEF sleepVars, ipiVars
  <2>2. CASE tsleep_remove(t) \/ tsleep_return(t) \/ endtsleep(t)
    BY <2>2 DEF tsleep_remove, tsleep_return, endtsleep, ipiVars
  <2>3. ASSUME NEW c \in Chan, tsleep_interlock(t, c) PROVE SleepTypeOK(Chan)'
    BY <2>3 DEF tsleep_interlock, ipiVars
  <2>4. ASSUME NEW c \in Chan, tsleep(t, c, Flags) PROVE SleepTypeOK(Chan)'
    BY <2>4 DEF tsleep, ipiVars
  <2>5. ASSUME NEW c \in Chan, wakeup(t, c) PROVE SleepTypeOK(Chan)'
    BY <2>5 DEF wakeup, ipiVars
  <2>6. ASSUME NEW c \in Chan, wakeup_ipi(t, c) PROVE SleepTypeOK(Chan)'
    BY <2>6 DEF wakeup_ipi, ipiVars
  <2> QED BY <1>1, <2>1, <2>2, <2>3, <2>4, <2>5, <2>6
<1>2. ASSUME NEW t \in Thread, Call(t) PROVE Queue(t)
  BY <1>2 DEF Call, CallEx, CallSh, CallUnlock, Downgrade, CallUpgrade,
     CallAbort, Chan
<1>3. ASSUME NEW t \in Thread, StepEx(t) PROVE Queue(t)
  BY <1>3 DEF StepEx, ExFree, SetOwner, ExRecurse, ExTryFail, ExWant, ExLink,
     EarlyAbort, EarlyRead, EarlyClear, ExSleep, ExWake, ExWoken, DeleteLock,
     mtx_delete_link, ExDone, ExPanic, ExRetry, LockRing, Chan
<1>4. ASSUME NEW t \in Thread, StepSh(t) PROVE Queue(t)
  BY <1>4 DEF StepSh, ShFree, ShTryFail, ShInterlock, ShWant, ShRetry,
     ShSleep, ShWake, Chan
<1>5. ASSUME NEW t \in Thread, StepUn(t) PROVE Queue(t)
  <2>1. CASE WakeShared(t)
    <3>1. Mtx \in Chan
      BY DEF Chan
    <3> QED BY <2>1, <3>1 DEF WakeShared
  <2>2. CASE WakeLink(t)
    <3>1. target[t] \in Chan
      BY <2>2 DEF WakeLink, Return, IInv, HeldInv, Chan
    <3> QED BY <2>2, <3>1 DEF WakeLink
  <2> QED BY <1>5, <2>1, <2>2 DEF StepUn, UnShared, UnOwner, UnExclusive,
     UnChain, UnCount, ChainPick, ChainOwner, ChainHandOff, ChainRelease, ChainNull
<1>6. ASSUME NEW t \in Thread, StepMode(t) PROVE Queue(t)
  <2>1. CASE mtx_abort_ex_link(t)
    <3>1. target[t] \in Chan
      BY <2>1 DEF mtx_abort_ex_link, Return, IInv, HeldInv, Chan
    <3> QED BY <2>1, <3>1 DEF mtx_abort_ex_link
  <2> QED BY <1>6, <2>1 DEF StepMode, DowngradeFast, DowngradeSlow,
     _mtx_downgrade, DowngradeNop, UpgradeFast, _mtx_upgrade_try, UpgradeNop,
     AbortLock, LockRing, ToExclusive
<1>7. ASSUME NEW t \in Thread, Ipi(t) \/ Interrupt(t) PROVE Queue(t)
  BY <1>7 DEF Ipi, Interrupt
<1>8. CASE UNCHANGED vars
  BY <1>8 DEF vars, IInv, TypeOK, SleepTypeOK, sleepVars, ipiVars
<1> HIDE DEF Queue
<1> QED BY <1>1, <1>2, <1>3, <1>4, <1>5, <1>6, <1>7, <1>8 DEF Next, Step

(* The owner, the links and what the threads remember keep their types.    *)
LocalOK ==
  /\ mtx_owner \in Thread \cup {NULL}
  /\ link \in [Thread -> LinkStates]
  /\ op \in [Thread -> AllOps \cup {"none"}]
  /\ target \in [Thread -> Thread \cup {NULL}]
  /\ error \in [Thread -> BOOLEAN]

(* Every action keeps them.                                                *)
LEMMA LocalStep ==
  ASSUME IInv, [Next]_vars
  PROVE  LocalOK'
<1>0. LocalOK /\ mtx_link \in Seq(Thread) /\ intr \in [Thread -> BOOLEAN]
      /\ \A t \in Thread : pc[t] = "ab" => target[t] \in Thread
  BY DEF IInv, TypeOK, LocalOK, HeldInv, SleepTypeOK
<1> USE <1>0 DEF LocalOK, LinkStates
<1>1. ASSUME NEW t \in Thread, Call(t) PROVE LocalOK'
  BY <1>1, OpsAssumption DEF Call, CallEx, CallSh, CallUnlock, Downgrade,
     CallUpgrade, CallAbort, mtxVars, Goto, AllOps
<1>2. ASSUME NEW t \in Thread, StepEx(t) PROVE LocalOK'
  BY <1>2 DEF StepEx, ExFree, SetOwner, ExRecurse, ExTryFail, ExWant, ExLink,
     EarlyAbort, EarlyRead, EarlyClear, ExSleep, ExWake, ExWoken, DeleteLock,
     mtx_delete_link, ExDone, ExPanic, ExRetry, mtxVars, Goto, Return, LockRing
<1>3. ASSUME NEW t \in Thread, StepSh(t) PROVE LocalOK'
  BY <1>3 DEF StepSh, ShFree, ShTryFail, ShInterlock, ShWant, ShRetry,
     ShSleep, ShWake, mtxVars, Goto, Return
<1>4. ASSUME NEW t \in Thread, StepUn(t) PROVE LocalOK'
  BY <1>4 DEF StepUn, UnShared, UnOwner, UnExclusive, UnChain, UnCount,
     ChainPick, ChainOwner, ChainHandOff, ChainRelease, ChainNull, WakeShared,
     WakeLink, mtxVars, Goto, Return
<1>5. ASSUME NEW t \in Thread, StepMode(t) PROVE LocalOK'
  BY <1>5 DEF StepMode, DowngradeFast, DowngradeSlow, _mtx_downgrade,
     DowngradeNop, UpgradeFast, _mtx_upgrade_try, UpgradeNop, AbortLock,
     mtx_abort_ex_link, mtxVars, Goto, Return, LockRing, ToExclusive
<1>6. ASSUME NEW t \in Thread, Ipi(t) \/ Interrupt(t) PROVE LocalOK'
  BY <1>6 DEF Ipi, Interrupt, mtxVars
<1>7. CASE UNCHANGED vars
  BY <1>7 DEF vars, mtxVars
<1> QED BY <1>1, <1>2, <1>3, <1>4, <1>5, <1>6, <1>7 DEF Next, Step

(* A thread gives back only what it holds, so the counts stay natural.     *)
HoldOK ==
  /\ exheld \in [Thread -> Nat]
  /\ shheld \in [Thread -> Nat]
  /\ HeldInv

(* Drop() takes one count from the thread that unlocks and from no other.  *)
LEMMA DropOne ==
  ASSUME exheld \in [Thread -> Nat], shheld \in [Thread -> Nat],
         NEW t \in Thread, exheld[t] + shheld[t] > 0, Drop(t)
  PROVE  /\ exheld' \in [Thread -> Nat] /\ shheld' \in [Thread -> Nat]
         /\ \A u \in Thread \ {t} : exheld'[u] = exheld[u] /\ shheld'[u] = shheld[u]
<1>1. CASE exheld[t] > 0
  BY <1>1 DEF Drop, Lose
<1>2. CASE exheld[t] = 0
  <2>1. exheld' = exheld /\ shheld' = [shheld EXCEPT ![t] = @ - 1]
    BY <1>2 DEF Drop, Lose
  <2> QED BY <1>2, <2>1
<1> QED BY <1>1, <1>2

(* Every action keeps the holds.                                           *)
LEMMA HoldStep ==
  ASSUME IInv, [Next]_vars
  PROVE  HoldOK'
<1>0. /\ HoldOK /\ mtx_link \in Seq(Thread) /\ pc \in [Thread -> PCs]
      /\ target \in [Thread -> Thread \cup {NULL}]
  BY DEF IInv, TypeOK, HoldOK
<1> USE <1>0, NullAssumption DEF HoldOK, HeldInv
<1>1. ASSUME NEW t \in Thread, Call(t) PROVE HoldOK'
  BY <1>1 DEF Call, CallEx, CallSh, CallUnlock, Downgrade, CallUpgrade,
     CallAbort, Goto, heldVars
<1>2. ASSUME NEW t \in Thread, StepEx(t) PROVE HoldOK'
  BY <1>2 DEF StepEx, ExFree, SetOwner, ExRecurse, ExTryFail, ExWant, ExLink,
     EarlyAbort, EarlyRead, EarlyClear, ExSleep, ExWake, ExWoken, DeleteLock,
     mtx_delete_link, ExDone, ExPanic, ExRetry, Goto, Return, LockRing, Gain, heldVars
<1>3. ASSUME NEW t \in Thread, StepSh(t) PROVE HoldOK'
  <2>1. CASE ShWake(t)
    <3>1. /\ pc[t] = "sh_asleep" /\ \E l \in {"idle", "sh"} : pc' = [pc EXCEPT ![t] = l]
          /\ UNCHANGED <<target, heldVars>>
      BY <2>1, Zenon DEF ShWake, Goto, Return
    <3> QED BY <3>1 DEF heldVars
  <2> QED BY <1>3, <2>1, SMTT(30) DEF StepSh, ShFree, ShTryFail, ShInterlock, ShWant,
       ShRetry, ShSleep, Goto, Return, Gain, heldVars
<1>4. ASSUME NEW t \in Thread, StepUn(t) PROVE HoldOK'
  <2>0. ASSUME pc[t] = "un", pc' = [pc EXCEPT ![t] = "idle"], target' = target, Drop(t)
        PROVE  HoldOK'
    <3>1. exheld[t] + shheld[t] > 0
      BY <2>0
    <3>2. /\ exheld' \in [Thread -> Nat] /\ shheld' \in [Thread -> Nat]
          /\ \A u \in Thread \ {t} : exheld'[u] = exheld[u] /\ shheld'[u] = shheld[u]
      BY <2>0, <3>1, DropOne
    <3> QED BY <2>0, <3>2
  <2>1. CASE UnShared(t)
    BY <2>0, <2>1 DEF UnShared, Return
  <2>2. CASE UnOwner(t)
    BY <2>2 DEF UnOwner, Goto, heldVars
  <2>3. CASE UnExclusive(t)
    <3>1. CASE /\ \E l \in {"wake_sh", "idle"} : pc' = [pc EXCEPT ![t] = l]
               /\ pc[t] = "un_ex" /\ target' = target /\ Drop(t)
      <4>1. exheld[t] + shheld[t] > 0
        BY <3>1
      <4>2. /\ exheld' \in [Thread -> Nat] /\ shheld' \in [Thread -> Nat]
            /\ \A u \in Thread \ {t} : exheld'[u] = exheld[u] /\ shheld'[u] = shheld[u]
        BY <3>1, <4>1, DropOne
      <4> QED BY <3>1, <4>2
    <3>2. CASE pc' = [pc EXCEPT ![t] = "un"] /\ pc[t] = "un_ex" /\ UNCHANGED <<target, heldVars>>
      BY <3>2 DEF heldVars
    <3> QED BY <2>3, <3>1, <3>2, Zenon DEF UnExclusive, Goto, Return
  <2>4. CASE UnChain(t)
    <3>1. CASE exheld[t] > 0
      BY <2>4, <3>1 DEF UnChain, Goto, Gain, Lose, heldVars
    <3>2. CASE exheld[t] = 0
      <4>1. exheld' = [exheld EXCEPT ![t] = 1] /\ shheld' = [shheld EXCEPT ![t] = @ - 1]
        BY <2>4, <3>2 DEF UnChain, Gain, Lose
      <4>2. shheld[t] > 0
        BY <2>4, <3>2 DEF UnChain, Goto
      <4> QED BY <2>4, <4>1, <4>2 DEF UnChain, Goto
    <3> QED BY <3>1, <3>2
  <2>5. CASE UnCount(t)
    BY <2>0, <2>5 DEF UnCount, Return
  <2>6. CASE ChainPick(t)
    <3>1. CASE mtx_link = << >>
      BY <2>6, <3>1 DEF ChainPick, Goto
    <3>2. CASE mtx_link # << >>
      <4> DEFINE next == Head(mtx_link)
      <4>1. next \in Thread
        BY <3>2
      <4>2. /\ pc[t] = "chain" /\ pc' = [pc EXCEPT ![t] = "chain_owner"]
            /\ target' = [target EXCEPT ![t] = next]
            /\ exheld' = [exheld EXCEPT ![t] = @ - 1, ![next] = @ + 1]
            /\ shheld' = shheld
        BY <2>6, <3>2 DEF ChainPick, Goto
      <4> HIDE DEF next
      <4> QED BY <4>1, <4>2, SMTT(30)
    <3> QED BY <3>1, <3>2
  <2>7. CASE ChainHandOff(t)
    BY <2>7 DEF ChainHandOff, Goto, heldVars
  <2>8. CASE ChainRelease(t)
    BY <2>8 DEF ChainRelease, Goto, Return, Lose
  <2>9. CASE ChainNull(t)
    BY <2>9 DEF ChainNull, Goto, heldVars
  <2>10. CASE WakeShared(t)
    BY <2>10 DEF WakeShared, Return, heldVars
  <2>11. CASE WakeLink(t)
    BY <2>11 DEF WakeLink, Return, heldVars
  <2>12. CASE ChainOwner(t)
    BY <2>12 DEF ChainOwner, Goto, heldVars
  <2> QED BY <1>4, <2>1, <2>2, <2>3, <2>4, <2>5, <2>6, <2>7, <2>8, <2>9,
       <2>10, <2>11, <2>12
       DEF StepUn
<1>5. ASSUME NEW t \in Thread, StepMode(t) PROVE HoldOK'
  <2>1. CASE DowngradeFast(t) \/ _mtx_downgrade(t)
    <3>1. /\ pc[t] \in {"down", "down_slow"} /\ target' = target /\ ToShared(t)
          /\ \E l \in {"wake_sh", "idle"} : pc' = [pc EXCEPT ![t] = l]
      BY <2>1, Zenon DEF DowngradeFast, _mtx_downgrade, Goto, Return
    <3> QED BY <3>1 DEF ToShared
  <2>2. CASE DowngradeSlow(t) \/ DowngradeNop(t) \/ UpgradeNop(t)
    BY <2>2 DEF DowngradeSlow, DowngradeNop, UpgradeNop, Goto, Return, heldVars
  <2>3. CASE UpgradeFast(t) \/ _mtx_upgrade_try(t)
    <3>1. /\ pc[t] = "upgrade" /\ target' = target
          /\ \E l \in {"ex_owner", "idle"} : pc' = [pc EXCEPT ![t] = l]
          /\ exheld' = [exheld EXCEPT ![t] = @ + shheld[t]]
          /\ shheld' = [shheld EXCEPT ![t] = 0]
      BY <2>3, Zenon DEF UpgradeFast, _mtx_upgrade_try, Goto, Return, ToExclusive
    <3> QED BY <3>1
  <2>4. CASE AbortLock(t)
    BY <2>4 DEF AbortLock, LockRing, Goto, heldVars
  <2>5. CASE mtx_abort_ex_link(t)
    BY <2>5 DEF mtx_abort_ex_link, Return, heldVars
  <2> QED BY <1>5, <2>1, <2>2, <2>3, <2>4, <2>5 DEF StepMode
<1>6. ASSUME NEW t \in Thread, Ipi(t) \/ Interrupt(t) PROVE HoldOK'
  BY <1>6 DEF Ipi, Interrupt, heldVars
<1>7. CASE UNCHANGED vars
  BY <1>7 DEF vars, heldVars
<1> QED BY <1>1, <1>2, <1>3, <1>4, <1>5, <1>6, <1>7 DEF Next, Step

-----------------------------------------------------------------------------
(* The ring.                                                               *)

RingOK == mtx_link \in Seq(Thread) /\ RingSound

(* A step that leaves the ring and the links alone, and no queued link     *)
(* without its thread, keeps the ring sound.                               *)
LEMMA RingKept ==
  ASSUME IInv, UNCHANGED <<mtx_link, link>>,
         \A t \in Thread : pc'[t] = pc[t] \/ pc'[t] \in Waiting \/ pc[t] \notin Waiting
  PROVE  RingOK'
BY DEF IInv, TypeOK, RingSound, RingOK

(* Every action keeps the ring sound; seven of them change it or a link.   *)
LEMMA RingSoundStep ==
  ASSUME IInv, [Next]_vars
  PROVE  RingOK'
<1>0. /\ mtx_link \in Seq(Thread) /\ Distinct(mtx_link)
      /\ \A t \in Thread : link[t] = "LINKED" <=> In(t, mtx_link)
      /\ \A t \in Thread : link[t] = "LINKED" => pc[t] \in Waiting
      /\ pc \in [Thread -> PCs] /\ link \in [Thread -> LinkStates]
  BY DEF IInv, TypeOK, RingSound, Distinct, In
<1>1. ASSUME /\ mtx_link' \in Seq(Thread) /\ Distinct(mtx_link')
             /\ \A t \in Thread : link'[t] = "LINKED" <=> In(t, mtx_link')
             /\ \A t \in Thread : link'[t] = "LINKED" => pc'[t] \in Waiting
      PROVE  RingOK'
  BY <1>1 DEF RingOK, RingSound, Distinct, In
<1>2. ASSUME NEW t \in Thread, NEW o \in Ops, CallEx(t, o) PROVE RingOK'
  <2>1. link[t] # "LINKED"
    BY <1>0, <1>2 DEF CallEx, Waiting
  <2> QED BY <1>0, <1>1, <1>2, <2>1 DEF CallEx, mtxVars
<1>3. ASSUME NEW t \in Thread, ExLink(t) PROVE RingOK'
  <2>1. link[t] # "LINKED"
    BY <1>0, <1>3 DEF ExLink, Goto, Waiting
  <2>2. /\ mtx_link' \in Seq(Thread) /\ Distinct(mtx_link')
        /\ \A x : In(x, mtx_link') <=> In(x, mtx_link) \/ x = t
    <3>1. mtx_link' = Append(mtx_link, t) /\ ~In(t, mtx_link)
      BY <1>0, <1>3, <2>1 DEF ExLink
    <3> QED BY <1>0, <3>1, AddToRing
  <2> QED BY <1>0, <1>1, <1>3, <2>1, <2>2 DEF ExLink, Goto, Waiting
<1>4. ASSUME NEW t \in Thread, mtx_delete_link(t) PROVE RingOK'
  <2>1. CASE link[t] = "LINKED"
    <3>1. /\ mtx_link' \in Seq(Thread) /\ Distinct(mtx_link')
          /\ \A x : In(x, mtx_link') <=> In(x, mtx_link) /\ x # t
      BY <1>4, <2>1, UnlinkRing DEF mtx_delete_link
    <3> QED BY <1>0, <1>1, <1>4, <2>1, <3>1 DEF mtx_delete_link, Goto, Waiting
  <2>2. CASE link[t] # "LINKED"
    <3>1. UNCHANGED <<mtx_link, link>>
      BY <1>4, <2>2 DEF mtx_delete_link
    <3> QED BY <1>0, <1>1, <1>4, <2>2, <3>1 DEF mtx_delete_link, Goto
  <2> QED BY <2>1, <2>2
<1>5. ASSUME NEW t \in Thread, mtx_abort_ex_link(t) PROVE RingOK'
  <2> DEFINE u == target[t]
  <2>0. u \in Thread /\ pc[t] = "ab" /\ pc' = [pc EXCEPT ![t] = "idle"]
    BY <1>5 DEF mtx_abort_ex_link, Return, IInv, HeldInv
  <2>1. CASE link[u] = "LINKED"
    <3>1. Unlink(u) /\ link' = [link EXCEPT ![u] = "ABORTED"]
      BY <1>5, <2>1 DEF mtx_abort_ex_link
    <3>2. /\ mtx_link' \in Seq(Thread) /\ Distinct(mtx_link')
          /\ \A x : In(x, mtx_link') <=> In(x, mtx_link) /\ x # u
      BY <2>0, <2>1, <3>1, UnlinkRing
    <3> QED BY <1>0, <1>1, <2>0, <3>1, <3>2 DEF Waiting
  <2>2. CASE link[u] # "LINKED"
    <3>1. mtx_link' = mtx_link /\ (link' = link \/ link' = [link EXCEPT ![u] = "ABORTED"])
      BY <1>5, <2>2 DEF mtx_abort_ex_link
    <3> QED BY <1>0, <1>1, <2>0, <2>2, <3>1 DEF Waiting
  <2> QED BY <2>1, <2>2
<1>6. ASSUME NEW t \in Thread, ExDone(t) PROVE RingOK'
  <2>1. link[t] # "LINKED"
    BY <1>0, <1>6 DEF ExDone, Return, Waiting
  <2> QED BY <1>0, <1>1, <1>6, <2>1 DEF ExDone, Return, mtxVars
<1>7. ASSUME NEW t \in Thread, ChainPick(t) PROVE RingOK'
  <2>1. CASE mtx_link = << >>
    BY <1>0, <1>1, <1>7, <2>1 DEF ChainPick, Goto, Waiting
  <2>2. CASE mtx_link # << >>
    <3> DEFINE next == Head(mtx_link)
    <3>1. /\ mtx_link' = Tail(mtx_link) /\ link' = [link EXCEPT ![next] = "ACQUIRED"]
          /\ pc[t] = "chain" /\ pc' = [pc EXCEPT ![t] = "chain_owner"]
      BY <1>7, <2>2 DEF ChainPick, Goto
    <3>2. /\ mtx_link' \in Seq(Thread) /\ Distinct(mtx_link') /\ next \in Thread
          /\ \A x : In(x, mtx_link') <=> In(x, mtx_link) /\ x # next
      BY <1>0, <2>2, <3>1, PopRing
    <3> HIDE DEF next
    <3> QED BY <1>0, <1>1, <3>1, <3>2 DEF Waiting
  <2> QED BY <2>1, <2>2
<1>8. ASSUME NEW t \in Thread, ExWoken(t) PROVE RingOK'
  BY <1>0, <1>1, <1>8 DEF ExWoken, Goto, Waiting, mtxVars
<1>9. ASSUME NEW t \in Thread, Call(t) PROVE RingOK'
  <2> QED
    BY <1>0, <1>9, <1>2, RingKept
    DEF Call, CallSh, CallUnlock,
        Downgrade, CallUpgrade, CallAbort, mtxVars, Goto, Waiting
<1>10. ASSUME NEW t \in Thread, StepEx(t) PROVE RingOK'
  <2> QED
    BY <1>0, <1>10, <1>3, <1>8, <1>4, <1>6, RingKept
    DEF StepEx,
        ExFree, SetOwner, ExRecurse, ExTryFail, ExWant, EarlyAbort, EarlyRead,
        EarlyClear, ExSleep, ExWake, DeleteLock, ExPanic, ExRetry, mtxVars,
        Goto, Return, LockRing, Waiting
<1>11. ASSUME NEW t \in Thread, StepSh(t) PROVE RingOK'
  <2>1. CASE ShWake(t)
    <3>1. /\ pc[t] = "sh_asleep" /\ \E l \in {"idle", "sh"} : pc' = [pc EXCEPT ![t] = l]
          /\ UNCHANGED <<mtx_link, link>>
      BY <2>1, Zenon DEF ShWake, Goto, Return, mtxVars
    <3> QED BY <1>0, <3>1, RingKept DEF Waiting
  <2> QED
    BY <1>0, <1>11, <2>1, RingKept
    DEF StepSh, ShFree,
        ShTryFail, ShInterlock, ShWant, ShRetry, ShSleep, mtxVars, Goto,
        Return, Waiting
<1>12. ASSUME NEW t \in Thread, StepUn(t) PROVE RingOK'
  <2>1. CASE UnExclusive(t)
    <3>1. /\ pc[t] = "un_ex" /\ \E l \in {"wake_sh", "idle", "un"} : pc' = [pc EXCEPT ![t] = l]
          /\ UNCHANGED <<mtx_link, link>>
      BY <2>1, Zenon DEF UnExclusive, Goto, Return
    <3> QED BY <1>0, <3>1, RingKept DEF Waiting
  <2>2. CASE ChainRelease(t)
    <3>1. /\ pc[t] = "chain_clear" /\ \E l \in {"chain_null", "idle"} : pc' = [pc EXCEPT ![t] = l]
          /\ UNCHANGED <<mtx_link, link>>
      BY <2>2, Zenon DEF ChainRelease, Goto, Return
    <3> QED BY <1>0, <3>1, RingKept DEF Waiting
  <2> QED
    BY <1>0, <1>12, <1>7, <2>1, <2>2, RingKept
    DEF StepUn,
        UnShared, UnOwner, UnChain, UnCount, ChainOwner, ChainHandOff, ChainNull,
        WakeShared, WakeLink, mtxVars, Goto, Return, Waiting
<1>13. ASSUME NEW t \in Thread, StepMode(t) PROVE RingOK'
  <2>1. CASE _mtx_downgrade(t)
    <3>1. /\ pc[t] = "down_slow" /\ \E l \in {"wake_sh", "idle"} : pc' = [pc EXCEPT ![t] = l]
          /\ UNCHANGED <<mtx_link, link>>
      BY <2>1, Zenon DEF _mtx_downgrade, Goto, Return
    <3> QED BY <1>0, <3>1, RingKept DEF Waiting
  <2> QED
    BY <1>0, <1>13, <1>5, <2>1, RingKept
    DEF StepMode,
        DowngradeFast, DowngradeSlow, DowngradeNop, UpgradeFast,
        _mtx_upgrade_try, UpgradeNop, AbortLock, mtxVars, Goto, Return,
        LockRing, ToExclusive, Waiting
<1>14. ASSUME NEW t \in Thread, Ipi(t) \/ Interrupt(t) PROVE RingOK'
  BY <1>14, RingKept DEF Ipi, Interrupt, mtxVars
<1>15. CASE UNCHANGED vars
  BY <1>15, RingKept DEF vars, mtxVars
<1> QED BY <1>9, <1>10, <1>11, <1>12, <1>13, <1>14, <1>15 DEF Next, Step

(* The invariants hold together.                                           *)
LEMMA InvStep ==
  ASSUME IInv, RingInv, [Next]_vars
  PROVE  IInv' /\ RingInv'
<1>1. RingInv'
  BY RingStep
<1>2. LocalOK' /\ HoldOK' /\ RingOK' /\ SleepTypeOK(Chan)'
  BY LocalStep, HoldStep, RingSoundStep, SleepStep
<1> QED BY <1>1, <1>2 DEF IInv, TypeOK, RingInv, WordOK, LocalOK, HoldOK, RingOK

(* They hold at the start.                                                 *)
LEMMA InvInit == mtx_init => IInv /\ RingInv
<1>1. mtx_init => IInv
  BY NullAssumption DEF mtx_init, IInv, TypeOK, HeldInv, RingSound, SleepInit, SleepTypeOK,
     Unlocked, LinkStates, PCs
<1>2. mtx_init => RingInv
  BY DEF mtx_init, PCs, Unlocked, RingInv, WordOK, RingLocked, InRing
<1> QED BY <1>1, <1>2

(***************************************************************************)
(* The ring holds exactly the links of the threads that wait for an        *)
(* exclusive lock, each once, and no link is left in it when its thread    *)
(* leaves __mtx_lock_ex(), however the wait ends: woken, timed out,        *)
(* signalled or aborted.  The mutex keeps its types along the way.         *)
(***************************************************************************)
THEOREM RingIsSound == Spec => [](TypeOK /\ RingSound)
BY InvInit, InvStep, PTL DEF Spec, IInv

(* What RingIsSound says of the types alone: no count goes below zero, and *)
(* every word, link and program counter stays in its range.                *)
THEOREM MutexTypes == Spec => []TypeOK
BY RingIsSound, PTL

-----------------------------------------------------------------------------
(* The bits of the word.                                                   *)

(* A word without a count has none of the bits that say who holds or wants *)
(* the lock.                                                               *)
BitsCounted ==
  mtx_lock.cnt = 0 => ~mtx_lock.ex /\ ~mtx_lock.shw /\ ~mtx_lock.exw

BitInv == WordOK /\ SharedWantsExclusive /\ BitsCounted

(* Every action keeps the bits in step with each other and the count.      *)
LEMMA BitStep ==
  ASSUME BitInv, WordOK', [Next]_vars
  PROVE  BitInv'
<1> USE DEF BitInv, WordOK, SharedWantsExclusive, BitsCounted
<1>1. ASSUME mtx_lock' = mtx_lock PROVE BitInv'
  BY <1>1
<1>2. ASSUME NEW t \in Thread, Call(t) PROVE BitInv'
  BY <1>1, <1>2 DEF Call, CallEx, CallSh, CallUnlock, Downgrade, CallUpgrade,
     CallAbort, mtxVars
<1>3. ASSUME NEW t \in Thread, StepEx(t) PROVE BitInv'
  <2>1. CASE ExFree(t)
    BY <2>1 DEF ExFree, Unlocked
  <2>2. CASE ExRecurse(t)
    BY <2>2 DEF ExRecurse
  <2>3. CASE ExWant(t)
    BY <2>3 DEF ExWant, Held, Unlocked
  <2>4. CASE ExLink(t) \/ EarlyAbort(t) \/ EarlyClear(t) \/ mtx_delete_link(t)
    BY <2>4 DEF ExLink, EarlyAbort, EarlyClear, mtx_delete_link
  <2>5. CASE DeleteLock(t)
    BY <2>5 DEF DeleteLock, LockRing
  <2> QED BY <1>1, <1>3, <2>1, <2>2, <2>3, <2>4, <2>5 DEF StepEx, SetOwner,
       ExTryFail, EarlyRead, ExSleep, ExWake, ExWoken, ExDone, ExPanic, ExRetry,
       mtxVars
<1>4. ASSUME NEW t \in Thread, StepSh(t) PROVE BitInv'
  <2>1. CASE ShFree(t)
    BY <2>1 DEF ShFree
  <2>2. CASE ShWant(t)
    BY <2>2 DEF ShWant
  <2> QED BY <1>1, <1>4, <2>1, <2>2 DEF StepSh, ShTryFail, ShInterlock,
       ShRetry, ShSleep, ShWake, mtxVars
<1>5. ASSUME mtx_lock' = Released PROVE BitInv'
  BY <1>5 DEF Released, Unlocked
<1>6. ASSUME NEW t \in Thread, StepUn(t) PROVE BitInv'
  <2>1. CASE UnExclusive(t)
    <3>1. mtx_lock' = mtx_lock \/ mtx_lock' = Released
      BY <2>1, Zenon DEF UnExclusive
    <3> QED BY <1>1, <1>5, <3>1
  <2>2. CASE UnChain(t)
    BY <2>2 DEF UnChain
  <2>3. CASE UnCount(t)
    BY <2>3 DEF UnCount
  <2>4. CASE ChainHandOff(t)
    BY <2>4 DEF ChainHandOff
  <2>5. CASE ChainRelease(t)
    BY <2>5 DEF ChainRelease, Unlocked
  <2> QED BY <1>1, <1>5, <1>6, <2>1, <2>2, <2>3, <2>4, <2>5 DEF StepUn, UnShared,
       UnOwner, ChainPick, ChainOwner, ChainNull, WakeShared, WakeLink, mtxVars
<1>7. ASSUME NEW t \in Thread, StepMode(t) PROVE BitInv'
  <2>1. CASE DowngradeFast(t)
    BY <2>1 DEF DowngradeFast, Unlocked
  <2>2. CASE _mtx_downgrade(t)
    <3>1. mtx_lock.ex /\ mtx_lock' = [mtx_lock EXCEPT !.ex = FALSE, !.shw = FALSE]
      BY <2>2, Zenon DEF _mtx_downgrade
    <3> QED BY <3>1
  <2>3. CASE UpgradeFast(t) \/ _mtx_upgrade_try(t)
    <3>1. mtx_lock.cnt = 1 /\ mtx_lock' = [mtx_lock EXCEPT !.ex = TRUE]
      BY <2>3 DEF UpgradeFast, _mtx_upgrade_try, ToExclusive, Unlocked
    <3> QED BY <3>1
  <2>4. CASE AbortLock(t)
    BY <2>4 DEF AbortLock, LockRing
  <2>5. CASE mtx_abort_ex_link(t)
    BY <2>5 DEF mtx_abort_ex_link
  <2> QED BY <1>1, <1>7, <2>1, <2>2, <2>3, <2>4, <2>5 DEF StepMode,
       DowngradeSlow, DowngradeNop, UpgradeNop, mtxVars
<1>8. ASSUME NEW t \in Thread, Ipi(t) \/ Interrupt(t) PROVE BitInv'
  BY <1>1, <1>8 DEF Ipi, Interrupt, mtxVars
<1>9. CASE UNCHANGED vars
  BY <1>1, <1>9 DEF vars, mtxVars
<1> QED BY <1>2, <1>3, <1>4, <1>6, <1>7, <1>8, <1>9 DEF Next, Step

(* They hold at the start.                                                 *)
LEMMA BitInit == mtx_init => BitInv
BY InvInit DEF mtx_init, Unlocked, RingInv, BitInv, SharedWantsExclusive, BitsCounted

(***************************************************************************)
(* No step leaves the mutex without an exclusive holder and MTX_SHWANTED   *)
(* set: neither a release, a hand-over or a downgrade, nor the cmpset that *)
(* announces a shared waiter (kern_mutex.c:668-670), for every choice of   *)
(* operations, signals, timeouts and aborts.                               *)
(***************************************************************************)
THEOREM SharedWaitersSeen == Spec => []SharedWantsExclusive
<1>1. RingInv => WordOK
  BY DEF RingInv
<1> QED BY <1>1, InvInit, InvStep, BitInit, BitStep, PTL DEF Spec, BitInv

-----------------------------------------------------------------------------
(***************************************************************************)
(* MTX_EXWANTED.  mtx_abort_ex_link() is left out: an early abort clears   *)
(* the bit after it has let go of the ring (kern_mutex.c:130-137).         *)
(***************************************************************************)

SeenInv ==
  /\ "abort" \notin Ops
  /\ \A t \in Thread :
       /\ link[t] # "ABORTED"
       /\ pc[t] \notin {"early_read", "early_clear", "ab_wait", "ab"}
       /\ pc[t] = "ex_link" => mtx_lock.exw /\ mtx_lock.cnt > 0
       /\ pc[t] = "chain_clear" /\ target[t] = NULL => mtx_link = << >>
  /\ WaitersSeen

(* Only t moves, and not to a place of which SeenInv says something.       *)
Moves(t) ==
  /\ \A u \in Thread : u # t => pc'[u] = pc[u]
  /\ pc'[t] \notin {"early_read", "early_clear", "ab_wait", "ab", "ex_link", "chain_clear"}
  /\ target' = target /\ mtx_link' = mtx_link

(* A step that leaves MTX_EXWANTED and the ring alone.                     *)
LEMMA SeenKept ==
  ASSUME SeenInv, NEW t \in Thread, Moves(t),
         mtx_lock'.exw = mtx_lock.exw, mtx_lock.cnt > 0 => mtx_lock'.cnt > 0,
         \A u \in Thread : link'[u] # "ABORTED"
  PROVE  SeenInv'
BY DEF SeenInv, Moves, WaitersSeen

(* A release of a mutex for which MTX_EXWANTED is not set.                 *)
LEMMA SeenUnwanted ==
  ASSUME SeenInv, NEW t \in Thread, Moves(t), link' = link, ~mtx_lock.exw
  PROVE  SeenInv'
BY DEF SeenInv, Moves, WaitersSeen

(* Every action keeps the waiters in sight of the last release.            *)
LEMMA SeenStep ==
  ASSUME SeenInv, IInv, RingInv, BitInv, WordOK', [Next]_vars
  PROVE  SeenInv'
<1>0. /\ pc \in [Thread -> PCs] /\ target \in [Thread -> Thread \cup {NULL}]
      /\ mtx_lock \in [ex : BOOLEAN, shw : BOOLEAN, exw : BOOLEAN,
                       exlink : BOOLEAN, cnt : Nat]
      /\ link \in [Thread -> LinkStates] /\ mtx_link \in Seq(Thread)
      /\ \A t \in Thread : link[t] # "ABORTED"
      /\ \A t \in Thread : pc[t] \notin {"early_read", "early_clear", "ab_wait", "ab"}
      /\ "abort" \notin Ops
  BY DEF IInv, TypeOK, SeenInv
<1>1. \A t, u \in Thread : pc[t] \in InRing /\ pc[u] \in InRing => t = u
  BY DEF RingInv, RingLocked
<1>2. ASSUME NEW t \in Thread, Call(t) PROVE SeenInv'
  <2>1. ASSUME NEW o \in Ops, CallEx(t, o) PROVE SeenInv'
    BY <1>0, <2>1, SeenKept DEF Moves, CallEx, mtxVars
  <2>2. ASSUME NEW o \in Ops, CallSh(t, o) PROVE SeenInv'
    BY <1>0, <2>2, SeenKept DEF Moves, CallSh, mtxVars
  <2>3. CASE CallUnlock(t) \/ Downgrade(t) \/ CallUpgrade(t)
    BY <1>0, <2>3, SeenKept DEF Moves, CallUnlock, Downgrade, CallUpgrade, Goto, mtxVars
  <2> QED BY <1>0, <1>2, <2>1, <2>2, <2>3 DEF Call, CallAbort
<1>3. ASSUME NEW t \in Thread, StepEx(t) PROVE SeenInv'
  <2>1. CASE ExFree(t) \/ ExRecurse(t)
    <3>1. mtx_lock'.exw = mtx_lock.exw /\ (mtx_lock.cnt > 0 => mtx_lock'.cnt > 0)
      <4>1. CASE ExFree(t)
        BY <1>0, <4>1 DEF ExFree
      <4>2. CASE ExRecurse(t)
        BY <1>0, <4>2 DEF ExRecurse
      <4> QED BY <2>1, <4>1, <4>2
    <3> QED BY <1>0, <2>1, <3>1, SeenKept DEF Moves, ExFree, ExRecurse, Goto, Return
  <2>2. CASE ExWant(t)
    <3>1. mtx_lock.cnt > 0
      BY <1>0, <2>2 DEF ExWant, Held, Unlocked, BitInv, BitsCounted
    <3>2. mtx_lock'.exw /\ mtx_lock'.cnt > 0
      BY <1>0, <2>2, <3>1 DEF ExWant
    <3> QED BY <1>0, <2>2, <3>2 DEF SeenInv, WaitersSeen, ExWant, Goto
  <2>3. CASE ExLink(t)
    <3>1. mtx_lock'.exw /\ mtx_lock'.cnt > 0 /\ \A u \in Thread : link'[u] # "ABORTED"
      BY <1>0, <2>3 DEF SeenInv, ExLink, Goto
    <3>2. \A u \in Thread : pc[u] # "chain_clear"
      BY <1>1, <2>3 DEF ExLink, Goto, InRing
    <3> QED BY <1>0, <2>3, <3>1, <3>2 DEF SeenInv, WaitersSeen, ExLink, Goto
  <2>4. CASE mtx_delete_link(t)
    <3>1. mtx_link' # << >> => mtx_link # << >>
      <4>1. CASE link[t] = "LINKED"
        <5>1. \E i \in DOMAIN mtx_link : mtx_link[i] = t
          BY <4>1 DEF IInv, RingSound
        <5> QED BY <1>0, <5>1
      <4>2. CASE link[t] # "LINKED"
        BY <2>4, <4>2 DEF mtx_delete_link
      <4> QED BY <4>1, <4>2
    <3>2. mtx_lock'.exw = mtx_lock.exw /\ mtx_lock'.cnt = mtx_lock.cnt
      BY <1>0, <2>4 DEF mtx_delete_link
    <3>3. /\ \A u \in Thread : pc'[u] = pc[u] \/ pc'[u] = "ex_check"
          /\ \A u \in Thread : link'[u] # "ABORTED" /\ target' = target
      BY <1>0, <2>4 DEF mtx_delete_link, Goto
    <3> QED BY <1>0, <3>1, <3>2, <3>3 DEF SeenInv, WaitersSeen
  <2>5. CASE DeleteLock(t)
    BY <1>0, <2>5, SeenKept DEF Moves, DeleteLock, LockRing, Goto
  <2>6. CASE \/ SetOwner(t) \/ ExTryFail(t) \/ ExSleep(t) \/ ExWake(t) \/ ExPanic(t)
             \/ ExRetry(t)
    BY <1>0, <2>6, SeenKept DEF Moves, SetOwner, ExTryFail, ExSleep, ExWake, ExPanic,
       ExRetry, Goto, Return, mtxVars
  <2>7. CASE ExWoken(t)
    BY <1>0, <2>7, SeenKept DEF Moves, ExWoken, Goto, mtxVars
  <2>8. CASE ExDone(t)
    BY <1>0, <2>8, SeenKept DEF Moves, ExDone, Return, mtxVars
  <2> QED BY <1>0, <1>3, <2>1, <2>2, <2>3, <2>4, <2>5, <2>6, <2>7, <2>8
       DEF StepEx, EarlyAbort, EarlyRead, EarlyClear, Goto, Return
<1>4. ASSUME NEW t \in Thread, StepSh(t) PROVE SeenInv'
  <2>1. CASE ShFree(t)
    BY <1>0, <2>1, SeenKept DEF Moves, ShFree, Return
  <2>2. CASE ShWant(t)
    BY <1>0, <2>2, SeenKept DEF Moves, ShWant, Goto
  <2>3. CASE ShWake(t)
    <3>1. /\ \E l \in {"idle", "sh"} : pc' = [pc EXCEPT ![t] = l]
          /\ UNCHANGED <<mtxVars, link, target>>
      BY <2>3, Zenon DEF ShWake, Goto, Return
    <3> QED BY <1>0, <3>1, SeenKept DEF Moves, mtxVars
  <2> QED BY <1>0, <1>4, <2>1, <2>2, <2>3, SeenKept DEF Moves, StepSh, ShTryFail,
       ShInterlock, ShRetry, ShSleep, Goto, Return, mtxVars
<1>5. ASSUME NEW t \in Thread, StepUn(t) PROVE SeenInv'
  <2>1. CASE UnShared(t)
    BY <1>0, <2>1, SeenUnwanted DEF Moves, UnShared, Return
  <2>2. CASE UnOwner(t)
    BY <1>0, <2>2, SeenKept DEF Moves, UnOwner, Goto
  <2>3. CASE UnExclusive(t)
    <3>1. /\ \E l \in {"wake_sh", "idle", "un"} : pc' = [pc EXCEPT ![t] = l]
          /\ mtx_lock' = mtx_lock \/ ~mtx_lock.exw
          /\ UNCHANGED <<mtx_link, link, target>>
      BY <2>3, Zenon DEF UnExclusive, Goto, Return
    <3> QED BY <1>0, <3>1, SeenKept, SeenUnwanted DEF Moves
  <2>4. CASE UnChain(t)
    BY <1>0, <2>4, SeenKept DEF Moves, UnChain, Goto
  <2>5. CASE UnCount(t)
    BY <1>0, <2>5, SeenKept DEF Moves, UnCount, Return
  <2>6. CASE ChainPick(t)
    <3>0. \A u \in Thread : u # t => pc[u] # "chain_clear" /\ pc[u] # "ex_link"
      BY <1>1, <2>6 DEF ChainPick, Goto, InRing
    <3>1. CASE mtx_link = << >>
      BY <1>0, <2>6, <3>0, <3>1 DEF ChainPick, Goto, SeenInv, WaitersSeen
    <3>2. CASE mtx_link # << >>
      <4> DEFINE next == Head(mtx_link)
      <4>1. next \in Thread /\ next # NULL
        BY <1>0, <3>2, NullAssumption
      <4>2. /\ pc' = [pc EXCEPT ![t] = "chain_owner"] /\ mtx_lock' = mtx_lock
            /\ target' = [target EXCEPT ![t] = next]
            /\ link' = [link EXCEPT ![next] = "ACQUIRED"]
        BY <2>6, <3>2 DEF ChainPick, Goto
      <4> HIDE DEF next
      <4> QED BY <1>0, <3>0, <3>2, <4>1, <4>2 DEF SeenInv, WaitersSeen
    <3> QED BY <3>1, <3>2
  <2>7. CASE ChainHandOff(t)
    <3>0. \A u \in Thread : u # t => pc[u] # "ex_link"
      BY <1>1, <2>7 DEF ChainHandOff, Goto, InRing
    <3>1. /\ mtx_lock'.cnt = mtx_lock.cnt /\ mtx_link' = mtx_link
          /\ mtx_link # << >> => mtx_lock'.exw = mtx_lock.exw
      BY <1>0, <2>7 DEF ChainHandOff
    <3> QED BY <1>0, <2>7, <3>0, <3>1 DEF ChainHandOff, Goto, SeenInv, WaitersSeen
  <2>8. CASE ChainRelease(t)
    <3>0. /\ \A u \in Thread : u # t => pc[u] # "ex_link"
          /\ mtx_link = << >>
      BY <1>1, <2>8 DEF ChainRelease, Goto, Return, InRing, SeenInv
    <3>1. /\ \E l \in {"chain_null", "idle"} : pc' = [pc EXCEPT ![t] = l]
          /\ UNCHANGED <<mtx_link, link, target>>
      BY <2>8, Zenon DEF ChainRelease, Goto, Return
    <3> QED BY <1>0, <3>0, <3>1 DEF SeenInv, WaitersSeen
  <2>9. CASE ChainNull(t) \/ WakeShared(t)
    BY <1>0, <2>9, SeenKept DEF Moves, ChainNull, WakeShared, Goto, Return, mtxVars
  <2>10. CASE WakeLink(t)
    BY <1>0, <2>10 DEF WakeLink, Return, mtxVars, SeenInv, WaitersSeen
  <2>11. CASE ChainOwner(t)
    <3>1. target[t] # NULL
      BY <2>11, NullAssumption DEF ChainOwner, Goto, IInv, HeldInv
    <3> QED BY <1>0, <2>11, <3>1 DEF ChainOwner, Goto, SeenInv, WaitersSeen
  <2> QED BY <1>5, <2>1, <2>2, <2>3, <2>4, <2>5, <2>6, <2>7, <2>8, <2>9, <2>10, <2>11 DEF StepUn
<1>6. ASSUME NEW t \in Thread, StepMode(t) PROVE SeenInv'
  <2>1. CASE DowngradeFast(t)
    BY <1>0, <2>1, SeenUnwanted DEF Moves, DowngradeFast, Return, Unlocked
  <2>2. CASE _mtx_downgrade(t)
    <3>1. /\ \E l \in {"wake_sh", "idle"} : pc' = [pc EXCEPT ![t] = l]
          /\ mtx_lock' = [mtx_lock EXCEPT !.ex = FALSE, !.shw = FALSE]
          /\ UNCHANGED <<mtx_link, link, target>>
      BY <2>2, Zenon DEF _mtx_downgrade, Goto, Return
    <3> QED BY <1>0, <3>1, SeenKept DEF Moves
  <2>3. CASE UpgradeFast(t)
    BY <1>0, <2>3, SeenKept DEF Moves, UpgradeFast, ToExclusive, Return
  <2>4. CASE _mtx_upgrade_try(t)
    BY <1>0, <2>4, SeenKept DEF Moves, _mtx_upgrade_try, ToExclusive, Goto
  <2>5. CASE DowngradeSlow(t) \/ DowngradeNop(t) \/ UpgradeNop(t)
    BY <1>0, <2>5, SeenKept DEF Moves, DowngradeSlow, DowngradeNop, UpgradeNop, Goto, Return,
       mtxVars
  <2> QED BY <1>0, <1>6, <2>1, <2>2, <2>3, <2>4, <2>5 DEF StepMode, AbortLock, LockRing,
       mtx_abort_ex_link, Goto, Return
<1>7. ASSUME NEW t \in Thread, Ipi(t) \/ Interrupt(t) PROVE SeenInv'
  BY <1>7 DEF Ipi, Interrupt, mtxVars, SeenInv, WaitersSeen
<1>8. CASE UNCHANGED vars
  BY <1>8 DEF vars, mtxVars, SeenInv, WaitersSeen
<1> QED BY <1>2, <1>3, <1>4, <1>5, <1>6, <1>7, <1>8 DEF Next, Step

(***************************************************************************)
(* While a link is queued, somebody holds the mutex and MTX_EXWANTED is    *)
(* set, so the last release finds the waiter.  This is so whatever else    *)
(* the threads do: they may time out, take signals, upgrade or downgrade,  *)
(* but not abort each other's waits.                                       *)
(***************************************************************************)
THEOREM WaitersAreSeen == "abort" \notin Ops /\ Spec => []WaitersSeen
<1>1. "abort" \notin Ops /\ mtx_init => SeenInv
  BY NullAssumption DEF mtx_init, SeenInv, WaitersSeen
<1>2. IInv /\ RingInv /\ BitInv /\ SeenInv /\ [Next]_vars
        => IInv' /\ RingInv' /\ BitInv' /\ SeenInv'
  BY InvStep, BitStep, SeenStep DEF RingInv
<1>3. SeenInv => WaitersSeen
  BY DEF SeenInv
<1> QED BY <1>1, <1>2, <1>3, InvInit, BitInit, PTL DEF Spec

-----------------------------------------------------------------------------
(***************************************************************************)
(* Who holds the mutex.  A tsleep() that fails, mtx_downgrade() and        *)
(* mtx_upgrade_try() are left out: each can leave the count or the owner   *)
(* behind.                                                                 *)
(***************************************************************************)
Uninterrupted == Flags = {} /\ Ops \cap {"downgrade", "upgrade_try", "abort"} = {}

(* A thread whose link is queued or was picked, and one that was woken.    *)
Parked == {"ex_tsleep", "ex_asleep"}
Handed == {"ex_woken", "ex_check"}

(* The places that only a failed sleep or one of the other operations      *)
(* leads to.                                                               *)
Unused == {"early_read", "early_clear", "del_wait", "del", "chain_null",
           "down", "down_slow", "upgrade", "ab_wait", "ab", "panic"}

(* The link and the sleep of a thread go with its program counter.         *)
PlaceOK(t) ==
  /\ pc[t] \notin Unused
  /\ ~intr[t] /\ ~error[t]
  /\ pc[t] \notin Parked \cup Handed => link[t] = "IDLE"
  /\ pc[t] \in Parked => link[t] \in {"LINKED", "ACQUIRED"}
  /\ pc[t] \in Handed => link[t] = "ACQUIRED"
  /\ tdstate[t] # "run" => pc[t] \in {"ex_asleep", "sh_asleep"}
  /\ pc[t] = "ex_asleep" => wchan[t] \in {t, NULL}
  /\ pc[t] = "ex_asleep" /\ tdstate[t] = "ready" => link[t] = "ACQUIRED"

(* The wakeup of t's link that is still to be sent or to arrive.           *)
Waker(u, t) == pc[u] \in {"chain_owner", "chain_clear", "wake_link"} /\ target[u] = t
Pending(t) == link[t] = "ACQUIRED" /\ pc[t] \in Parked /\ tdstate[t] # "ready"

(* Only a link that was picked is woken, and only once.                    *)
WakeOK(t) ==
  /\ \A u, v \in Thread : Waker(u, t) /\ Waker(v, t) => u = v
  /\ \A u \in Thread : Waker(u, t) => Pending(t) /\ <<t, t>> \notin ipiq
  /\ <<t, t>> \in ipiq => Pending(t) /\ <<t, t>> \notin ipidup

(* Whoever unlocks with MTX_EXWANTED set finds a link.                     *)
WantOK ==
  /\ mtx_lock.exw /\ ~mtx_lock.exlink => mtx_link # << >>
  /\ \A t \in Thread :
       /\ pc[t] = "chain" => mtx_link # << >>
       /\ pc[t] \in {"chain_owner", "chain_clear"} => target[t] \in Thread

WaitInv ==
  /\ Uninterrupted
  /\ WantOK
  /\ \A t \in Thread : PlaceOK(t) /\ WakeOK(t)

(* What a thread holds where it stands, and whether it is the owner.       *)
LockedOK(t) ==
  /\ exheld[t] + shheld[t] <= MaxHold /\ (exheld[t] = 0 \/ shheld[t] = 0)
  /\ pc[t] = "ex" => shheld[t] = 0 /\ exheld[t] < MaxHold
  /\ pc[t] \in {"sh", "sh_want", "sh_tsleep", "sh_asleep"}
       => exheld[t] = 0 /\ shheld[t] < MaxHold
  /\ pc[t] = "ex_link" \/ link[t] = "LINKED" => exheld[t] = 0 /\ shheld[t] = 0
  /\ pc[t] \in {"ex_owner", "un_ex", "chain"} => exheld[t] = 1 /\ shheld[t] = 0
  /\ link[t] = "ACQUIRED" => exheld[t] > 0
Unrecorded(t) == \E u \in Thread : pc[u] = "chain_owner" /\ target[u] = t
OwnedOK(t) ==
  /\ mtx_owner = t => (exheld[t] > 0 /\ pc[t] # "un_ex") \/ pc[t] = "chain_owner"
  /\ exheld[t] > 0 /\ pc[t] \notin {"ex_owner", "un_ex", "chain", "un"}
       => mtx_owner = t \/ Unrecorded(t)
  /\ exheld[t] > 1 => mtx_owner = t

HoldInv ==
  /\ \A t \in Thread : LockedOK(t) /\ OwnedOK(t)
  /\ Exclusion /\ CountExact

(* Places where a thread neither waits for the ring's hand-over nor makes  *)
(* one.                                                                    *)
Outside == PCs \ (Parked \cup Handed \cup Unused
                    \cup {"chain", "chain_owner", "chain_clear", "wake_link", "sh_asleep"})

(* What the steps of the waiters need of the other invariants.             *)
WaitTypes ==
  /\ pc \in [Thread -> PCs] /\ link \in [Thread -> LinkStates]
  /\ target \in [Thread -> Thread \cup {NULL}]
  /\ error \in [Thread -> BOOLEAN] /\ mtx_link \in Seq(Thread)
  /\ mtx_lock \in [ex : BOOLEAN, shw : BOOLEAN, exw : BOOLEAN,
                   exlink : BOOLEAN, cnt : Nat]
  /\ SleepTypeOK(Chan)
  /\ \A t, u \in Thread : pc[t] \in InRing /\ pc[u] \in InRing => t = u
  /\ \A t \in Thread : pc[t] \in InRing => mtx_lock.exlink
  /\ \A t \in Thread : link[t] = "LINKED" <=> In(t, mtx_link)
  /\ \A t \in Thread : link[t] = "LINKED" => pc[t] \in Waiting
  /\ Distinct(mtx_link)

(* They follow from the invariants proved so far.                          *)
LEMMA WaitTyped == ASSUME IInv, RingInv PROVE WaitTypes
BY DEF IInv, TypeOK, RingInv, RingLocked, WaitTypes, RingSound, In, Distinct

(* Only t moves, outside of the hand-over, and nobody is woken.            *)
OutsideStep(t) ==
  /\ \A u \in Thread : u # t => pc'[u] = pc[u] /\ wchan'[u] = wchan[u]
  /\ pc[t] \in Outside /\ pc'[t] \in Outside
  /\ \A u \in Thread : link'[u] = link[u]
  /\ UNCHANGED <<target, error, mtx_link, tdstate, intr, ipiVars>>
  /\ mtx_lock'.exw /\ ~mtx_lock'.exlink => mtx_lock.exw /\ ~mtx_lock.exlink

(* Such a step keeps what is known of the waiters.                         *)
LEMMA WaitKept ==
  ASSUME WaitInv, WaitTypes, NEW t \in Thread, OutsideStep(t)
  PROVE  WaitInv'
<1>1. \A u \in Thread : PlaceOK(u)'
  BY DEF WaitInv, PlaceOK, OutsideStep, Outside, Parked, Handed, Unused
<1>2. \A u, v \in Thread : Waker(u, v)' <=> Waker(u, v)
  BY DEF Waker, OutsideStep, Outside
<1>3. \A u \in Thread : Pending(u)' <=> Pending(u)
  BY DEF Pending, OutsideStep, Outside, Parked
<1>4. \A u \in Thread : WakeOK(u)'
  <2> HIDE DEF Waker, Pending
  <2> QED BY <1>2, <1>3 DEF WaitInv, WakeOK, OutsideStep, ipiVars
<1>5. WantOK'
  BY DEF WaitInv, WantOK, OutsideStep, Outside
<1> QED BY <1>1, <1>4, <1>5 DEF WaitInv

(* The steps that are no part of a wait for an exclusive lock.             *)
LEMMA OutsideSteps ==
  ASSUME WaitInv, WaitTypes, NEW t \in Thread,
         \/ \E o \in Ops : CallEx(t, o) \/ CallSh(t, o)
         \/ CallUnlock(t) \/ ExFree(t) \/ SetOwner(t) \/ ExRecurse(t) \/ ExTryFail(t)
         \/ ExWant(t) \/ ShFree(t) \/ ShTryFail(t) \/ ShInterlock(t) \/ ShWant(t)
         \/ ShRetry(t) \/ UnShared(t) \/ UnOwner(t) \/ UnExclusive(t) \/ UnCount(t)
  PROVE  OutsideStep(t)
<1> USE DEF WaitTypes, Outside, Parked, Handed, Unused, PCs
<1>1. ASSUME pc[t] \in Outside, NEW l \in Outside, pc' = [pc EXCEPT ![t] = l],
             UNCHANGED <<link, target, error, mtx_link, sleepVars>>,
             mtx_lock'.exw /\ ~mtx_lock'.exlink => mtx_lock.exw /\ ~mtx_lock.exlink
      PROVE  OutsideStep(t)
  BY <1>1 DEF OutsideStep, sleepVars, ipiVars
<1>2. CASE \E o \in Ops : CallEx(t, o)
  <2>1. link[t] = "IDLE"
    BY <1>2 DEF CallEx, WaitInv, PlaceOK
  <2> QED BY <1>2, <2>1 DEF CallEx, OutsideStep, mtxVars, sleepVars, ipiVars
<1>3. CASE \E o \in Ops : CallSh(t, o)
  BY <1>3 DEF CallSh, OutsideStep, mtxVars, sleepVars, ipiVars
<1>4. CASE CallUnlock(t) \/ ExTryFail(t) \/ ShTryFail(t)
  BY <1>4 DEF CallUnlock, ExTryFail, ShTryFail, Goto, Return, OutsideStep, mtxVars,
     sleepVars, ipiVars
<1>5. CASE ExFree(t)
  <2>1. mtx_lock'.exw = mtx_lock.exw /\ mtx_lock'.exlink = mtx_lock.exlink
    BY <1>5 DEF ExFree
  <2> QED BY <1>5, <2>1 DEF ExFree, Goto, OutsideStep, sleepVars, ipiVars
<1>6. CASE SetOwner(t) \/ UnOwner(t)
  BY <1>6 DEF SetOwner, UnOwner, Goto, Return, OutsideStep, sleepVars, ipiVars
<1>7. CASE ExRecurse(t)
  <2>1. mtx_lock'.exw = mtx_lock.exw /\ mtx_lock'.exlink = mtx_lock.exlink
    BY <1>7 DEF ExRecurse
  <2> QED BY <1>7, <2>1 DEF ExRecurse, Return, OutsideStep, sleepVars, ipiVars
<1>8. CASE ExWant(t)
  <2>1. mtx_lock'.exlink
    BY <1>8 DEF ExWant
  <2> QED BY <1>8, <2>1 DEF ExWant, Goto, OutsideStep, sleepVars, ipiVars
<1>9. CASE ShFree(t) \/ UnCount(t)
  <2>1. mtx_lock'.exw = mtx_lock.exw /\ mtx_lock'.exlink = mtx_lock.exlink
    BY <1>9 DEF ShFree, UnCount
  <2> QED BY <1>9, <2>1 DEF ShFree, UnCount, Return, OutsideStep, sleepVars, ipiVars
<1>10. CASE ShInterlock(t) \/ ShRetry(t)
  BY <1>10 DEF ShInterlock, ShRetry, tsleep_interlock, tsleep_remove, Goto, OutsideStep,
     mtxVars, SleepTypeOK
<1>11. CASE ShWant(t)
  <2>1. mtx_lock'.exw = mtx_lock.exw /\ mtx_lock'.exlink = mtx_lock.exlink
    BY <1>11 DEF ShWant
  <2> QED BY <1>11, <2>1 DEF ShWant, Goto, OutsideStep, sleepVars, ipiVars
<1>12. ASSUME mtx_lock' = Released PROVE ~mtx_lock'.exw
  BY <1>12 DEF Released, Unlocked
<1>13. CASE UnShared(t)
  BY <1>12, <1>13 DEF UnShared, Return, OutsideStep, sleepVars, ipiVars
<1>14. CASE UnExclusive(t)
  <2>1. /\ pc[t] = "un_ex" /\ \E l \in {"wake_sh", "idle", "un"} : pc' = [pc EXCEPT ![t] = l]
        /\ mtx_lock' = mtx_lock \/ mtx_lock' = Released
        /\ UNCHANGED <<mtx_link, link, target, error, sleepVars>>
    BY <1>14, Zenon DEF UnExclusive, Goto, Return
  <2> QED BY <1>12, <2>1 DEF OutsideStep, sleepVars, ipiVars
<1> QED BY <1>2, <1>3, <1>4, <1>5, <1>6, <1>7, <1>8, <1>9, <1>10, <1>11, <1>13, <1>14

(* Link in and go to sleep.                                                *)
LEMMA ParkSteps ==
  ASSUME WaitInv, WaitTypes, NEW t \in Thread, ExLink(t) \/ ExSleep(t)
  PROVE  WaitInv'
<1> USE DEF WaitTypes, Parked, Handed, Unused
<1>1. CASE ExLink(t)
  <2>1. /\ pc[t] = "ex_link" /\ pc' = [pc EXCEPT ![t] = "ex_tsleep"]
        /\ link' = [link EXCEPT ![t] = "LINKED"] /\ mtx_link' = Append(mtx_link, t)
        /\ wchan' = [wchan EXCEPT ![t] = t]
        /\ UNCHANGED <<target, error, tdstate, intr, ipiq, ipidup>>
    BY <1>1 DEF ExLink, Goto, tsleep_interlock, ipiVars
  <2>2. link[t] = "IDLE" /\ ~Pending(t)
    BY <2>1 DEF WaitInv, PlaceOK, Pending
  <2>3. \A u \in Thread : PlaceOK(u)'
    BY <2>1 DEF WaitInv, PlaceOK, SleepTypeOK
  <2>4. \A u, v \in Thread : Waker(u, v)' <=> Waker(u, v)
    BY <2>1 DEF Waker
  <2>5. \A u \in Thread : Pending(u)' <=> Pending(u)
    BY <2>1, <2>2 DEF Pending
  <2>6. \A u \in Thread : WakeOK(u)'
    BY <2>1, <2>4, <2>5 DEF WaitInv, WakeOK
  <2>7. mtx_link' # << >>
    BY <2>1
  <2>8. \A u \in Thread : pc'[u] \in {"chain_owner", "chain_clear"} => target'[u] \in Thread
    BY <2>1 DEF WaitInv, WantOK
  <2>9. WantOK'
    BY <2>7, <2>8 DEF WantOK
  <2> QED BY <2>3, <2>6, <2>9 DEF WaitInv
<1>2. CASE ExSleep(t)
  <2>1. /\ pc[t] = "ex_tsleep" /\ pc' = [pc EXCEPT ![t] = "ex_asleep"]
        /\ wchan' = [wchan EXCEPT ![t] = t] /\ tdstate[t] = "run"
        /\ tdstate' = [tdstate EXCEPT ![t] = "asleep"]
        /\ UNCHANGED <<mtx_lock, mtx_link, link, target, error, intr, ipiq, ipidup>>
    <3>1. Flags = {} /\ t # NULL
      BY NullAssumption DEF WaitInv, Uninterrupted
    <3> QED BY <1>2, <3>1 DEF ExSleep, Goto, tsleep, ipiVars, mtxVars
  <2>2. t # Mtx
    BY ChanAssumption
  <2>3. \A u \in Thread : PlaceOK(u)'
    BY <2>1, <2>2 DEF WaitInv, PlaceOK, SleepTypeOK
  <2>4. \A u, v \in Thread : Waker(u, v)' <=> Waker(u, v)
    BY <2>1 DEF Waker
  <2>5. \A u \in Thread : Pending(u)' <=> Pending(u)
    BY <2>1 DEF Pending, SleepTypeOK
  <2>6. \A u \in Thread : WakeOK(u)'
    BY <2>1, <2>4, <2>5 DEF WaitInv, WakeOK
  <2>7. WantOK'
    BY <2>1 DEF WaitInv, WantOK
  <2> QED BY <2>3, <2>6, <2>7 DEF WaitInv
<1> QED BY <1>1, <1>2

(* A waiter that was woken had been handed the lock, and returns with it.  *)
LEMMA HandedSteps ==
  ASSUME WaitInv, WaitTypes, NEW t \in Thread,
         ExWake(t) \/ ExWoken(t) \/ ExDone(t) \/ ExRetry(t)
  PROVE  WaitInv'
<1> USE DEF WaitTypes, Parked, Handed, Unused
<1>1. ASSUME \A u \in Thread : PlaceOK(u)', ~Pending(t), ~Pending(t)',
             \A u \in Thread : u # t =>
               /\ pc'[u] = pc[u] /\ link'[u] = link[u] /\ tdstate'[u] = tdstate[u],
             pc[t] \in {"ex_asleep", "ex_woken", "ex_check"},
             pc'[t] \in {"ex_woken", "ex_check", "idle"},
             UNCHANGED <<mtx_lock, mtx_link, target, ipiq, ipidup>>
      PROVE  WaitInv'
  <2>1. \A u, v \in Thread : Waker(u, v)' <=> Waker(u, v)
    BY <1>1 DEF Waker
  <2>2. \A u \in Thread : Pending(u)' <=> Pending(u)
    BY <1>1 DEF Pending
  <2>3. \A u \in Thread : WakeOK(u)'
    BY <1>1, <2>1, <2>2 DEF WaitInv, WakeOK
  <2>4. WantOK'
    BY <1>1 DEF WaitInv, WantOK
  <2> QED BY <1>1, <2>3, <2>4 DEF WaitInv
<1>2. CASE ExWake(t)
  <2>1. /\ pc[t] = "ex_asleep" /\ pc' = [pc EXCEPT ![t] = "ex_woken"]
        /\ tdstate[t] = "ready" /\ tdstate' = [tdstate EXCEPT ![t] = "run"]
        /\ intr' = [intr EXCEPT ![t] = FALSE] /\ error' = [error EXCEPT ![t] = intr[t]]
        /\ UNCHANGED <<mtx_lock, mtx_link, link, target, wchan, ipiq, ipidup>>
    BY <1>2 DEF ExWake, Goto, tsleep_return, ipiVars, mtxVars
  <2>2. link[t] = "ACQUIRED" /\ ~intr[t] /\ intr[t] \in BOOLEAN
    BY <2>1 DEF WaitInv, PlaceOK, SleepTypeOK
  <2>3. \A u \in Thread : PlaceOK(u)'
    BY <2>1, <2>2 DEF WaitInv, PlaceOK, SleepTypeOK
  <2>4. ~Pending(t) /\ ~Pending(t)'
    BY <2>1 DEF Pending
  <2>5. \A u \in Thread : u # t =>
          /\ pc'[u] = pc[u] /\ link'[u] = link[u] /\ tdstate'[u] = tdstate[u]
    BY <2>1 DEF SleepTypeOK
  <2> QED BY <1>1, <2>1, <2>3, <2>4, <2>5
<1>3. CASE ExWoken(t)
  <2>1. pc[t] = "ex_woken" /\ link[t] = "ACQUIRED"
    BY <1>3 DEF ExWoken, Goto, WaitInv, PlaceOK
  <2>2. /\ pc' = [pc EXCEPT ![t] = "ex_check"]
        /\ UNCHANGED <<mtx_lock, mtx_link, link, target, error, wchan, tdstate, intr, ipiq, ipidup>>
    BY <1>3, <2>1 DEF ExWoken, Goto, mtxVars, sleepVars, ipiVars
  <2>3. \A u \in Thread : PlaceOK(u)'
    BY <2>1, <2>2 DEF WaitInv, PlaceOK
  <2>4. ~Pending(t) /\ ~Pending(t)'
    BY <2>1, <2>2 DEF Pending
  <2> QED BY <1>1, <2>1, <2>2, <2>3, <2>4
<1>4. CASE ExDone(t)
  <2>1. /\ pc[t] = "ex_check" /\ pc' = [pc EXCEPT ![t] = "idle"]
        /\ link' = [link EXCEPT ![t] = "IDLE"] /\ error' = [error EXCEPT ![t] = FALSE]
        /\ UNCHANGED <<mtx_lock, mtx_link, target, wchan, tdstate, intr, ipiq, ipidup>>
    BY <1>4 DEF ExDone, Return, mtxVars, sleepVars, ipiVars
  <2>2. \A u \in Thread : PlaceOK(u)'
    BY <2>1 DEF WaitInv, PlaceOK
  <2>3. ~Pending(t) /\ ~Pending(t)'
    BY <2>1 DEF Pending
  <2> QED BY <1>1, <2>1, <2>2, <2>3
<1>5. CASE ExRetry(t)
  BY <1>5 DEF ExRetry, Goto, WaitInv, PlaceOK
<1> QED BY <1>2, <1>3, <1>4, <1>5

(* The sleep of a shared waiter.                                           *)
LEMMA SharedSteps ==
  ASSUME WaitInv, WaitTypes, NEW t \in Thread, ShSleep(t) \/ ShWake(t)
  PROVE  WaitInv'
<1> USE DEF WaitTypes, Parked, Handed, Unused
<1>1. \E l \in {"sh_asleep", "sh"}, r \in {"asleep", "run"} :
        /\ pc[t] \in {"sh_tsleep", "sh_asleep"} /\ pc' = [pc EXCEPT ![t] = l]
        /\ tdstate' = [tdstate EXCEPT ![t] = r]
        /\ l = "sh" => r = "run"
        /\ ~intr'[t] /\ \A u \in Thread : u # t => intr'[u] = intr[u] /\ wchan'[u] = wchan[u]
        /\ UNCHANGED <<mtx_lock, mtx_link, link, target, error, ipiq, ipidup>>
  <2>1. CASE ShSleep(t)
    <3>1. Flags = {} /\ Mtx # NULL /\ ~intr[t]
      BY ChanAssumption DEF WaitInv, Uninterrupted, Chan, PlaceOK
    <3>2. /\ pc[t] = "sh_tsleep" /\ pc' = [pc EXCEPT ![t] = "sh_asleep"]
          /\ tdstate' = [tdstate EXCEPT ![t] = "asleep"]
          /\ wchan' = [wchan EXCEPT ![t] = Mtx]
          /\ UNCHANGED <<mtx_lock, mtx_link, link, target, error, intr, ipiq, ipidup>>
      BY <2>1, <3>1 DEF ShSleep, Goto, tsleep, ipiVars, mtxVars
    <3> QED BY <3>1, <3>2 DEF SleepTypeOK
  <2>2. CASE ShWake(t)
    <3>1. ~intr[t]
      BY DEF WaitInv, PlaceOK
    <3>2. /\ pc[t] = "sh_asleep" /\ pc' = [pc EXCEPT ![t] = "sh"]
          /\ tdstate' = [tdstate EXCEPT ![t] = "run"]
          /\ intr' = [intr EXCEPT ![t] = FALSE]
          /\ UNCHANGED <<mtx_lock, mtx_link, link, target, error, wchan, ipiq, ipidup>>
      BY <2>2, <3>1, Zenon DEF ShWake, Goto, tsleep_return, ipiVars, mtxVars
    <3> QED BY <3>2 DEF SleepTypeOK
  <2> QED BY <2>1, <2>2
<1>2. \A u \in Thread : PlaceOK(u)'
  BY <1>1 DEF WaitInv, PlaceOK, SleepTypeOK
<1>3. \A u, v \in Thread : Waker(u, v)' <=> Waker(u, v)
  BY <1>1 DEF Waker
<1>4. \A u \in Thread : Pending(u)' <=> Pending(u)
  BY <1>1 DEF Pending, SleepTypeOK
<1>5. \A u \in Thread : WakeOK(u)'
  BY <1>1, <1>3, <1>4 DEF WaitInv, WakeOK
<1>6. WantOK'
  BY <1>1 DEF WaitInv, WantOK
<1> QED BY <1>2, <1>5, <1>6 DEF WaitInv

(* The last release picks a waiter that sleeps, or is about to.            *)
LEMMA ChainSteps ==
  ASSUME WaitInv, WaitTypes, NEW t \in Thread,
         \/ UnChain(t) \/ ChainPick(t) \/ ChainOwner(t) \/ ChainHandOff(t)
         \/ ChainRelease(t)
  PROVE  WaitInv'
<1> USE DEF WaitTypes, Parked, Handed, Unused
<1>1. CASE UnChain(t)
  <2>1. /\ pc[t] = "un" /\ pc' = [pc EXCEPT ![t] = "chain"] /\ mtx_lock'.exlink
        /\ mtx_lock.exw /\ ~mtx_lock.exlink
        /\ UNCHANGED <<mtx_link, link, target, error, wchan, tdstate, intr, ipiq, ipidup>>
    BY <1>1 DEF UnChain, Goto, sleepVars, ipiVars
  <2>2. \A u \in Thread : PlaceOK(u)'
    BY <2>1 DEF WaitInv, PlaceOK
  <2>3. \A u, v \in Thread : Waker(u, v)' <=> Waker(u, v)
    BY <2>1 DEF Waker
  <2>4. \A u \in Thread : Pending(u)' <=> Pending(u)
    BY <2>1 DEF Pending
  <2>5. \A u \in Thread : WakeOK(u)'
    BY <2>1, <2>3, <2>4 DEF WaitInv, WakeOK
  <2>6. WantOK'
    BY <2>1 DEF WaitInv, WantOK
  <2> QED BY <2>2, <2>5, <2>6 DEF WaitInv
<1>2. CASE ChainPick(t)
  <2>1. pc[t] = "chain" /\ mtx_link # << >>
    BY <1>2 DEF ChainPick, Goto, WaitInv, WantOK
  <2>2. PICK next : next = Head(mtx_link)
    OBVIOUS
  <2>3. next \in Thread /\ In(next, mtx_link)
    BY <2>1, <2>2, PopRing
  <2>4. /\ pc' = [pc EXCEPT ![t] = "chain_owner"] /\ mtx_lock' = mtx_lock
        /\ target' = [target EXCEPT ![t] = next]
        /\ link' = [link EXCEPT ![next] = "ACQUIRED"]
        /\ UNCHANGED <<error, wchan, tdstate, intr, ipiq, ipidup>>
    BY <1>2, <2>1, <2>2 DEF ChainPick, Goto, sleepVars, ipiVars
  <2>5. link[next] = "LINKED" /\ pc[next] \in Parked /\ tdstate[next] # "ready" /\ next # t
    BY <2>1, <2>3 DEF Waiting, WaitInv, PlaceOK
  <2>6. \A u \in Thread : PlaceOK(u)'
    BY <2>1, <2>3, <2>4, <2>5 DEF WaitInv, PlaceOK
  <2>7. \A u, v \in Thread : Waker(u, v)' <=> Waker(u, v) \/ (u = t /\ v = next)
    BY <2>1, <2>4 DEF Waker
  <2>8. \A u \in Thread : Pending(u)' <=> Pending(u) \/ u = next
    BY <2>1, <2>3, <2>4, <2>5 DEF Pending
  <2>9. ~Pending(next)
    BY <2>5 DEF Pending
  <2>10. \A u \in Thread : WakeOK(u)'
    <3> SUFFICES ASSUME NEW w \in Thread PROVE WakeOK(w)'
      OBVIOUS
    <3>1. WakeOK(w) /\ ipiq' = ipiq /\ ipidup' = ipidup
      BY <2>4 DEF WaitInv
    <3>2. \A u \in Thread : Waker(u, w)' <=> Waker(u, w) \/ (u = t /\ w = next)
      BY <2>7
    <3>3. Pending(w)' <=> Pending(w) \/ w = next
      BY <2>8
    <3>4. CASE w = next
      BY <2>9, <3>1, <3>2, <3>3, <3>4 DEF WakeOK
    <3>5. CASE w # next
      BY <3>1, <3>2, <3>3, <3>5 DEF WakeOK
    <3> QED BY <3>4, <3>5
  <2>11. \A u \in Thread : u # t => pc[u] \notin InRing
    BY <2>1 DEF InRing
  <2>12. mtx_lock.exlink
    BY <2>1 DEF InRing
  <2>13. WantOK'
    BY <2>3, <2>4, <2>11, <2>12 DEF WantOK, InRing
  <2> QED BY <2>6, <2>10, <2>13 DEF WaitInv
<1>3. CASE ChainHandOff(t)
  <2>1. /\ pc[t] = "chain_clear" /\ pc' = [pc EXCEPT ![t] = "wake_link"]
        /\ mtx_lock'.exw => mtx_link # << >>
        /\ UNCHANGED <<mtx_link, link, target, error, wchan, tdstate, intr, ipiq, ipidup>>
    BY <1>3 DEF ChainHandOff, Goto, sleepVars, ipiVars
  <2>2. \A u \in Thread : PlaceOK(u)'
    BY <2>1 DEF WaitInv, PlaceOK
  <2>3. \A u, v \in Thread : Waker(u, v)' <=> Waker(u, v)
    BY <2>1 DEF Waker
  <2>4. \A u \in Thread : Pending(u)' <=> Pending(u)
    BY <2>1 DEF Pending
  <2>5. \A u \in Thread : WakeOK(u)'
    BY <2>1, <2>3, <2>4 DEF WaitInv, WakeOK
  <2>6. WantOK'
    BY <2>1 DEF WaitInv, WantOK
  <2> QED BY <2>2, <2>5, <2>6 DEF WaitInv
<1>5. CASE ChainOwner(t)
  <2>1. /\ pc[t] = "chain_owner" /\ pc' = [pc EXCEPT ![t] = "chain_clear"]
        /\ UNCHANGED <<mtx_lock, mtx_link, link, target, error, wchan, tdstate, intr, ipiq, ipidup>>
    BY <1>5 DEF ChainOwner, Goto, sleepVars, ipiVars
  <2>2. \A u \in Thread : PlaceOK(u)'
    BY <2>1 DEF WaitInv, PlaceOK
  <2>3. \A u, v \in Thread : Waker(u, v)' <=> Waker(u, v)
    BY <2>1 DEF Waker
  <2>4. \A u \in Thread : Pending(u)' <=> Pending(u)
    BY <2>1 DEF Pending
  <2>5. \A u \in Thread : WakeOK(u)'
    BY <2>1, <2>3, <2>4 DEF WaitInv, WakeOK
  <2>6. WantOK'
    BY <2>1 DEF WaitInv, WantOK
  <2> QED BY <2>2, <2>5, <2>6 DEF WaitInv
<1>4. CASE ChainRelease(t)
  BY <1>4, NullAssumption DEF ChainRelease, Goto, Return, WaitInv, WantOK
<1> QED BY <1>1, <1>2, <1>3, <1>4, <1>5

(* The wakeups, and their arrival.                                         *)
LEMMA WakeSteps ==
  ASSUME WaitInv, WaitTypes, NEW t \in Thread,
         WakeShared(t) \/ WakeLink(t) \/ Ipi(t)
  PROVE  WaitInv'
<1> USE DEF WaitTypes, Parked, Handed, Unused
<1>1. CASE WakeShared(t)
  <2>1. /\ pc[t] = "wake_sh" /\ pc' = [pc EXCEPT ![t] = "idle"]
        /\ wchan' = [wchan EXCEPT ![t] = IF @ = Mtx THEN NULL ELSE @]
        /\ UNCHANGED <<mtx_lock, mtx_link, link, target, error, tdstate, intr>>
    BY <1>1 DEF WakeShared, Return, wakeup, mtxVars
  <2>2. PICK sent : /\ sent = {<<u, Mtx>> : u \in {v \in Thread \ {t} : wchan[v] = Mtx}}
                    /\ ipiq' = ipiq \cup sent /\ ipidup' = ipidup \cup (ipiq \cap sent)
    BY <1>1 DEF WakeShared, wakeup
  <2>3. \A u \in Thread : <<u, u>> \notin sent
    BY <2>2, ChanAssumption
  <2>4. \A u \in Thread : /\ <<u, u>> \in ipiq' <=> <<u, u>> \in ipiq
                          /\ <<u, u>> \in ipidup' <=> <<u, u>> \in ipidup
    <3> HIDE DEF WaitTypes
    <3> QED BY <2>2, <2>3
  <2>5. \A u \in Thread : PlaceOK(u)'
    BY <2>1 DEF WaitInv, PlaceOK, SleepTypeOK
  <2>6. \A u, v \in Thread : Waker(u, v)' <=> Waker(u, v)
    BY <2>1 DEF Waker
  <2>7. \A u \in Thread : Pending(u)' <=> Pending(u)
    BY <2>1 DEF Pending
  <2>8. \A u \in Thread : WakeOK(u)'
    <3> HIDE DEF WaitTypes
    <3> QED BY <2>4, <2>6, <2>7 DEF WaitInv, WakeOK
  <2>9. WantOK'
    BY <2>1 DEF WaitInv, WantOK
  <2> QED BY <2>5, <2>8, <2>9 DEF WaitInv
<1>2. CASE WakeLink(t)
  <2>1. PICK x : x = target[t]
    OBVIOUS
  <2>2. /\ pc[t] = "wake_link" /\ pc' = [pc EXCEPT ![t] = "idle"]
        /\ target' = [target EXCEPT ![t] = NULL]
        /\ wchan' = [wchan EXCEPT ![t] = IF @ = x THEN NULL ELSE @]
        /\ UNCHANGED <<mtx_lock, mtx_link, link, error, tdstate, intr>>
    BY <1>2, <2>1 DEF WakeLink, Return, wakeup, mtxVars
  <2>3. PICK sent : /\ sent = {<<u, x>> : u \in {v \in Thread \ {t} : wchan[v] = x}}
                    /\ ipiq' = ipiq \cup sent /\ ipidup' = ipidup \cup (ipiq \cap sent)
    <3> DEFINE S == {<<u, x>> : u \in {v \in Thread \ {t} : wchan[v] = x}}
    <3>1. wakeup(t, x)
      BY <1>2, <2>1 DEF WakeLink
    <3>2. ipiq' = ipiq \cup S /\ ipidup' = ipidup \cup (ipiq \cap S)
      BY <3>1, Zenon DEF wakeup
    <3> HIDE DEF S
    <3>3. PICK sent : sent = S
      OBVIOUS
    <3> QED BY <3>2, <3>3 DEF S
  <2>4. ASSUME NEW u \in Thread, <<u, u>> \in sent PROVE u = x
    BY <2>3, <2>4
  <2>5. ASSUME x \in Thread
        PROVE  Pending(x) /\ <<x, x>> \notin ipiq /\ \A u \in Thread : Waker(u, x) => u = t
    BY <2>1, <2>2, <2>5 DEF WaitInv, WakeOK, Waker
  <2>6. \A u \in Thread : PlaceOK(u)'
    BY <2>2 DEF WaitInv, PlaceOK, SleepTypeOK
  <2>7. \A u, v \in Thread : Waker(u, v)' <=> Waker(u, v) /\ u # t
    BY <2>2 DEF Waker
  <2>8. \A u \in Thread : Pending(u)' <=> Pending(u)
    BY <2>2 DEF Pending
  <2>9. \A u \in Thread : /\ <<u, u>> \in ipiq' => <<u, u>> \in ipiq \/ u = x
                          /\ <<u, u>> \in ipidup' => <<u, u>> \in ipidup \/ (u = x /\ <<x, x>> \in ipiq)
    <3> HIDE DEF WaitTypes
    <3> QED BY <2>3, <2>4
  <2>10. ipidup \subseteq ipiq
    BY DEF SleepTypeOK
  <2>11. ASSUME NEW u \in Thread PROVE WakeOK(u)'
    <3> HIDE DEF WaitTypes
    <3>0. WakeOK(u)
      BY DEF WaitInv
    <3>1. CASE u = x
      <4>1. \A v \in Thread : ~Waker(v, u)'
        BY <2>5, <2>7, <3>1
      <4>2. Pending(u)' /\ <<u, u>> \notin ipidup'
        BY <2>5, <2>8, <2>9, <2>10, <3>1
      <4> QED BY <4>1, <4>2 DEF WakeOK
    <3>2. CASE u # x
      <4>1. <<u, u>> \in ipiq' => <<u, u>> \in ipiq
        BY <2>9, <3>2
      <4>2. <<u, u>> \in ipidup' => <<u, u>> \in ipidup
        BY <2>9, <3>2
      <4> QED BY <3>0, <2>7, <2>8, <4>1, <4>2 DEF WakeOK
    <3> QED BY <3>1, <3>2
  <2>12. WantOK'
    BY <2>2 DEF WaitInv, WantOK
  <2> QED BY <2>6, <2>11, <2>12 DEF WaitInv
<1>3. CASE Ipi(t)
  <2>1. PICK c \in Chan : wakeup_ipi(t, c)
    BY <1>3 DEF Ipi
  <2>2. /\ <<t, c>> \in ipiq /\ ipidup' \subseteq ipidup /\ ipiq' \subseteq ipiq
        /\ ipidup' \subseteq ipiq' \/ <<t, c>> \in ipidup
        /\ <<t, c>> \notin ipidup => <<t, c>> \notin ipiq'
        /\ UNCHANGED <<mtx_lock, mtx_link, link, pc, target, error, intr>>
    BY <1>3, <2>1 DEF Ipi, wakeup_ipi, mtxVars, SleepTypeOK
  <2>3. /\ \A u \in Thread : u # t => wchan'[u] = wchan[u] /\ tdstate'[u] = tdstate[u]
        /\ wchan'[t] = wchan[t] \/ wchan'[t] = NULL
        /\ tdstate'[t] = tdstate[t]
             \/ (wchan[t] = c /\ tdstate[t] = "asleep" /\ tdstate'[t] = "ready")
    BY <2>1 DEF wakeup_ipi, SleepTypeOK
  <2>4. CASE tdstate'[t] = tdstate[t]
    <3>1. \A u \in Thread : PlaceOK(u)'
      BY <2>2, <2>3, <2>4, ChanAssumption DEF WaitInv, PlaceOK, Chan
    <3>2. \A u, v \in Thread : Waker(u, v)' <=> Waker(u, v)
      BY <2>2 DEF Waker
    <3>3. \A u \in Thread : Pending(u)' <=> Pending(u)
      BY <2>2, <2>3, <2>4 DEF Pending
    <3>4. \A u \in Thread : WakeOK(u)'
      <4> HIDE DEF WaitTypes
      <4> QED BY <2>2, <3>2, <3>3 DEF WaitInv, WakeOK
    <3>5. WantOK'
      BY <2>2 DEF WaitInv, WantOK
    <3> QED BY <3>1, <3>4, <3>5 DEF WaitInv
  <2>5. CASE wchan[t] = c /\ tdstate[t] = "asleep" /\ tdstate'[t] = "ready"
    <3>1. pc[t] \in {"ex_asleep", "sh_asleep"}
      BY <2>5 DEF WaitInv, PlaceOK
    <3>2. CASE pc[t] = "sh_asleep"
      <4>1. \A u \in Thread : PlaceOK(u)'
        BY <2>2, <2>3, <2>5, <3>2, ChanAssumption DEF WaitInv, PlaceOK, Chan
      <4>2. \A u, v \in Thread : Waker(u, v)' <=> Waker(u, v)
        BY <2>2 DEF Waker
      <4>3. \A u \in Thread : Pending(u)' <=> Pending(u)
        BY <2>2, <2>3, <3>2 DEF Pending
      <4>4. \A u \in Thread : WakeOK(u)'
        <5> HIDE DEF WaitTypes
        <5> QED BY <2>2, <4>2, <4>3 DEF WaitInv, WakeOK
      <4>5. WantOK'
        BY <2>2 DEF WaitInv, WantOK
      <4> QED BY <4>1, <4>4, <4>5 DEF WaitInv
    <3>3. CASE pc[t] = "ex_asleep"
      <4>0. c = t
        BY <2>5, <3>3, ChanAssumption DEF WaitInv, PlaceOK
      <4>1. Pending(t) /\ <<t, t>> \notin ipidup /\ <<t, t>> \notin ipiq'
        BY <2>2, <4>0 DEF WaitInv, WakeOK
      <4>2. \A u \in Thread : ~Waker(u, t)
        BY <2>2, <4>0 DEF WaitInv, WakeOK
      <4>3. \A u \in Thread : PlaceOK(u)'
        BY <2>2, <2>3, <2>5, <3>3, <4>1 DEF WaitInv, PlaceOK, Pending
      <4>4. \A u, v \in Thread : Waker(u, v)' <=> Waker(u, v)
        BY <2>2 DEF Waker
      <4>5. \A u \in Thread : u # t => (Pending(u)' <=> Pending(u))
        BY <2>2, <2>3 DEF Pending
      <4>6. ASSUME NEW u \in Thread PROVE WakeOK(u)'
        <5> HIDE DEF WaitTypes
        <5>0. WakeOK(u)
          BY DEF WaitInv
        <5>1. CASE u = t
          BY <4>1, <4>2, <4>4, <5>1 DEF WakeOK
        <5>2. CASE u # t
          <6>1. <<u, u>> \in ipiq' => <<u, u>> \in ipiq
            BY <2>2
          <6>2. <<u, u>> \in ipidup' => <<u, u>> \in ipidup
            BY <2>2
          <6> QED BY <5>0, <4>4, <4>5, <5>2, <6>1, <6>2 DEF WakeOK
        <5> QED BY <5>1, <5>2
      <4>7. WantOK'
        BY <2>2 DEF WaitInv, WantOK
      <4> QED BY <4>3, <4>6, <4>7 DEF WaitInv
    <3> QED BY <3>1, <3>2, <3>3
  <2> QED BY <2>3, <2>4, <2>5
<1> QED BY <1>1, <1>2, <1>3

(* Every action keeps what is known of the waiters.                        *)
LEMMA WaitStep ==
  ASSUME WaitInv, IInv, RingInv, [Next]_vars, \A t \in Thread : ~ExPanic(t)
  PROVE  WaitInv'
<1>0. WaitTypes
  BY WaitTyped
<1>1. ASSUME NEW t \in Thread PROVE pc[t] \notin Unused
  BY DEF WaitInv, PlaceOK
<1>2. /\ Flags = {} /\ "downgrade" \notin Ops /\ "upgrade_try" \notin Ops
      /\ "abort" \notin Ops
  BY DEF WaitInv, Uninterrupted
<1>3. ASSUME NEW t \in Thread, Call(t) PROVE WaitInv'
  BY <1>0, <1>2, <1>3, OutsideSteps, WaitKept DEF Call, Downgrade, CallUpgrade, CallAbort
<1>4. ASSUME NEW t \in Thread, StepEx(t) PROVE WaitInv'
  <2>1. ASSUME EarlyAbort(t) PROVE FALSE
    BY <2>1 DEF EarlyAbort, Goto, WaitInv, PlaceOK, Parked, Handed
  <2>2. ASSUME EarlyRead(t) \/ EarlyClear(t) \/ DeleteLock(t) \/ mtx_delete_link(t)
        PROVE  FALSE
    BY <1>1, <2>2 DEF EarlyRead, EarlyClear, DeleteLock, LockRing, mtx_delete_link, Goto, Return,
       Unused
  <2> QED BY <1>0, <1>4, <2>1, <2>2, OutsideSteps, WaitKept, ParkSteps, HandedSteps DEF StepEx
<1>5. ASSUME NEW t \in Thread, StepSh(t) PROVE WaitInv'
  BY <1>0, <1>5, OutsideSteps, WaitKept, SharedSteps DEF StepSh
<1>6. ASSUME NEW t \in Thread, StepUn(t) PROVE WaitInv'
  <2>1. ASSUME ChainNull(t) PROVE FALSE
    BY <1>1, <2>1 DEF ChainNull, Goto, Unused
  <2> QED BY <1>0, <1>6, <2>1, OutsideSteps, WaitKept, ChainSteps, WakeSteps DEF StepUn
<1>7. ASSUME NEW t \in Thread, StepMode(t) PROVE FALSE
  BY <1>1, <1>7 DEF StepMode, DowngradeFast, DowngradeSlow, _mtx_downgrade, DowngradeNop,
     UpgradeFast, _mtx_upgrade_try, UpgradeNop, AbortLock, LockRing, mtx_abort_ex_link,
     Goto, Return, Unused
<1>8. ASSUME NEW t \in Thread, Ipi(t) PROVE WaitInv'
  BY <1>0, <1>8, WakeSteps
<1>9. ASSUME NEW t \in Thread, Interrupt(t) PROVE FALSE
  BY <1>2, <1>9 DEF Interrupt
<1>10. CASE UNCHANGED vars
  BY <1>10 DEF vars, mtxVars, sleepVars, ipiVars, WaitInv, WantOK, PlaceOK, WakeOK, Waker, Pending
<1> QED BY <1>3, <1>4, <1>5, <1>6, <1>7, <1>8, <1>9, <1>10 DEF Next, Step

-----------------------------------------------------------------------------
(* Counting the locks that the threads hold.                               *)

UnitsOf(h) == {u \in Thread \X (1 .. MaxHold) : u[2] <= h[u[1]]}

(* There are finitely many.                                                *)
LEMMA UnitsFinite ==
  ASSUME NEW h
  PROVE  IsFiniteSet(UnitsOf(h)) /\ Cardinality(UnitsOf(h)) \in Nat
<1>1. IsFiniteSet(1 .. MaxHold)
  BY MaxHoldAssumption, FS_Interval
<1>2. IsFiniteSet(Thread \X (1 .. MaxHold))
  BY <1>1, ThreadAssumption, FS_Product
<1>3. UnitsOf(h) \subseteq Thread \X (1 .. MaxHold)
  BY DEF UnitsOf
<1>4. IsFiniteSet(UnitsOf(h))
  BY <1>2, <1>3, FS_Subset
<1> QED BY <1>4, FS_CardinalityType

(* One more lock of t is one more in all.                                  *)
LEMMA UnitsGain ==
  ASSUME NEW h \in [Thread -> Nat], NEW k \in [Thread -> Nat], NEW t \in Thread,
         h[t] < MaxHold, k[t] = h[t] + 1, \A u \in Thread : u # t => k[u] = h[u]
  PROVE  Cardinality(UnitsOf(k)) = Cardinality(UnitsOf(h)) + 1
<1>1. PICK n \in Nat : n = h[t] + 1
  OBVIOUS
<1>2. PICK e : e = <<t, n>>
  OBVIOUS
<1>3. e \in Thread \X (1 .. MaxHold) /\ e[1] = t /\ e[2] = n
  BY <1>1, <1>2, MaxHoldAssumption
<1>4. e \notin UnitsOf(h)
  BY <1>1, <1>3 DEF UnitsOf
<1>5. ASSUME NEW x \in Thread \X (1 .. MaxHold)
      PROVE  x[2] <= k[x[1]] <=> x[2] <= h[x[1]] \/ x = e
  <2>1. x[1] \in Thread /\ x[2] \in Nat /\ x = <<x[1], x[2]>>
    BY MaxHoldAssumption
  <2>2. CASE x[1] = t
    <3>1. h[t] \in Nat /\ k[t] = n
      BY <1>1
    <3>2. x = e <=> x[2] = n
      BY <1>2, <2>1, <2>2
    <3> QED BY <1>1, <2>1, <2>2, <3>1, <3>2
  <2>3. CASE x[1] # t
    BY <1>3, <2>1, <2>3
  <2> QED BY <2>2, <2>3
<1>6. UnitsOf(k) = UnitsOf(h) \cup {e}
  BY <1>3, <1>5 DEF UnitsOf
<1> QED BY <1>4, <1>6, UnitsFinite, FS_AddElement

(* Without a lock nobody holds one, with a single one only one thread.     *)
LEMMA UnitsFew ==
  ASSUME NEW h \in [Thread -> Nat]
  PROVE  /\ Cardinality(UnitsOf(h)) = 0 => \A u \in Thread : h[u] = 0
         /\ Cardinality(UnitsOf(h)) = 1 =>
              \A t, u \in Thread :
                /\ h[t] > 0 /\ u # t => h[u] = 0
                /\ h[t] <= MaxHold => h[t] <= 1
<1>1. ASSUME NEW u \in Thread, h[u] > 0 PROVE <<u, 1>> \in UnitsOf(h)
  BY <1>1, MaxHoldAssumption DEF UnitsOf
<1>2. ASSUME Cardinality(UnitsOf(h)) = 0, NEW u \in Thread PROVE h[u] = 0
  <2>1. UnitsOf(h) = {}
    BY <1>2, UnitsFinite, FS_EmptySet
  <2> QED BY <1>1, <2>1
<1>3. ASSUME Cardinality(UnitsOf(h)) = 1, NEW t \in Thread, NEW u \in Thread
      PROVE  /\ h[t] > 0 /\ u # t => h[u] = 0
             /\ h[t] <= MaxHold => h[t] <= 1
  <2>1. PICK e : UnitsOf(h) = {e}
    BY <1>3, UnitsFinite, FS_Singleton
  <2>2. ASSUME h[t] > 0, u # t, h[u] > 0 PROVE FALSE
    <3>1. <<t, 1>> = e /\ <<u, 1>> = e
      BY <1>1, <2>1, <2>2
    <3> QED BY <2>2, <3>1
  <2>3. ASSUME h[t] <= MaxHold, h[t] > 1 PROVE FALSE
    <3>1. <<t, 1>> \in UnitsOf(h) /\ <<t, 2>> \in UnitsOf(h)
      BY <2>3, MaxHoldAssumption DEF UnitsOf
    <3>2. <<t, 1>> = <<t, 2>>
      BY <2>1, <3>1
    <3> QED BY <3>2
  <2> QED BY <2>2, <2>3
<1> QED BY <1>2, <1>3

(* All that a thread holds, and the units of it.                           *)
holds == [t \in Thread |-> exheld[t] + shheld[t]]

(* The units of CountExact, before and after a step.                       *)
LEMMA UnitsHeld == Units = UnitsOf(holds) /\ Units' = UnitsOf(holds')
<1>1. Units = UnitsOf(holds)
  <2>1. \A u \in Thread \X (1 .. MaxHold) : holds[u[1]] = exheld[u[1]] + shheld[u[1]]
    BY DEF holds
  <2> QED BY <2>1 DEF Units, UnitsOf
<1>2. Units' = UnitsOf(holds')
  <2>1. \A u \in Thread \X (1 .. MaxHold) : holds'[u[1]] = exheld'[u[1]] + shheld'[u[1]]
    BY DEF holds
  <2> QED BY <2>1 DEF Units, UnitsOf
<1> QED BY <1>1, <1>2

(* The counts of the threads, before and after a step.                     *)
HeldTypes ==
  /\ exheld \in [Thread -> Nat] /\ shheld \in [Thread -> Nat]
  /\ exheld' \in [Thread -> Nat] /\ shheld' \in [Thread -> Nat]
OthersHold(t) ==
  \A u \in Thread : u # t => exheld'[u] = exheld[u] /\ shheld'[u] = shheld[u]

(* t has one more lock, or one less, or another one in its stead.          *)
LEMMA UnitsStep ==
  ASSUME HeldTypes, NEW t \in Thread, OthersHold(t),
         exheld[t] + shheld[t] <= MaxHold, exheld'[t] + shheld'[t] <= MaxHold
  PROVE  /\ Cardinality(Units) \in Nat
         /\ exheld'[t] + shheld'[t] = exheld[t] + shheld[t] + 1
              => Cardinality(Units)' = Cardinality(Units) + 1
         /\ exheld'[t] + shheld'[t] = exheld[t] + shheld[t] - 1
              => Cardinality(Units)' = Cardinality(Units) - 1
         /\ exheld'[t] + shheld'[t] = exheld[t] + shheld[t]
              => Cardinality(Units)' = Cardinality(Units)
<1>1. /\ holds \in [Thread -> Nat] /\ holds' \in [Thread -> Nat]
      /\ holds[t] = exheld[t] + shheld[t] /\ holds'[t] = exheld'[t] + shheld'[t]
      /\ \A u \in Thread : u # t => holds'[u] = holds[u]
  BY DEF holds, HeldTypes, OthersHold
<1>2. PICK h \in [Thread -> Nat] : h = holds
  BY <1>1
<1>3. PICK k \in [Thread -> Nat] : k = holds'
  BY <1>1
<1>4. /\ h[t] = exheld[t] + shheld[t] /\ k[t] = exheld'[t] + shheld'[t]
      /\ \A u \in Thread : u # t => k[u] = h[u]
      /\ h[t] \in Nat /\ k[t] \in Nat
  BY <1>1, <1>2, <1>3
<1>5. Units = UnitsOf(h) /\ Units' = UnitsOf(k)
  BY <1>2, <1>3, UnitsHeld
<1>6. PICK a \in Nat : a = Cardinality(UnitsOf(h))
  BY UnitsFinite
<1>7. PICK b \in Nat : b = Cardinality(UnitsOf(k))
  BY UnitsFinite
<1>8. ASSUME k[t] = h[t] + 1 PROVE b = a + 1
  <2>1. h[t] < MaxHold
    BY <1>4, <1>8, MaxHoldAssumption
  <2>2. Cardinality(UnitsOf(k)) = Cardinality(UnitsOf(h)) + 1
    BY <1>4, <1>8, <2>1, UnitsGain
  <2> QED BY <1>6, <1>7, <2>2
<1>9. ASSUME k[t] = h[t] - 1 PROVE b = a - 1
  <2>1. k[t] < MaxHold /\ h[t] = k[t] + 1 /\ \A u \in Thread : u # t => h[u] = k[u]
    BY <1>4, <1>9, MaxHoldAssumption
  <2>2. Cardinality(UnitsOf(h)) = Cardinality(UnitsOf(k)) + 1
    BY <2>1, UnitsGain
  <2> QED BY <1>6, <1>7, <2>2
<1>10. ASSUME k[t] = h[t] PROVE b = a
  <2>1. k = h
    BY <1>4, <1>10
  <2> QED BY <1>6, <1>7, <2>1
<1>11. Cardinality(Units) = a /\ Cardinality(Units)' = b
  BY <1>5, <1>6, <1>7
<1>12. /\ exheld'[t] + shheld'[t] = k[t] /\ exheld[t] + shheld[t] = h[t]
       /\ exheld[t] + shheld[t] + 1 = h[t] + 1 /\ exheld[t] + shheld[t] - 1 = h[t] - 1
  <2>1. exheld[t] \in Nat /\ shheld[t] \in Nat
    BY DEF HeldTypes
  <2> QED BY <1>4, <2>1
<1> QED BY <1>8, <1>9, <1>10, <1>11, <1>12

(* A lock that passes from one thread to another.                          *)
LEMMA UnitsPass ==
  ASSUME HeldTypes, NEW t \in Thread, NEW next \in Thread, next # t,
         exheld[t] + shheld[t] = 1, exheld'[t] + shheld'[t] = 0,
         exheld[next] + shheld[next] = 0, exheld'[next] + shheld'[next] = 1,
         \A u \in Thread : u # t /\ u # next => exheld'[u] = exheld[u] /\ shheld'[u] = shheld[u]
  PROVE  Cardinality(Units)' = Cardinality(Units)
<1>1. /\ holds \in [Thread -> Nat] /\ holds' \in [Thread -> Nat]
      /\ holds[t] = 1 /\ holds'[t] = 0 /\ holds[next] = 0 /\ holds'[next] = 1
      /\ \A u \in Thread : u # t /\ u # next => holds'[u] = holds[u]
  BY DEF holds, HeldTypes
<1>2. PICK h \in [Thread -> Nat] : h = holds
  BY <1>1
<1>3. PICK k \in [Thread -> Nat] : k = holds'
  BY <1>1
<1>4. PICK m \in [Thread -> Nat] : m = [h EXCEPT ![t] = 0]
  OBVIOUS
<1>5. Cardinality(UnitsOf(h)) = Cardinality(UnitsOf(m)) + 1
  <2>1. m[t] < MaxHold /\ h[t] = m[t] + 1 /\ \A u \in Thread : u # t => h[u] = m[u]
    BY <1>1, <1>2, <1>4, MaxHoldAssumption
  <2> QED BY <2>1, UnitsGain
<1>6. Cardinality(UnitsOf(k)) = Cardinality(UnitsOf(m)) + 1
  <2>1. m[next] < MaxHold /\ k[next] = m[next] + 1
    BY <1>1, <1>2, <1>3, <1>4, MaxHoldAssumption
  <2>2. \A u \in Thread : u # next => k[u] = m[u]
    BY <1>1, <1>2, <1>3, <1>4
  <2> QED BY <2>1, <2>2, UnitsGain
<1>7. Units = UnitsOf(h) /\ Units' = UnitsOf(k)
  BY <1>2, <1>3, UnitsHeld
<1> QED BY <1>5, <1>6, <1>7

(* What the invariant needs of the types.                                  *)
LockTypes ==
  /\ pc \in [Thread -> PCs] /\ link \in [Thread -> LinkStates]
  /\ target \in [Thread -> Thread \cup {NULL}]
  /\ mtx_owner \in Thread \cup {NULL} /\ mtx_link \in Seq(Thread)
  /\ mtx_lock \in [ex : BOOLEAN, shw : BOOLEAN, exw : BOOLEAN,
                   exlink : BOOLEAN, cnt : Nat]
  /\ exheld \in [Thread -> Nat] /\ shheld \in [Thread -> Nat]
  /\ \A t \in Thread : pc[t] \in {"un", "un_ex"} => exheld[t] + shheld[t] > 0
  /\ \A t \in Thread : pc[t] \notin Unused /\ (link[t] = "LINKED" => pc[t] \in Parked)
  /\ \A t \in Thread : link[t] = "ACQUIRED" => pc[t] \in Parked \cup Handed
  /\ \A t \in Thread : pc[t] = "chain_owner" =>
       target[t] \in Thread /\ link[target[t]] = "ACQUIRED" /\ pc[target[t]] \in Parked
  /\ \A t, u \in Thread : pc[t] = "chain_owner" /\ pc[u] = "chain_owner" => t = u

(* It follows from the invariants proved so far.                           *)
LEMMA LockTyped == ASSUME IInv, RingInv, WaitInv PROVE LockTypes
<1>1. ASSUME NEW t \in Thread, pc[t] = "chain_owner"
      PROVE  target[t] \in Thread /\ link[target[t]] = "ACQUIRED" /\ pc[target[t]] \in Parked
  <2>1. target[t] \in Thread
    BY <1>1 DEF WaitInv, WantOK
  <2> QED BY <1>1, <2>1 DEF WaitInv, WakeOK, Waker, Pending
<1>2. \A t, u \in Thread : pc[t] = "chain_owner" /\ pc[u] = "chain_owner" => t = u
  BY DEF RingInv, RingLocked, InRing
<1> QED BY <1>1, <1>2 DEF IInv, TypeOK, HeldInv, WaitInv, PlaceOK, LockTypes, Handed

(* What a count of 0 or 1 says of the threads.                             *)
LEMMA CountFew ==
  ASSUME LockTypes, HoldInv
  PROVE  /\ mtx_lock.cnt = 0 => \A u \in Thread : exheld[u] = 0 /\ shheld[u] = 0
         /\ mtx_lock.cnt = 1 =>
              \A t, u \in Thread : exheld[t] + shheld[t] > 0 =>
                /\ exheld[t] + shheld[t] = 1
                /\ u # t => exheld[u] = 0 /\ shheld[u] = 0
<1>1. /\ holds \in [Thread -> Nat]
      /\ \A u \in Thread : holds[u] = exheld[u] + shheld[u] /\ holds[u] <= MaxHold
  BY DEF holds, LockTypes, HoldInv, LockedOK
<1>2. PICK h \in [Thread -> Nat] : h = holds
  BY <1>1
<1>3. mtx_lock.cnt = Cardinality(UnitsOf(h))
  BY <1>2, UnitsHeld DEF HoldInv, CountExact
<1>4. \A u \in Thread : exheld[u] \in Nat /\ shheld[u] \in Nat
  BY DEF LockTypes
<1>5. ASSUME mtx_lock.cnt = 0, NEW u \in Thread PROVE exheld[u] = 0 /\ shheld[u] = 0
  <2>1. h[u] = 0
    BY <1>3, <1>5, UnitsFew
  <2> QED BY <1>1, <1>2, <1>4, <2>1
<1>6. ASSUME mtx_lock.cnt = 1, NEW t \in Thread, NEW u \in Thread, exheld[t] + shheld[t] > 0
      PROVE  /\ exheld[t] + shheld[t] = 1
             /\ u # t => exheld[u] = 0 /\ shheld[u] = 0
  <2>1. h[t] > 0 /\ h[t] <= MaxHold /\ h[t] = exheld[t] + shheld[t] /\ h[u] = exheld[u] + shheld[u]
    BY <1>1, <1>2, <1>6
  <2>2. h[t] <= 1 /\ (u # t => h[u] = 0)
    BY <1>3, <1>6, <2>1, UnitsFew
  <2> QED BY <1>4, <2>1, <2>2
<1> QED BY <1>5, <1>6

(* An exclusive lock that its owner took once is the only one.             *)
LEMMA CountOne ==
  ASSUME LockTypes, HoldInv, NEW t \in Thread, exheld[t] = 1
  PROVE  mtx_lock.cnt = 1
<1>1. \A u \in Thread : u # t => exheld[u] = 0 /\ shheld[u] = 0
  BY DEF HoldInv, Exclusion
<1>2. shheld[t] = 0
  BY DEF HoldInv, LockedOK
<1>3. PICK h : h = holds
  OBVIOUS
<1>4. h[t] = 1 /\ \A u \in Thread : u # t => h[u] = 0
  BY <1>1, <1>2, <1>3 DEF holds
<1>5. UnitsOf(h) = {<<t, 1>>}
  <2>1. ASSUME NEW x \in Thread \X (1 .. MaxHold) PROVE x[2] <= h[x[1]] <=> x = <<t, 1>>
    <3>1. x[1] \in Thread /\ x[2] \in 1 .. MaxHold /\ x = <<x[1], x[2]>>
      OBVIOUS
    <3>2. CASE x[1] = t
      <4>1. x = <<t, 1>> <=> x[2] = 1
        BY <3>1, <3>2
      <4> QED BY <1>4, <3>1, <3>2, <4>1
    <3>3. CASE x[1] # t
      <4>1. h[x[1]] = 0 /\ x # <<t, 1>>
        BY <1>4, <3>1, <3>3
      <4> QED BY <3>1, <4>1
    <3> QED BY <3>2, <3>3
  <2>2. <<t, 1>> \in Thread \X (1 .. MaxHold)
    BY MaxHoldAssumption
  <2> QED BY <2>1, <2>2 DEF UnitsOf
<1>6. Cardinality(UnitsOf(h)) = 1
  BY <1>5, FS_Singleton
<1> QED BY <1>3, <1>6, UnitsHeld DEF HoldInv, CountExact

(* Only t moves, and no other link is queued or picked.                    *)
OneMoves(t) ==
  \A u \in Thread : u # t =>
    /\ pc'[u] = pc[u] /\ target'[u] = target[u]
    /\ link'[u] \in {"LINKED", "ACQUIRED"} => link'[u] = link[u]

(* The releaser that has picked a link and not recorded its owner yet.     *)
LEMMA OwnerFacts ==
  ASSUME LockTypes, HoldInv, NEW t \in Thread
  PROVE  /\ pc[t] \notin Parked => ~Unrecorded(t)
         /\ pc[t] = "chain_owner" => \E v \in Thread : exheld[v] > 0 /\ pc[v] \in Parked
<1>1. pc[t] \notin Parked => ~Unrecorded(t)
  BY DEF LockTypes, Unrecorded
<1>2. ASSUME pc[t] = "chain_owner"
      PROVE  \E v \in Thread : exheld[v] > 0 /\ pc[v] \in Parked
  <2>1. target[t] \in Thread /\ link[target[t]] = "ACQUIRED" /\ pc[target[t]] \in Parked
    BY <1>2 DEF LockTypes
  <2> QED BY <2>1 DEF HoldInv, LockedOK
<1> QED BY <1>1, <1>2

(* There is none while nobody but a thread outside the ring holds a lock.  *)
LEMMA NoHandOver ==
  ASSUME LockTypes, HoldInv, NEW t \in Thread, pc[t] \notin Parked,
         \A u \in Thread : u # t => exheld[u] = 0
  PROVE  \A u \in Thread : pc[u] # "chain_owner"
<1> SUFFICES ASSUME NEW u \in Thread, pc[u] = "chain_owner" PROVE FALSE
  OBVIOUS
<1>1. PICK v \in Thread : exheld[v] > 0 /\ pc[v] \in Parked
  BY OwnerFacts
<1> QED BY <1>1

(* It is still there after a step of another thread.                       *)
LEMMA UnrecordedKept ==
  ASSUME NEW t \in Thread, OneMoves(t), pc[t] # "chain_owner", NEW v \in Thread, Unrecorded(v)
  PROVE  Unrecorded(v)'
BY DEF OneMoves, Unrecorded

(* A step of t that takes and gives no lock.                               *)
LEMMA HoldKept ==
  ASSUME LockTypes, HoldInv, NEW t \in Thread, OneMoves(t), UNCHANGED <<exheld, shheld>>,
         mtx_lock'.cnt = mtx_lock.cnt, mtx_lock'.ex = mtx_lock.ex,
         LockedOK(t)', \A u \in Thread : OwnedOK(u)'
  PROVE  HoldInv'
<1>1. \A u \in Thread : LockedOK(u)'
  BY DEF HoldInv, LockedOK, OneMoves
<1>2. Exclusion'
  BY DEF HoldInv, Exclusion
<1>3. Units' = Units
  BY DEF Units
<1>4. CountExact'
  BY <1>3 DEF HoldInv, CountExact
<1> QED BY <1>1, <1>2, <1>4 DEF HoldInv

(* ... and leaves the owner alone.                                         *)
LEMMA OwnerKept ==
  ASSUME LockTypes, HoldInv, NEW t \in Thread, OneMoves(t), UNCHANGED <<exheld, shheld, mtx_owner>>,
         mtx_lock'.cnt = mtx_lock.cnt, mtx_lock'.ex = mtx_lock.ex,
         pc[t] # "chain_owner", LockedOK(t)', OwnedOK(t)'
  PROVE  HoldInv'
<1>1. \A u \in Thread : OwnedOK(u)'
  BY UnrecordedKept DEF HoldInv, OwnedOK, OneMoves
<1> QED BY <1>1, HoldKept

(* A step in which t takes or gives a lock, or changes its kind.           *)
LEMMA HoldChanged ==
  ASSUME LockTypes, HoldInv, HeldTypes, NEW t \in Thread, OneMoves(t), OthersHold(t),
         NEW d \in {-1, 0, 1},
         exheld'[t] + shheld'[t] = exheld[t] + shheld[t] + d,
         mtx_lock'.cnt = mtx_lock.cnt + d,
         LockedOK(t)', \A u \in Thread : OwnedOK(u)', Exclusion',
         mtx_lock'.ex <=> \E u \in Thread : exheld'[u] > 0
  PROVE  HoldInv'
<1>1. \A u \in Thread : LockedOK(u)'
  BY DEF HoldInv, LockedOK, OneMoves, OthersHold
<1>2. mtx_lock'.cnt = Cardinality(Units)'
  <2>1. exheld[t] + shheld[t] <= MaxHold /\ exheld'[t] + shheld'[t] <= MaxHold
    BY DEF HoldInv, LockedOK
  <2>2. mtx_lock.cnt = Cardinality(Units) /\ exheld[t] \in Nat /\ shheld[t] \in Nat
    BY DEF HoldInv, CountExact, LockTypes
  <2>3. /\ Cardinality(Units) \in Nat
        /\ exheld'[t] + shheld'[t] = exheld[t] + shheld[t] + 1
             => Cardinality(Units)' = Cardinality(Units) + 1
        /\ exheld'[t] + shheld'[t] = exheld[t] + shheld[t] - 1
             => Cardinality(Units)' = Cardinality(Units) - 1
        /\ exheld'[t] + shheld'[t] = exheld[t] + shheld[t]
             => Cardinality(Units)' = Cardinality(Units)
    BY <2>1, UnitsStep
  <2>4. CASE d = -1
    BY <2>2, <2>3, <2>4
  <2>5. CASE d = 0
    BY <2>2, <2>3, <2>5
  <2>6. CASE d = 1
    BY <2>2, <2>3, <2>6
  <2> QED BY <2>4, <2>5, <2>6
<1>3. CountExact'
  BY <1>2 DEF CountExact
<1> QED BY <1>1, <1>3 DEF HoldInv

(* Calls, and the steps of a lock operation that gets no lock.             *)
LEMMA HoldQuiet ==
  ASSUME LockTypes, HoldInv, WaitInv, NEW t \in Thread,
         \/ \E o \in Ops : CallEx(t, o) \/ CallSh(t, o)
         \/ CallUnlock(t) \/ ExTryFail(t) \/ ExWant(t) \/ ExLink(t) \/ ExSleep(t) \/ ExWake(t)
         \/ ExWoken(t) \/ ExDone(t) \/ ExRetry(t) \/ ShTryFail(t) \/ ShInterlock(t) \/ ShWant(t)
         \/ ShRetry(t) \/ ShSleep(t) \/ ShWake(t) \/ ChainHandOff(t) \/ WakeShared(t)
         \/ WakeLink(t)
  PROVE  HoldInv'
<1> USE DEF LockTypes, Unused
<1>0. LockedOK(t) /\ OwnedOK(t) /\ PlaceOK(t)
  BY DEF HoldInv, WaitInv
<1>1. ASSUME NEW o \in Ops, CallEx(t, o) PROVE HoldInv'
  <2>1. /\ pc[t] = "idle" /\ pc' = [pc EXCEPT ![t] = "ex"]
        /\ link' = [link EXCEPT ![t] = "IDLE"] /\ shheld[t] = 0 /\ exheld[t] < MaxHold
        /\ UNCHANGED <<mtx_lock, mtx_owner, exheld, shheld, target>>
    BY <1>1 DEF CallEx, mtxVars, heldVars
  <2>2. OneMoves(t)
    BY <2>1 DEF OneMoves
  <2>3. LockedOK(t)' /\ OwnedOK(t)'
    BY <1>0, <2>1, <2>2, UnrecordedKept DEF LockedOK, OwnedOK
  <2> QED BY <2>1, <2>2, <2>3, OwnerKept
<1>2. ASSUME NEW o \in Ops, CallSh(t, o) PROVE HoldInv'
  <2>1. /\ pc[t] = "idle" /\ pc' = [pc EXCEPT ![t] = "sh"]
        /\ exheld[t] = 0 /\ shheld[t] < MaxHold
        /\ UNCHANGED <<mtx_lock, mtx_owner, exheld, shheld, link, target>>
    BY <1>2 DEF CallSh, mtxVars, heldVars
  <2>2. OneMoves(t)
    BY <2>1 DEF OneMoves
  <2>3. LockedOK(t)' /\ OwnedOK(t)'
    BY <1>0, <2>1, <2>2, UnrecordedKept DEF LockedOK, OwnedOK
  <2> QED BY <2>1, <2>2, <2>3, OwnerKept
<1>3. ASSUME NEW l \in {"un", "idle", "ex_tsleep", "ex_asleep", "ex_woken", "ex_check",
                        "sh", "sh_want", "sh_tsleep", "sh_asleep", "wake_link"},
             pc' = [pc EXCEPT ![t] = l],
             l \in {"sh", "sh_want", "sh_tsleep", "sh_asleep"}
               => pc[t] \in {"sh", "sh_want", "sh_tsleep", "sh_asleep"},
             pc[t] \notin {"ex_owner", "un_ex", "chain", "un", "chain_owner"},
             link'[t] = "LINKED" => link[t] = "LINKED" \/ pc[t] = "ex_link",
             link'[t] = "ACQUIRED" => link[t] = "ACQUIRED", OneMoves(t),
             UNCHANGED <<mtx_owner, exheld, shheld>>,
             mtx_lock'.cnt = mtx_lock.cnt, mtx_lock'.ex = mtx_lock.ex
      PROVE  HoldInv'
  <2>1. pc'[t] = l
    BY <1>3
  <2>2. LockedOK(t)'
    BY <1>0, <1>3, <2>1 DEF LockedOK
  <2>3. OwnedOK(t)'
    BY <1>0, <1>3, <2>1, UnrecordedKept DEF OwnedOK
  <2> QED BY <1>3, <2>2, <2>3, OwnerKept
<1>4. CASE CallUnlock(t) \/ ExTryFail(t) \/ ShTryFail(t)
  BY <1>3, <1>4 DEF CallUnlock, ExTryFail, ShTryFail, Goto, Return, OneMoves, mtxVars, heldVars
<1>5. CASE ExWant(t)
  <2>1. /\ pc[t] = "ex" /\ pc' = [pc EXCEPT ![t] = "ex_link"] /\ ~(mtx_lock.ex /\ mtx_owner = t)
        /\ mtx_lock'.cnt = mtx_lock.cnt /\ mtx_lock'.ex = mtx_lock.ex
        /\ UNCHANGED <<mtx_owner, exheld, shheld, link, target>>
    BY <1>5 DEF ExWant, Held, Goto, heldVars
  <2>2. exheld[t] = 0 /\ shheld[t] = 0
    <3>1. ~Unrecorded(t) /\ exheld[t] \in Nat
      BY <2>1, OwnerFacts DEF Parked
    <3>2. exheld[t] > 0 => mtx_lock.ex
      BY DEF HoldInv, CountExact
    <3> QED BY <1>0, <2>1, <3>1, <3>2 DEF LockedOK, OwnedOK
  <2>3. OneMoves(t)
    BY <2>1 DEF OneMoves
  <2>4. LockedOK(t)' /\ OwnedOK(t)'
    BY <1>0, <2>1, <2>2, MaxHoldAssumption DEF LockedOK, OwnedOK
  <2> QED BY <2>1, <2>3, <2>4, OwnerKept
<1>6. CASE ExLink(t)
  <2>1. /\ pc[t] = "ex_link" /\ pc' = [pc EXCEPT ![t] = "ex_tsleep"]
        /\ link' = [link EXCEPT ![t] = "LINKED"]
        /\ mtx_lock'.cnt = mtx_lock.cnt /\ mtx_lock'.ex = mtx_lock.ex
        /\ UNCHANGED <<mtx_owner, exheld, shheld, target>>
    BY <1>6 DEF ExLink, Goto, heldVars
  <2>2. OneMoves(t)
    BY <2>1 DEF OneMoves
  <2> QED BY <1>3, <2>1, <2>2
<1>7. CASE ExSleep(t) \/ ExWake(t)
  BY <1>3, <1>7 DEF ExSleep, ExWake, Goto, OneMoves, mtxVars, heldVars
<1>8. CASE ExWoken(t)
  <2>1. link[t] # "LINKED"
    BY <1>0, <1>8 DEF ExWoken, Goto, PlaceOK, Handed
  <2> QED BY <1>3, <1>8, <2>1 DEF ExWoken, Goto, OneMoves, mtxVars, heldVars
<1>9. CASE ExDone(t)
  BY <1>3, <1>9 DEF ExDone, Return, OneMoves, mtxVars, heldVars
<1>10. CASE ExRetry(t)
  BY <1>0, <1>10 DEF ExRetry, Goto, PlaceOK, Handed
<1>11. CASE ShInterlock(t) \/ ShRetry(t) \/ ShSleep(t)
  BY <1>3, <1>11 DEF ShInterlock, ShRetry, ShSleep, Goto, OneMoves, mtxVars, heldVars
<1>12. CASE ShWant(t)
  <2>1. mtx_lock'.cnt = mtx_lock.cnt /\ mtx_lock'.ex = mtx_lock.ex
    BY <1>12 DEF ShWant
  <2> QED BY <1>3, <1>12, <2>1 DEF ShWant, Goto, OneMoves, heldVars
<1>13. CASE ShWake(t)
  <2>1. /\ pc[t] = "sh_asleep" /\ pc' = [pc EXCEPT ![t] = "sh"]
        /\ UNCHANGED <<mtx_lock, mtx_owner, exheld, shheld, link, target>>
    BY <1>0, <1>13, Zenon DEF ShWake, Goto, PlaceOK, mtxVars, heldVars
  <2> QED BY <1>3, <2>1 DEF OneMoves
<1>14. CASE ChainHandOff(t)
  <2>1. mtx_lock'.cnt = mtx_lock.cnt /\ mtx_lock'.ex = mtx_lock.ex
    BY <1>14 DEF ChainHandOff
  <2> QED BY <1>3, <1>14, <2>1 DEF ChainHandOff, Goto, OneMoves, heldVars
<1>15. CASE WakeShared(t) \/ WakeLink(t)
  BY <1>3, <1>15 DEF WakeShared, WakeLink, Return, OneMoves, mtxVars, heldVars
<1> QED BY <1>1, <1>2, <1>4, <1>5, <1>6, <1>7, <1>8, <1>9, <1>10, <1>11, <1>12, <1>13,
     <1>14, <1>15

(* A lock is taken, and its owner recorded.                                *)
LEMMA HoldTaken ==
  ASSUME LockTypes, HoldInv, HeldTypes, NEW t \in Thread,
         ExFree(t) \/ SetOwner(t) \/ ExRecurse(t) \/ ShFree(t)
  PROVE  HoldInv'
<1> USE DEF LockTypes
<1>0. LockedOK(t) /\ OwnedOK(t) /\ \A u \in Thread : OwnedOK(u)
  BY DEF HoldInv
<1>1. CASE ExFree(t)
  <2>1. /\ pc[t] = "ex" /\ pc' = [pc EXCEPT ![t] = "ex_owner"]
        /\ exheld' = [exheld EXCEPT ![t] = @ + 1]
        /\ UNCHANGED <<mtx_owner, shheld, link, target>>
    BY <1>1 DEF ExFree, Goto, Gain
  <2>2. mtx_lock.cnt = 0 /\ mtx_lock'.cnt = mtx_lock.cnt + 1 /\ mtx_lock'.ex
    BY <1>1 DEF ExFree, Unlocked
  <2>3. \A u \in Thread : exheld[u] = 0 /\ shheld[u] = 0
    BY <2>2, CountFew
  <2>4. exheld'[t] = 1 /\ \A u \in Thread : u # t => exheld'[u] = 0
    BY <2>1, <2>3
  <2>5. OneMoves(t) /\ OthersHold(t)
    BY <2>1 DEF OneMoves, OthersHold
  <2>6. link[t] \notin {"LINKED", "ACQUIRED"}
    BY <2>1 DEF Parked, Handed
  <2>7. LockedOK(t)'
    BY <2>1, <2>3, <2>4, <2>6, MaxHoldAssumption DEF LockedOK
  <2>8. mtx_owner \notin Thread
    BY <1>0, <2>3, OwnerFacts DEF OwnedOK
  <2>9. \A u \in Thread : OwnedOK(u)'
    BY <2>1, <2>4, <2>8 DEF OwnedOK
  <2>10. Exclusion'
    BY <2>1, <2>3, <2>4 DEF Exclusion
  <2>11. exheld'[t] + shheld'[t] = exheld[t] + shheld[t] + 1
    BY <2>1, <2>3, <2>4
  <2>12. mtx_lock'.ex <=> \E u \in Thread : exheld'[u] > 0
    BY <2>2, <2>4
  <2> QED BY <2>2, <2>5, <2>7, <2>9, <2>10, <2>11, <2>12, HoldChanged
<1>2. CASE SetOwner(t)
  <2>1. /\ pc[t] = "ex_owner" /\ pc' = [pc EXCEPT ![t] = "idle"] /\ mtx_owner' = t
        /\ UNCHANGED <<mtx_lock, exheld, shheld, link, target>>
    BY <1>2 DEF SetOwner, Return, heldVars
  <2>2. exheld[t] = 1 /\ \A u \in Thread : u # t => exheld[u] = 0
    BY <1>0, <2>1 DEF LockedOK, HoldInv, Exclusion
  <2>3. OneMoves(t)
    BY <2>1 DEF OneMoves
  <2>4. LockedOK(t)'
    BY <1>0, <2>1 DEF LockedOK
  <2>5. \A u \in Thread : OwnedOK(u)'
    BY <2>1, <2>2 DEF OwnedOK
  <2> QED BY <2>1, <2>3, <2>4, <2>5, HoldKept
<1>3. CASE ExRecurse(t)
  <2>1. /\ pc[t] = "ex" /\ pc' = [pc EXCEPT ![t] = "idle"] /\ mtx_owner = t
        /\ exheld' = [exheld EXCEPT ![t] = @ + 1]
        /\ UNCHANGED <<mtx_owner, shheld, link, target>>
    BY <1>3 DEF ExRecurse, Return, Gain
  <2>2. mtx_lock.ex /\ mtx_lock'.cnt = mtx_lock.cnt + 1 /\ mtx_lock'.ex
    BY <1>3 DEF ExRecurse
  <2>3. exheld[t] > 0 /\ shheld[t] = 0 /\ exheld[t] < MaxHold
    BY <1>0, <2>1 DEF LockedOK, OwnedOK
  <2>4. exheld'[t] = exheld[t] + 1 /\ \A u \in Thread : u # t => exheld'[u] = exheld[u]
    BY <2>1
  <2>5. OneMoves(t) /\ OthersHold(t)
    BY <2>1 DEF OneMoves, OthersHold
  <2>6. link[t] \notin {"LINKED", "ACQUIRED"}
    BY <2>1 DEF Parked, Handed
  <2>7. LockedOK(t)'
    BY <2>1, <2>3, <2>4, <2>6, MaxHoldAssumption DEF LockedOK
  <2>8. \A u \in Thread : u # t => exheld[u] = 0 /\ shheld[u] = 0
    BY <2>3 DEF HoldInv, Exclusion
  <2>9. \A u \in Thread : OwnedOK(u)'
    BY <2>1, <2>3, <2>4, <2>8 DEF OwnedOK
  <2>10. Exclusion'
    BY <2>1, <2>4, <2>8 DEF Exclusion
  <2>11. exheld'[t] + shheld'[t] = exheld[t] + shheld[t] + 1
    BY <2>1, <2>3, <2>4
  <2>12. mtx_lock'.ex <=> \E u \in Thread : exheld'[u] > 0
    BY <2>2, <2>3, <2>4
  <2> QED BY <2>2, <2>5, <2>7, <2>9, <2>10, <2>11, <2>12, HoldChanged
<1>4. CASE ShFree(t)
  <2>1. /\ pc[t] = "sh" /\ pc' = [pc EXCEPT ![t] = "idle"]
        /\ shheld' = [shheld EXCEPT ![t] = @ + 1]
        /\ UNCHANGED <<mtx_owner, exheld, link, target>>
    BY <1>4 DEF ShFree, Return, Gain
  <2>2. ~mtx_lock.ex /\ mtx_lock'.cnt = mtx_lock.cnt + 1 /\ mtx_lock'.ex = mtx_lock.ex
    BY <1>4 DEF ShFree
  <2>3. \A u \in Thread : exheld[u] = 0
    BY <2>2 DEF HoldInv, CountExact
  <2>4. shheld[t] < MaxHold /\ shheld'[t] = shheld[t] + 1
    BY <1>0, <2>1 DEF LockedOK
  <2>5. OneMoves(t) /\ OthersHold(t)
    BY <2>1 DEF OneMoves, OthersHold
  <2>6. link[t] \notin {"LINKED", "ACQUIRED"}
    BY <2>1 DEF Parked, Handed
  <2>7. LockedOK(t)'
    BY <2>1, <2>3, <2>4, <2>6, MaxHoldAssumption DEF LockedOK
  <2>8. \A u \in Thread : OwnedOK(u)'
    BY <1>0, <2>1, <2>3 DEF OwnedOK
  <2>9. Exclusion'
    BY <2>1, <2>3 DEF Exclusion
  <2>10. exheld'[t] + shheld'[t] = exheld[t] + shheld[t] + 1
    BY <2>1, <2>3, <2>4
  <2>11. mtx_lock'.ex <=> \E u \in Thread : exheld'[u] > 0
    BY <2>1, <2>2, <2>3
  <2> QED BY <2>2, <2>5, <2>7, <2>8, <2>9, <2>10, <2>11, HoldChanged
<1> QED BY <1>1, <1>2, <1>3, <1>4

(* A lock is given back, but not the last one or not to a waiter.          *)
LEMMA HoldGiven ==
  ASSUME LockTypes, HoldInv, HeldTypes, NEW t \in Thread,
         UnShared(t) \/ UnOwner(t) \/ UnExclusive(t) \/ UnCount(t)
  PROVE  HoldInv'
<1> USE DEF LockTypes
<1>0. LockedOK(t) /\ OwnedOK(t) /\ \A u \in Thread : OwnedOK(u)
  BY DEF HoldInv
<1>1. CASE UnShared(t)
  <2>1. /\ pc[t] = "un" /\ pc' = [pc EXCEPT ![t] = "idle"] /\ Drop(t)
        /\ UNCHANGED <<mtx_owner, link, target>>
    BY <1>1 DEF UnShared, Return
  <2>2. ~mtx_lock.ex /\ mtx_lock.cnt = 1 /\ mtx_lock'.cnt = mtx_lock.cnt - 1 /\ ~mtx_lock'.ex
    BY <1>1 DEF UnShared, Released, Unlocked
  <2>3. \A u \in Thread : exheld[u] = 0
    BY <2>2 DEF HoldInv, CountExact
  <2>4. shheld[t] > 0 /\ exheld' = exheld /\ shheld' = [shheld EXCEPT ![t] = @ - 1]
    BY <2>1, <2>3 DEF Drop, Lose
  <2>5. OneMoves(t) /\ OthersHold(t)
    BY <2>1, <2>4 DEF OneMoves, OthersHold
  <2>6. link[t] \notin {"LINKED", "ACQUIRED"}
    BY <2>1 DEF Parked, Handed
  <2>7. LockedOK(t)'
    BY <1>0, <2>1, <2>3, <2>4, <2>6, MaxHoldAssumption DEF LockedOK
  <2>8. \A u \in Thread : OwnedOK(u)'
    BY <1>0, <2>1, <2>3, <2>4 DEF OwnedOK
  <2>9. Exclusion'
    BY <2>3, <2>4 DEF Exclusion
  <2>10. exheld'[t] + shheld'[t] = exheld[t] + shheld[t] + -1
    BY <2>3, <2>4
  <2>11. mtx_lock'.ex <=> \E u \in Thread : exheld'[u] > 0
    BY <2>2, <2>3, <2>4
  <2>12. mtx_lock'.cnt = mtx_lock.cnt + -1
    BY <2>2
  <2> QED BY <2>5, <2>7, <2>8, <2>9, <2>10, <2>11, <2>12, HoldChanged
<1>2. CASE UnOwner(t)
  <2>1. /\ pc[t] = "un" /\ pc' = [pc EXCEPT ![t] = "un_ex"] /\ mtx_owner' = NULL
        /\ mtx_lock.ex /\ mtx_lock.cnt = 1
        /\ UNCHANGED <<mtx_lock, exheld, shheld, link, target>>
    BY <1>2 DEF UnOwner, Goto, heldVars
  <2>2. exheld[t] + shheld[t] = 1 /\ \A u \in Thread : u # t => exheld[u] = 0
    BY <2>1, CountFew
  <2>3. exheld[t] = 1 /\ shheld[t] = 0
    <3>1. PICK u \in Thread : exheld[u] > 0
      BY <2>1 DEF HoldInv, CountExact
    <3>2. u = t
      BY <2>2, <3>1
    <3>3. exheld[t] > 0 /\ exheld[t] \in Nat /\ shheld[t] \in Nat
      BY <3>1, <3>2
    <3> QED BY <2>2, <3>3
  <2>4. OneMoves(t) /\ link[t] \notin {"LINKED", "ACQUIRED"}
    BY <2>1 DEF OneMoves, Parked, Handed
  <2>5. LockedOK(t)'
    BY <1>0, <2>1, <2>3, <2>4 DEF LockedOK
  <2>6. \A u \in Thread : OwnedOK(u)'
    BY <2>1, <2>2, <2>3, NullAssumption DEF OwnedOK
  <2> QED BY <2>1, <2>4, <2>5, <2>6, HoldKept
<1>3. CASE UnExclusive(t)
  <2>0. pc[t] = "un_ex" /\ exheld[t] = 1 /\ shheld[t] = 0 /\ mtx_owner # t
    BY <1>0, <1>3, Zenon DEF UnExclusive, Goto, Return, LockedOK, OwnedOK
  <2>1. CASE mtx_lock' = mtx_lock /\ heldVars' = heldVars
    <3>1. pc' = [pc EXCEPT ![t] = "un"] \/ \E l \in {"wake_sh", "idle"} : pc' = [pc EXCEPT ![t] = l] /\ Drop(t)
      BY <1>3, Zenon DEF UnExclusive, Goto, Return
    <3>2. ~Drop(t)
      BY <2>0, <2>1 DEF Drop, Lose, heldVars
    <3>3. /\ pc' = [pc EXCEPT ![t] = "un"]
          /\ UNCHANGED <<mtx_owner, exheld, shheld, link, target>>
      BY <1>3, <2>1, <3>1, <3>2 DEF UnExclusive, heldVars
    <3>4. OneMoves(t)
      BY <3>3 DEF OneMoves
    <3>5. LockedOK(t)' /\ OwnedOK(t)'
      BY <1>0, <2>0, <3>3 DEF LockedOK, OwnedOK, Parked, Handed
    <3> QED BY <2>0, <2>1, <3>3, <3>4, <3>5, OwnerKept
  <2>2. CASE mtx_lock' = Released /\ mtx_lock.cnt = 1 /\ Drop(t)
    <3>1. /\ \E l \in {"wake_sh", "idle", "un"} : pc' = [pc EXCEPT ![t] = l]
          /\ UNCHANGED <<mtx_owner, link, target>>
      BY <1>3, Zenon DEF UnExclusive, Goto, Return
    <3>2. exheld' = [exheld EXCEPT ![t] = @ - 1] /\ shheld' = shheld
      BY <2>0, <2>2 DEF Drop, Lose
    <3>3. \A u \in Thread : u # t => exheld[u] = 0 /\ shheld[u] = 0
      BY <2>0, <2>2, CountFew
    <3>4. \A u \in Thread : exheld'[u] = 0
      BY <2>0, <3>2, <3>3
    <3>5. OneMoves(t) /\ OthersHold(t) /\ link[t] \notin {"LINKED", "ACQUIRED"}
      BY <2>0, <3>1, <3>2 DEF OneMoves, OthersHold, Parked, Handed
    <3>6. LockedOK(t)'
      BY <2>0, <3>1, <3>2, <3>4, <3>5, MaxHoldAssumption DEF LockedOK
    <3>7. mtx_owner \notin Thread
      <4>1. \A u \in Thread : pc[u] # "chain_owner"
        <5>1. pc[t] \notin Parked
          BY <2>0 DEF Parked
        <5> QED BY <3>3, <5>1, NoHandOver
      <4> QED BY <1>0, <2>0, <3>3, <4>1 DEF OwnedOK
    <3>8. \A u \in Thread : OwnedOK(u)'
      BY <3>1, <3>4, <3>7 DEF OwnedOK
    <3>9. Exclusion'
      BY <3>4 DEF Exclusion
    <3>10. exheld'[t] + shheld'[t] = exheld[t] + shheld[t] + -1
      BY <2>0, <3>2, <3>4
    <3>11. mtx_lock'.cnt = mtx_lock.cnt + -1 /\ ~mtx_lock'.ex
      BY <2>2 DEF Released, Unlocked
    <3>12. mtx_lock'.ex <=> \E u \in Thread : exheld'[u] > 0
      BY <3>4, <3>11
    <3> QED BY <3>5, <3>6, <3>8, <3>9, <3>10, <3>11, <3>12, HoldChanged
  <2> QED BY <1>3, <2>1, <2>2, Zenon DEF UnExclusive
<1>4. CASE UnCount(t)
  <2>1. /\ pc[t] = "un" /\ pc' = [pc EXCEPT ![t] = "idle"] /\ Drop(t)
        /\ UNCHANGED <<mtx_owner, link, target>>
    BY <1>4 DEF UnCount, Return
  <2>2. /\ mtx_lock.cnt > 1 /\ mtx_lock'.cnt = mtx_lock.cnt + -1
        /\ mtx_lock'.ex = mtx_lock.ex
    BY <1>4 DEF UnCount
  <2>3. exheld[t] + shheld[t] > 0 /\ link[t] \notin {"LINKED", "ACQUIRED"}
    BY <2>1 DEF Parked, Handed
  <2>4. exheld[t] # 1
    BY <2>2, CountOne
  <2>5. CASE exheld[t] > 0
    <3>1. exheld' = [exheld EXCEPT ![t] = @ - 1] /\ shheld' = shheld
      BY <2>1, <2>5 DEF Drop, Lose
    <3>2. exheld[t] > 1 /\ mtx_owner = t /\ shheld[t] = 0
      BY <1>0, <2>4, <2>5 DEF OwnedOK, LockedOK
    <3>3. \A u \in Thread : u # t => exheld[u] = 0 /\ shheld[u] = 0
      BY <2>5 DEF HoldInv, Exclusion
    <3>4. exheld'[t] = exheld[t] - 1 /\ exheld'[t] > 0 /\ \A u \in Thread : u # t => exheld'[u] = 0
      BY <3>1, <3>2, <3>3
    <3>5. OneMoves(t) /\ OthersHold(t)
      BY <2>1, <3>1 DEF OneMoves, OthersHold
    <3>6. LockedOK(t)'
      BY <1>0, <2>1, <2>3, <3>1, <3>2, <3>4, MaxHoldAssumption DEF LockedOK
    <3>7. \A u \in Thread : OwnedOK(u)'
      BY <2>1, <3>2, <3>4 DEF OwnedOK
    <3>8. Exclusion'
      BY <3>1, <3>3, <3>4 DEF Exclusion
    <3>9. exheld'[t] + shheld'[t] = exheld[t] + shheld[t] + -1
      BY <3>1, <3>2, <3>4
    <3>10. mtx_lock.ex
      BY <2>5 DEF HoldInv, CountExact
    <3>11. mtx_lock'.ex <=> \E u \in Thread : exheld'[u] > 0
      BY <2>2, <3>4, <3>10
    <3> QED BY <2>2, <3>5, <3>6, <3>7, <3>8, <3>9, <3>11, HoldChanged
  <2>6. CASE exheld[t] = 0
    <3>1. exheld' = exheld /\ shheld' = [shheld EXCEPT ![t] = @ - 1] /\ shheld[t] > 0
      BY <2>1, <2>3, <2>6 DEF Drop, Lose
    <3>2. \A u \in Thread : exheld[u] = 0
      <4>1. shheld[t] # 0 /\ \A u \in Thread : exheld[u] = 0 \/ exheld[u] > 0
        BY <3>1
      <4>2. \A u \in Thread : exheld[u] > 0 /\ u # t => shheld[t] = 0
        BY DEF HoldInv, Exclusion
      <4> QED BY <2>6, <4>1, <4>2
    <3>3. shheld'[t] = shheld[t] - 1
      BY <3>1
    <3>4. OneMoves(t) /\ OthersHold(t)
      BY <2>1, <3>1 DEF OneMoves, OthersHold
    <3>5. LockedOK(t)'
      BY <1>0, <2>1, <2>3, <3>1, <3>2, <3>3, MaxHoldAssumption DEF LockedOK
    <3>6. \A u \in Thread : OwnedOK(u)'
      BY <1>0, <2>1, <3>1, <3>2 DEF OwnedOK
    <3>7. Exclusion'
      BY <3>1, <3>2 DEF Exclusion
    <3>8. exheld'[t] + shheld'[t] = exheld[t] + shheld[t] + -1
      BY <2>6, <3>1, <3>3
    <3>9. mtx_lock'.ex <=> \E u \in Thread : exheld'[u] > 0
      BY <2>2, <3>1 DEF HoldInv, CountExact
    <3> QED BY <2>2, <3>4, <3>5, <3>6, <3>7, <3>8, <3>9, HoldChanged
  <2> QED BY <2>5, <2>6
<1> QED BY <1>1, <1>2, <1>3, <1>4

(* The last lock is kept, made exclusive and handed to the first waiter.   *)
LEMMA HoldHanded ==
  ASSUME LockTypes, HoldInv, WaitInv, RingSound, HeldTypes, NEW t \in Thread,
         UnChain(t) \/ ChainPick(t) \/ ChainOwner(t)
  PROVE  HoldInv'
<1> USE DEF LockTypes
<1>0. LockedOK(t) /\ OwnedOK(t) /\ \A u \in Thread : LockedOK(u) /\ OwnedOK(u)
  BY DEF HoldInv
<1>1. CASE UnChain(t)
  <2>1. /\ pc[t] = "un" /\ pc' = [pc EXCEPT ![t] = "chain"]
        /\ UNCHANGED <<mtx_owner, link, target>>
    BY <1>1 DEF UnChain, Goto
  <2>2. mtx_lock.cnt = 1 /\ mtx_lock'.cnt = mtx_lock.cnt + 0 /\ mtx_lock'.ex
    BY <1>1 DEF UnChain
  <2>3. /\ exheld[t] + shheld[t] = 1
        /\ \A u \in Thread : u # t => exheld[u] = 0 /\ shheld[u] = 0
    BY <2>1, <2>2, CountFew
  <2>4. exheld'[t] = 1 /\ shheld'[t] = 0 /\ OthersHold(t)
    <3>0. exheld[t] \in Nat /\ shheld[t] \in Nat
      OBVIOUS
    <3>1. CASE exheld[t] > 0
      <4>1. exheld' = exheld /\ shheld' = shheld
        BY <1>1, <3>1 DEF UnChain, heldVars
      <4>2. exheld[t] = 1 /\ shheld[t] = 0
        BY <2>3, <3>0, <3>1
      <4> QED BY <4>1, <4>2 DEF OthersHold
    <3>2. CASE exheld[t] = 0
      <4>1. exheld' = [exheld EXCEPT ![t] = @ + 1] /\ shheld' = [shheld EXCEPT ![t] = @ - 1]
        BY <1>1, <3>2 DEF UnChain, Gain, Lose
      <4> QED BY <2>3, <3>2, <4>1 DEF OthersHold
    <3> QED BY <3>0, <3>1, <3>2
  <2>5. OneMoves(t) /\ link[t] \notin {"LINKED", "ACQUIRED"}
    BY <2>1 DEF OneMoves, Parked, Handed
  <2>6. LockedOK(t)'
    BY <2>1, <2>4, <2>5, MaxHoldAssumption DEF LockedOK
  <2>7. \A u \in Thread : u # t => exheld'[u] = 0
    BY <2>3, <2>4 DEF OthersHold
  <2>8. \A u \in Thread : u # t => mtx_owner # u
    <3>1. \A u \in Thread : pc[u] # "chain_owner"
      <4>1. pc[t] \notin Parked
        BY <2>1 DEF Parked
      <4> QED BY <2>3, <4>1, NoHandOver
    <3> QED BY <1>0, <2>3, <3>1 DEF OwnedOK
  <2>9. \A u \in Thread : OwnedOK(u)'
    BY <2>1, <2>4, <2>7, <2>8 DEF OwnedOK
  <2>10. Exclusion'
    BY <2>3, <2>4, <2>7 DEF Exclusion, OthersHold
  <2>11. exheld'[t] + shheld'[t] = exheld[t] + shheld[t] + 0
    BY <2>3, <2>4
  <2>12. mtx_lock'.ex <=> \E u \in Thread : exheld'[u] > 0
    BY <2>2, <2>4
  <2> QED BY <2>2, <2>4, <2>5, <2>6, <2>9, <2>10, <2>11, <2>12, HoldChanged
<1>2. CASE ChainPick(t)
  <2>1. pc[t] = "chain" /\ pc' = [pc EXCEPT ![t] = "chain_owner"] /\ mtx_link # << >>
    BY <1>2 DEF ChainPick, Goto, WaitInv, WantOK
  <2>2. PICK next : next = Head(mtx_link)
    OBVIOUS
  <2>3. next \in Thread /\ link[next] = "LINKED"
    <3>1. Distinct(mtx_link)
      BY DEF RingSound, Distinct
    <3>2. next \in Thread /\ In(next, mtx_link)
      BY <2>1, <2>2, <3>1, PopRing
    <3> QED BY <3>2 DEF RingSound, In
  <2>4. /\ link' = [link EXCEPT ![next] = "ACQUIRED"]
        /\ target' = [target EXCEPT ![t] = next]
        /\ exheld' = [exheld EXCEPT ![t] = @ - 1, ![next] = @ + 1]
        /\ UNCHANGED <<mtx_lock, mtx_owner, shheld>>
    BY <1>2, <2>1, <2>2 DEF ChainPick
  <2>5. next # t /\ pc[next] \in Parked
    BY <2>1, <2>3 DEF Parked
  <2>6. /\ exheld[t] = 1 /\ shheld[t] = 0 /\ exheld[next] = 0 /\ shheld[next] = 0
        /\ \A u \in Thread : u # t => exheld[u] = 0 /\ shheld[u] = 0
    <3>1. exheld[t] = 1 /\ shheld[t] = 0 /\ exheld[next] = 0 /\ shheld[next] = 0
      BY <1>0, <2>1, <2>3 DEF LockedOK
    <3> QED BY <3>1 DEF HoldInv, Exclusion
  <2>7. exheld'[t] = 0 /\ exheld'[next] = 1 /\ \A u \in Thread : u # next => exheld'[u] = 0
    <3>1. /\ exheld'[t] = exheld[t] - 1 /\ exheld'[next] = exheld[next] + 1
          /\ \A u \in Thread : u # t /\ u # next => exheld'[u] = exheld[u]
      BY <2>3, <2>4, <2>5
    <3>2. exheld'[t] = 0 /\ exheld'[next] = 1
      BY <2>6, <3>1
    <3>3. \A u \in Thread : u # t /\ u # next => exheld'[u] = 0
      BY <2>6, <3>1
    <3> QED BY <3>2, <3>3
  <2>8. Cardinality(Units)' = Cardinality(Units)
    <3>1. /\ exheld[t] + shheld[t] = 1 /\ exheld'[t] + shheld'[t] = 0
          /\ exheld[next] + shheld[next] = 0 /\ exheld'[next] + shheld'[next] = 1
          /\ \A u \in Thread : u # t /\ u # next => exheld'[u] = exheld[u] /\ shheld'[u] = shheld[u]
      <4>1. shheld'[t] = 0 /\ shheld'[next] = 0 /\ \A u \in Thread : shheld'[u] = shheld[u]
        BY <2>3, <2>4, <2>6
      <4> QED BY <2>6, <2>7, <4>1
    <3> QED BY <2>3, <2>5, <3>1, UnitsPass
  <2>9. mtx_lock.ex
    BY <2>6 DEF HoldInv, CountExact
  <2>10. CountExact'
    BY <2>3, <2>4, <2>7, <2>8, <2>9 DEF HoldInv, CountExact
  <2>11. Exclusion'
    BY <2>4, <2>6, <2>7 DEF Exclusion
  <2>12. ASSUME NEW u \in Thread PROVE OwnedOK(u)'
    <3>0. OwnedOK(u)
      BY <1>0
    <3>1. CASE u = next
      <4>1. pc'[next] \in Parked /\ exheld'[next] = 1
        BY <2>1, <2>3, <2>5, <2>7
      <4>4. mtx_owner' # next
        BY <2>3, <2>4, <2>5, <2>6, <3>0, <3>1 DEF OwnedOK, Parked
      <4>2. pc'[t] = "chain_owner" /\ target'[t] = next
        BY <2>1, <2>4
      <4>3. Unrecorded(next)'
        BY <4>2 DEF Unrecorded
      <4> QED BY <3>1, <4>1, <4>3, <4>4 DEF OwnedOK
    <3>2. CASE u # next
      <4>1. exheld'[u] = 0 /\ mtx_owner' = mtx_owner
        BY <2>4, <2>7, <3>2
      <4>2. mtx_owner = u => pc'[u] = "chain_owner"
        <5>1. CASE u = t
          BY <2>1, <5>1
        <5>2. CASE u # t
          BY <2>1, <2>6, <3>0, <5>2 DEF OwnedOK
        <5> QED BY <5>1, <5>2
      <4> QED BY <4>1, <4>2 DEF OwnedOK
    <3> QED BY <3>1, <3>2
  <2>13. LockedOK(t)'
    <3>1. link[t] \notin {"LINKED", "ACQUIRED"} /\ link'[t] = link[t]
      BY <2>1, <2>3, <2>4, <2>5 DEF Parked, Handed
    <3>2. pc'[t] = "chain_owner" /\ exheld'[t] = 0 /\ shheld'[t] = 0
      BY <2>1, <2>4, <2>6, <2>7
    <3> QED BY <3>1, <3>2, MaxHoldAssumption DEF LockedOK
  <2>14. LockedOK(next)'
    BY <2>1, <2>3, <2>4, <2>5, <2>6, <2>7, MaxHoldAssumption DEF LockedOK, Parked
  <2>15. \A u \in Thread : u # t /\ u # next => LockedOK(u)'
    BY <1>0, <2>1, <2>3, <2>4, <2>6, <2>7 DEF LockedOK
  <2> QED BY <2>10, <2>11, <2>12, <2>13, <2>14, <2>15 DEF HoldInv
<1>3. CASE ChainOwner(t)
  <2>1. PICK next : next = target[t]
    OBVIOUS
  <2>2. pc[t] = "chain_owner" /\ next \in Thread /\ link[next] = "ACQUIRED" /\ pc[next] \in Parked
    BY <1>3, <2>1 DEF ChainOwner, Goto
  <2>3. /\ pc' = [pc EXCEPT ![t] = "chain_clear"] /\ mtx_owner' = next
        /\ UNCHANGED <<mtx_lock, link, target, exheld, shheld>>
    BY <1>3, <2>1, <2>2 DEF ChainOwner, Goto, heldVars
  <2>4. exheld[next] > 0 /\ \A u \in Thread : u # next => exheld[u] = 0
    <3>1. exheld[next] > 0
      BY <1>0, <2>2 DEF LockedOK
    <3> QED BY <2>2, <3>1 DEF HoldInv, Exclusion
  <2>5. OneMoves(t)
    BY <2>3 DEF OneMoves
  <2>6. LockedOK(t)'
    BY <1>0, <2>3 DEF LockedOK
  <2>7. ASSUME NEW u \in Thread PROVE OwnedOK(u)'
    <3>1. CASE u = next
      BY <2>2, <2>3, <2>4, <3>1 DEF OwnedOK, Parked
    <3>2. CASE u # next
      BY <2>3, <2>4, <3>2 DEF OwnedOK
    <3> QED BY <3>1, <3>2
  <2> QED BY <2>3, <2>5, <2>6, <2>7, HoldKept
<1> QED BY <1>1, <1>2, <1>3

(* The assertion at kern_mutex.c:171 does not fail: the sleeper that was   *)
(* picked is woken only after it has been recorded as the owner.           *)
LEMMA NoPanic ==
  ASSUME HoldInv, WaitInv, IInv, RingInv, NEW t \in Thread
  PROVE  ~ExPanic(t)
<1>1. LockTypes
  BY LockTyped
<1>2. SUFFICES ASSUME ExPanic(t) PROVE FALSE
  OBVIOUS
<1>3. pc[t] = "ex_check" /\ link[t] = "ACQUIRED" /\ mtx_owner # t
  BY <1>2 DEF ExPanic, Goto
<1>4. exheld[t] > 0 /\ ~Unrecorded(t)
  BY <1>1, <1>3, OwnerFacts DEF HoldInv, LockedOK, Parked
<1> QED BY <1>3, <1>4 DEF HoldInv, OwnedOK

(* Every action keeps the holds, the count and the owner in step.          *)
LEMMA LockStep ==
  ASSUME HoldInv, WaitInv, IInv, RingInv, IInv', [Next]_vars
  PROVE  HoldInv'
<1>0. LockTypes /\ HeldTypes /\ RingSound
  BY LockTyped DEF IInv, TypeOK, HeldTypes
<1>1. ASSUME NEW t \in Thread PROVE pc[t] \notin Unused
  BY DEF WaitInv, PlaceOK
<1>2. /\ Flags = {} /\ "downgrade" \notin Ops /\ "upgrade_try" \notin Ops
      /\ "abort" \notin Ops
  BY DEF WaitInv, Uninterrupted
<1>3. ASSUME NEW t \in Thread, Call(t) PROVE HoldInv'
  BY <1>0, <1>2, <1>3, HoldQuiet DEF Call, Downgrade, CallUpgrade, CallAbort
<1>4. ASSUME NEW t \in Thread, StepEx(t) PROVE HoldInv'
  <2>1. ASSUME EarlyAbort(t) PROVE FALSE
    BY <2>1 DEF EarlyAbort, Goto, WaitInv, PlaceOK, Parked, Handed
  <2>2. ASSUME EarlyRead(t) \/ EarlyClear(t) \/ DeleteLock(t) \/ mtx_delete_link(t)
        PROVE  FALSE
    BY <1>1, <2>2 DEF EarlyRead, EarlyClear, DeleteLock, LockRing, mtx_delete_link, Goto, Return,
       Unused
  <2> QED BY <1>0, <1>4, <2>1, <2>2, HoldQuiet, HoldTaken, NoPanic DEF StepEx
<1>5. ASSUME NEW t \in Thread, StepSh(t) PROVE HoldInv'
  BY <1>0, <1>5, HoldQuiet, HoldTaken DEF StepSh
<1>6. ASSUME NEW t \in Thread, StepUn(t) PROVE HoldInv'
  <2>1. ASSUME ChainNull(t) PROVE FALSE
    BY <1>1, <2>1 DEF ChainNull, Goto, Unused
  <2>2. ASSUME ChainRelease(t) PROVE FALSE
    BY <2>2, NullAssumption DEF ChainRelease, Goto, Return, WaitInv, WantOK
  <2> QED BY <1>0, <1>6, <2>1, <2>2, HoldQuiet, HoldGiven, HoldHanded DEF StepUn
<1>7. ASSUME NEW t \in Thread, StepMode(t) PROVE FALSE
  BY <1>1, <1>7 DEF StepMode, DowngradeFast, DowngradeSlow, _mtx_downgrade, DowngradeNop,
     UpgradeFast, _mtx_upgrade_try, UpgradeNop, AbortLock, LockRing, mtx_abort_ex_link,
     Goto, Return, Unused
<1>8. ASSUME UNCHANGED <<mtxVars, link, pc, target, heldVars>> PROVE HoldInv'
  BY <1>8 DEF mtxVars, heldVars, HoldInv, LockedOK, OwnedOK, Unrecorded, Exclusion, CountExact,
     Units
<1>9. ASSUME NEW t \in Thread, Ipi(t) \/ Interrupt(t) PROVE HoldInv'
  BY <1>8, <1>9 DEF Ipi, Interrupt
<1>10. CASE UNCHANGED vars
  BY <1>8, <1>10 DEF vars
<1> QED BY <1>3, <1>4, <1>5, <1>6, <1>7, <1>9, <1>10 DEF Next, Step

-----------------------------------------------------------------------------
(* The mutex of callers whose sleeps do not fail.                          *)

(* It starts unlocked.                                                     *)
LEMMA LockInit == ASSUME Uninterrupted, mtx_init PROVE WaitInv /\ HoldInv
<1>1. WaitInv
  BY NullAssumption DEF mtx_init, SleepInit, WaitInv, WantOK, PlaceOK, WakeOK, Waker, Pending, Parked, Handed,
     Unused, Unlocked
<1>2. ASSUME NEW t \in Thread PROVE LockedOK(t) /\ OwnedOK(t)
  <2>1. /\ exheld[t] = 0 /\ shheld[t] = 0 /\ pc[t] = "idle" /\ link[t] = "IDLE"
        /\ mtx_owner # t
    BY NullAssumption DEF mtx_init
  <2>2. LockedOK(t)
    BY <2>1, MaxHoldAssumption DEF LockedOK
  <2> QED BY <2>1, <2>2 DEF OwnedOK
<1>3. Units = {}
  BY DEF mtx_init, Units
<1>4. CountExact
  BY <1>3, FS_EmptySet DEF mtx_init, CountExact, Unlocked
<1>5. Exclusion
  BY DEF mtx_init, Exclusion
<1> QED BY <1>1, <1>2, <1>4, <1>5 DEF HoldInv

(***************************************************************************)
(* The invariant of the mutex when its sleeps are not interrupted: every   *)
(* wakeup of a link goes with a hand-over, the count is that of the locks  *)
(* held, and the owner is recorded.                                        *)
(***************************************************************************)
THEOREM LockInvariant == Uninterrupted /\ Spec => [](WaitInv /\ HoldInv)
<1>1. Uninterrupted /\ mtx_init => IInv /\ RingInv /\ WaitInv /\ HoldInv
  BY InvInit, LockInit
<1>2. IInv /\ RingInv /\ WaitInv /\ HoldInv /\ [Next]_vars
        => IInv' /\ RingInv' /\ WaitInv' /\ HoldInv'
  BY InvStep, WaitStep, LockStep, NoPanic
<1> QED BY <1>1, <1>2, PTL DEF Spec

(***************************************************************************)
(* An exclusive lock excludes every other one, however it was obtained:    *)
(* by the cmpset of a free mutex, by recursion or from the releaser, which *)
(* keeps MTX_EXCLUSIVE and the count while it hands the mutex over.        *)
(***************************************************************************)
THEOREM MutexExcludes == Uninterrupted /\ Spec => []Exclusion
<1>1. WaitInv /\ HoldInv => Exclusion
  BY DEF HoldInv
<1> QED BY <1>1, LockInvariant, PTL

(***************************************************************************)
(* The count under MTX_MASK is the number of locks held, and MTX_EXCLUSIVE *)
(* says of which kind they are.                                            *)
(***************************************************************************)
THEOREM MutexCounts == Uninterrupted /\ Spec => []CountExact
<1>1. WaitInv /\ HoldInv => CountExact
  BY DEF HoldInv
<1> QED BY <1>1, LockInvariant, PTL

(***************************************************************************)
(* mtx_owned() is true of a thread between its calls exactly when it holds *)
(* the mutex exclusively.                                                  *)
(***************************************************************************)
THEOREM MutexOwners == Uninterrupted /\ Spec => []OwnerExact
<1>1. IInv /\ RingInv /\ WaitInv /\ HoldInv => OwnerExact
  <2> SUFFICES ASSUME IInv, RingInv, WaitInv, HoldInv, NEW t \in Thread, pc[t] = "idle"
               PROVE  mtx_lock.ex /\ mtx_owner = t <=> exheld[t] > 0
    BY DEF OwnerExact
  <2>1. LockTypes /\ ~Unrecorded(t)
    BY LockTyped, OwnerFacts DEF Parked
  <2> QED BY <2>1 DEF HoldInv, OwnedOK, CountExact
<1> QED BY <1>1, LockInvariant, InvInit, InvStep, PTL DEF Spec
=============================================================================
