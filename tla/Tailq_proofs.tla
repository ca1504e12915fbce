---------------------------- MODULE Tailq_proofs ----------------------------
(***************************************************************************)
(* What the queue operations do to a queue without repetitions: what is on *)
(* it afterwards, how often, and in which order.                           *)
(***************************************************************************)
EXTENDS Tailq, SequenceTheorems, FiniteSetTheorems, WellFoundedInduction, TLAPS

Distinct(s) == \A i, j \in 1 .. Len(s) : s[i] = s[j] => i = j
In(m, s) == \E i \in 1 .. Len(s) : s[i] = m

(* x is y or comes before it.                                              *)
Before(s, x, y) ==
  \E i, j \in 1 .. Len(s) : i <= j /\ s[i] = x /\ s[j] = y

(* TAILQ_REMOVE() closes the gap that m leaves.                            *)
LEMMA WithoutAt ==
  ASSUME NEW S, NEW s \in Seq(S), NEW m, In(m, s)
  PROVE  \E i \in 1 .. Len(s) :
           /\ s[i] = m
           /\ Without(s, m) \in Seq(S) /\ Len(Without(s, m)) = Len(s) - 1
           /\ \A j \in 1 .. Len(s) - 1 :
                Without(s, m)[j] = s[IF j < i THEN j ELSE j + 1]
<1> DEFINE n == Len(s)
           i == CHOOSE k \in 1 .. n : s[k] = m
           a == SubSeq(s, 1, i - 1)
           b == SubSeq(s, i + 1, n)
           r == a \o b
<1>1. n \in Nat /\ i \in 1 .. n /\ s[i] = m
  BY DEF In
<1>2. Without(s, m) = r
  BY DEF Without, In
<1> HIDE DEF i
<1>3. a \in Seq(S) /\ Len(a) = i - 1 /\ \A j \in 1 .. i - 1 : a[j] = s[j]
  BY <1>1
<1>4. b \in Seq(S) /\ Len(b) = n - i /\ \A j \in 1 .. n - i : b[j] = s[i + j]
  BY <1>1
<1> HIDE DEF n, a, b
<1>5. /\ r \in Seq(S) /\ Len(r) = Len(a) + Len(b)
      /\ \A j \in 1 .. Len(a) + Len(b) :
           r[j] = IF j <= Len(a) THEN a[j] ELSE b[j - Len(a)]
  BY <1>3, <1>4, ConcatProperties, Zenon
<1> HIDE DEF r
<1>6. Len(r) = n - 1
  BY <1>1, <1>3, <1>4, <1>5
<1>7. ASSUME NEW j \in 1 .. n - 1
      PROVE  r[j] = s[IF j < i THEN j ELSE j + 1]
  <2>1. CASE j < i
    <3>1. r[j] = a[j] /\ j \in 1 .. i - 1
      BY <2>1, <1>1, <1>3, <1>4, <1>5
    <3> QED BY <3>1, <2>1, <1>1, <1>3
  <2>2. CASE j >= i
    <3>1. r[j] = b[j - (i - 1)] /\ j - (i - 1) \in 1 .. n - i
      BY <2>2, <1>1, <1>3, <1>4, <1>5
    <3>2. b[j - (i - 1)] = s[i + (j - (i - 1))] /\ i + (j - (i - 1)) = j + 1
      BY <3>1, <1>1, <1>4
    <3> QED BY <3>1, <3>2, <2>2, <1>1
  <2> QED BY <2>1, <2>2, <1>1
<1> QED BY <1>1, <1>2, <1>5, <1>6, <1>7 DEF n

(* What a queue contains after TAILQ_REMOVE(), and that the order stays.   *)
LEMMA WithoutQueue ==
  ASSUME NEW S, NEW s \in Seq(S), Distinct(s), NEW m, In(m, s)
  PROVE  /\ Without(s, m) \in Seq(S)
         /\ Distinct(Without(s, m))
         /\ \A x : In(x, Without(s, m)) <=> In(x, s) /\ x # m
         /\ \A x, y : Before(s, x, y) /\ x # m /\ y # m
                       => Before(Without(s, m), x, y)
<1> DEFINE n == Len(s)
           r == Without(s, m)
<1>1. PICK i \in 1 .. n :
        /\ s[i] = m
        /\ r \in Seq(S) /\ Len(r) = n - 1
        /\ \A j \in 1 .. n - 1 : r[j] = s[IF j < i THEN j ELSE j + 1]
  BY WithoutAt
<1>5. n \in Nat
  OBVIOUS
<1> HIDE DEF n, r
(* Position j of the new queue is position Old(j) of the old one.          *)
<1> DEFINE Old(j) == IF j < i THEN j ELSE j + 1
<1>6. Len(r) = n - 1
  BY <1>1
<1>7. ASSUME NEW j \in 1 .. n - 1
      PROVE  r[j] = s[Old(j)] /\ Old(j) \in 1 .. n /\ Old(j) # i
  BY <1>1, <1>5
<1>8. Distinct(r)
  <2> SUFFICES ASSUME NEW j \in 1 .. n - 1, NEW k \in 1 .. n - 1, r[j] = r[k]
               PROVE  j = k
    BY <1>6 DEF Distinct
  <2>1. Old(j) = Old(k)
    BY <1>7 DEF Distinct, n
  <2> QED BY <2>1, <1>1
<1>10. ASSUME NEW k \in 1 .. n, k # i
       PROVE  \E j \in 1 .. n - 1 : Old(j) = k
  <2>1. CASE k < i
    <3>1. k \in 1 .. n - 1 /\ Old(k) = k
      BY <2>1, <1>1, <1>5
    <3> QED BY <3>1
  <2>2. CASE k > i
    <3>1. k - 1 \in 1 .. n - 1 /\ Old(k - 1) = k
      BY <2>2, <1>1, <1>5
    <3> QED BY <3>1
  <2> QED BY <2>1, <2>2, <1>10, <1>1, <1>5
<1>9. ASSUME NEW x PROVE In(x, r) <=> In(x, s) /\ x # m
  <2>1. ASSUME In(x, r) PROVE In(x, s) /\ x # m
    <3>1. PICK j \in 1 .. n - 1 : r[j] = x
      BY <2>1, <1>6 DEF In
    <3>2. s[Old(j)] = x /\ Old(j) \in 1 .. n /\ Old(j) # i
      BY <3>1, <1>7
    <3>3. s[Old(j)] # s[i]
      BY <3>2, <1>1 DEF Distinct, n
    <3> HIDE DEF Old
    <3> QED BY <3>2, <3>3, <1>1 DEF In, n
  <2>2. ASSUME In(x, s), x # m PROVE In(x, r)
    <3>1. PICK k \in 1 .. n : s[k] = x
      BY <2>2 DEF In, n
    <3>2. k # i
      BY <3>1, <2>2, <1>1
    <3>3. PICK j \in 1 .. n - 1 : Old(j) = k
      BY <3>2, <1>10
    <3>4. r[j] = x
      BY <3>3, <3>1, <1>7
    <3> QED BY <3>4, <1>6 DEF In
  <2> QED BY <2>1, <2>2
<1>11. ASSUME NEW x, NEW y, Before(s, x, y), x # m, y # m
       PROVE  Before(r, x, y)
  <2>1. PICK k1 \in 1 .. n, k2 \in 1 .. n : k1 <= k2 /\ s[k1] = x /\ s[k2] = y
    BY <1>11 DEF Before, n
  <2>2. k1 # i /\ k2 # i
    BY <2>1, <1>11, <1>1
  <2>3. PICK j1 \in 1 .. n - 1 : Old(j1) = k1
    BY <2>2, <1>10
  <2>4. PICK j2 \in 1 .. n - 1 : Old(j2) = k2
    BY <2>2, <1>10
  <2>5. j1 <= j2
    BY <2>1, <2>3, <2>4, <1>1, <1>5
  <2>6. r[j1] = x /\ r[j2] = y
    BY <2>1, <2>3, <2>4, <1>7
  <2> QED BY <2>5, <2>6, <1>6 DEF Before
<1> QED BY <1>1, <1>8, <1>9, <1>11 DEF r

(* What a queue contains after TAILQ_INSERT_TAIL().                        *)
LEMMA AppendQueue ==
  ASSUME NEW S, NEW s \in Seq(S), Distinct(s), NEW m \in S, ~In(m, s)
  PROVE  /\ Append(s, m) \in Seq(S)
         /\ Distinct(Append(s, m))
         /\ \A x : In(x, Append(s, m)) <=> In(x, s) \/ x = m
         /\ \A x, y : Before(s, x, y) => Before(Append(s, m), x, y)
<1> DEFINE n == Len(s)
           r == Append(s, m)
<1>1. n \in Nat /\ r \in Seq(S) /\ Len(r) = n + 1
      /\ (\A j \in 1 .. n : r[j] = s[j]) /\ r[n + 1] = m
  OBVIOUS
<1> HIDE DEF r
<1>2. Distinct(r)
  <2> SUFFICES ASSUME NEW j \in 1 .. n + 1, NEW k \in 1 .. n + 1, r[j] = r[k]
               PROVE  j = k
    BY <1>1 DEF Distinct
  <2>1. CASE j \in 1 .. n /\ k \in 1 .. n
    BY <2>1, <1>1 DEF Distinct
  <2>2. CASE j = n + 1 /\ k \in 1 .. n
    BY <2>2, <1>1 DEF In
  <2>3. CASE j \in 1 .. n /\ k = n + 1
    BY <2>3, <1>1 DEF In
  <2>4. CASE j = n + 1 /\ k = n + 1
    BY <2>4
  <2>5. j \in 1 .. n \/ j = n + 1
    BY <1>1
  <2>6. k \in 1 .. n \/ k = n + 1
    BY <1>1
  <2> QED BY <2>1, <2>2, <2>3, <2>4, <2>5, <2>6
<1>3. ASSUME NEW x PROVE In(x, r) <=> In(x, s) \/ x = m
  <2>1. ASSUME In(x, r) PROVE In(x, s) \/ x = m
    <3>1. PICK j \in 1 .. n + 1 : r[j] = x
      BY <2>1, <1>1 DEF In
    <3>2. j \in 1 .. n \/ j = n + 1
      BY <1>1
    <3> QED BY <3>1, <3>2, <1>1 DEF In
  <2>2. ASSUME In(x, s) PROVE In(x, r)
    <3>1. PICK j \in 1 .. n : s[j] = x
      BY <2>2 DEF In
    <3>2. r[j] = x /\ j \in 1 .. n + 1
      BY <3>1, <1>1
    <3> QED BY <3>2, <1>1 DEF In
  <2>3. In(m, r)
    <3>1. n + 1 \in 1 .. n + 1
      BY <1>1
    <3> QED BY <3>1, <1>1 DEF In
  <2> QED BY <2>1, <2>2, <2>3
<1>4. ASSUME NEW x, NEW y, Before(s, x, y) PROVE Before(r, x, y)
  <2>1. PICK i \in 1 .. n, j \in 1 .. n : i <= j /\ s[i] = x /\ s[j] = y
    BY <1>4 DEF Before
  <2>2. i \in 1 .. n + 1 /\ j \in 1 .. n + 1 /\ r[i] = x /\ r[j] = y
    BY <2>1, <1>1
  <2> QED BY <2>1, <2>2, <1>1 DEF Before
<1> QED BY <1>1, <1>2, <1>3, <1>4 DEF r

(* In a queue without repetitions a message is there once or not at all.   *)
LEMMA CountOnce ==
  ASSUME NEW s, Distinct(s), NEW m
  PROVE  Count(s, m) = IF In(m, s) THEN 1 ELSE 0
<1> DEFINE P == {i \in 1 .. Len(s) : s[i] = m}
<1>1. CASE In(m, s)
  <2>1. PICK i \in 1 .. Len(s) : s[i] = m
    BY <1>1 DEF In
  <2>2. P = {i}
    BY <2>1 DEF Distinct
  <2> QED BY <1>1, <2>2, FS_Singleton DEF Count
<1>2. CASE ~In(m, s)
  <2>1. P = {}
    BY <1>2 DEF In
  <2> QED BY <1>2, <2>1, FS_EmptySet DEF Count
<1> QED BY <1>1, <1>2

(* TAILQ_NEXT() is the next in order: whatever comes after m comes after   *)
(* it or is it.                                                            *)
LEMMA AfterQueue ==
  ASSUME NEW S, NEW s \in Seq(S), Distinct(s), NEW m, In(m, s), NEW none
  PROVE  LET a == After(s, m, none) IN
         /\ a = none \/ (a \in S /\ In(a, s) /\ a # m)
         /\ \A y : Before(s, m, y) /\ y # m => a \in S /\ Before(s, a, y)
<1> DEFINE n == Len(s)
           i == CHOOSE k \in 1 .. n : s[k] = m
           a == After(s, m, none)
<1>1. n \in Nat /\ i \in 1 .. n /\ s[i] = m
  BY DEF In
<1>2. a = IF i = n THEN none ELSE s[i + 1]
  BY DEF After
<1> HIDE DEF i, a
<1>3. ASSUME i # n
      PROVE  i + 1 \in 1 .. n /\ a = s[i + 1] /\ a \in S /\ a # m
  <2>1. i + 1 \in 1 .. n /\ a = s[i + 1]
    BY <1>1, <1>2, <1>3
  <2>2. s[i + 1] \in S
    BY <2>1
  <2>3. s[i + 1] # s[i]
    BY <2>1, <1>1 DEF Distinct
  <2> QED BY <2>1, <2>2, <2>3, <1>1
<1>4. a = none \/ (a \in S /\ In(a, s) /\ a # m)
  <2>1. CASE i = n
    BY <2>1, <1>2
  <2>2. CASE i # n
    BY <2>2, <1>3 DEF In
  <2> QED BY <2>1, <2>2
<1>5. ASSUME NEW y, Before(s, m, y), y # m
      PROVE  a \in S /\ Before(s, a, y)
  <2>1. PICK j \in 1 .. n, k \in 1 .. n : j <= k /\ s[j] = m /\ s[k] = y
    BY <1>5 DEF Before
  <2>2. j = i
    BY <2>1, <1>1 DEF Distinct
  <2>3. k # i
    BY <2>1, <1>1, <1>5
  <2>4. i # n /\ i + 1 <= k
    BY <2>1, <2>2, <2>3, <1>1
  <2>5. i + 1 \in 1 .. n /\ a = s[i + 1] /\ a \in S
    BY <2>4, <1>3
  <2> QED BY <2>1, <2>4, <2>5 DEF Before
<1> QED BY <1>4, <1>5 DEF a

(* A set of natural numbers has a least element.                           *)
LEMMA LeastOf ==
  ASSUME NEW T, T \subseteq Nat, T # {}
  PROVE  \E x \in T : \A y \in T : x <= y
<1> DEFINE R == OpToRel(<, Nat)
<1>1. IsWellFoundedOn(R, Nat)
  BY NatLessThanWellFounded, Zenon
<1>2. ASSUME NEW x \in Nat, NEW y \in Nat, <<y, x>> \notin R PROVE x <= y
  <2>1. <<y, x>> \in Nat \X Nat
    OBVIOUS
  <2>2. ~(y < x)
    BY <2>1, <1>2 DEF OpToRel
  <2> QED BY <2>2
<1> HIDE DEF R
<1>3. PICK x \in T : \A y \in T : ~(<<y, x>> \in R)
  BY <1>1, WFMin
<1> QED BY <1>2, <1>3
=============================================================================
