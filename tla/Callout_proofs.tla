--------------------------- MODULE Callout_proofs ---------------------------
(***************************************************************************)
(* The wheels keep what is armed and the softclock passes nothing over,    *)
(* for every number of cpus and callouts and every size of the wheel and   *)
(* of the counters; and a synchronous stop is complete, where each callout *)
(* is reset on one cpu.                                                    *)
(***************************************************************************)
EXTENDS Callout, Tailq_proofs

-----------------------------------------------------------------------------
(* Ticks.                                                                  *)

(* Since() and Plus() without the modulus.                                 *)
LEMMA SinceIs ==
  ASSUME NEW t \in Tick, NEW u \in Tick
  PROVE  /\ Since(t, u) = IF t <= u THEN u - t ELSE u - t + TickRange
         /\ Since(t, u) \in Tick
<1>1. TickRange \in Nat \ {0}
  BY TickAssumption
<1>2. CASE t <= u
  <2>1. u - t \in 0 .. TickRange - 1
    BY <1>1, <1>2 DEF Tick
  <2>2. (u - t) % TickRange = u - t
    BY <2>1, <1>1
  <2> QED BY <1>2, <2>1, <2>2 DEF Since, Tick
<1>3. CASE u < t
  <2>1. u - t \in Int /\ -TickRange <= u - t /\ u - t < 0
    BY <1>1, <1>3 DEF Tick
  <2>2. (u - t) % TickRange = u - t + TickRange
    BY <2>1, <1>1
  <2> QED BY <1>1, <1>3, <2>1, <2>2 DEF Since, Tick
<1> QED BY <1>1, <1>2, <1>3 DEF Tick

(* The modulus beyond one turn.                                            *)
LEMMA ModOnce ==
  ASSUME NEW n \in Nat \ {0}, NEW x \in Int, n <= x, x < n + n
  PROVE  x % n = x - n
OBVIOUS

(* The tick of callout_reset(): it stays in the range.                     *)
LEMMA PlusIs ==
  ASSUME NEW t \in Tick, NEW n \in 0 .. TickRange - 1
  PROVE  /\ Plus(t, n) = IF t + n < TickRange THEN t + n ELSE t + n - TickRange
         /\ Plus(t, n) \in Tick
<1>1. TickRange \in Nat \ {0}
  BY TickAssumption
<1>2. CASE t + n < TickRange
  <2>1. t + n \in 0 .. TickRange - 1
    BY <1>1, <1>2 DEF Tick
  <2>2. (t + n) % TickRange = t + n
    BY <2>1, <1>1
  <2> QED BY <1>2, <2>1, <2>2 DEF Plus, Tick
<1>3. CASE t + n >= TickRange
  <2> DEFINE x == t + n
  <2>1. x \in Int /\ TickRange <= x /\ x < TickRange + TickRange
    BY <1>1, <1>3 DEF Tick
  <2> HIDE DEF x
  <2>2. x % TickRange = x - TickRange
    BY <2>1, <1>1, ModOnce
  <2>3. Plus(t, n) = x % TickRange
    BY Zenon DEF Plus, x
  <2>4. Plus(t, n) = x - TickRange
    BY <2>2, <2>3
  <2> QED BY <1>1, <1>3, <2>1, <2>4 DEF Tick, x
<1> QED BY <1>1, <1>2, <1>3 DEF Tick

(* The buckets are numbered by ticks modulo the size of the wheel.         *)
LEMMA BucketIs ==
  ASSUME NEW t \in Tick
  PROVE  t % WheelSize \in Bucket
BY TickAssumption DEF Tick, Bucket

(* What the clock interrupt and the scan do to the distance of two ticks.  *)
LEMMA Distances ==
  ASSUME NEW s \in Tick, NEW u \in Tick
  PROVE  /\ Plus(s, 1) \in Tick
         /\ Since(s, u) = 0 <=> s = u
         /\ Since(s, u) # 0 => Since(Plus(s, 1), u) = Since(s, u) - 1
         /\ Since(s, u) < TickRange - 1 => Since(s, Plus(u, 1)) = Since(s, u) + 1
         /\ Since(Plus(s, 1), Plus(u, 1)) = Since(s, u)
<1>1. TickRange \in Nat /\ 1 \in 0 .. TickRange - 1
  BY TickAssumption
<1> DEFINE s1 == Plus(s, 1)
           u1 == Plus(u, 1)
<1>2. /\ s1 = IF s + 1 < TickRange THEN s + 1 ELSE s + 1 - TickRange
      /\ u1 = IF u + 1 < TickRange THEN u + 1 ELSE u + 1 - TickRange
      /\ s1 \in Tick /\ u1 \in Tick
  BY <1>1, PlusIs
<1> HIDE DEF s1, u1
<1>3. /\ Since(s, u) = IF s <= u THEN u - s ELSE u - s + TickRange
      /\ Since(s1, u) = IF s1 <= u THEN u - s1 ELSE u - s1 + TickRange
      /\ Since(s, u1) = IF s <= u1 THEN u1 - s ELSE u1 - s + TickRange
      /\ Since(s1, u1) = IF s1 <= u1 THEN u1 - s1 ELSE u1 - s1 + TickRange
  BY <1>2, SinceIs
<1>4. s \in Int /\ u \in Int /\ s >= 0 /\ u >= 0 /\ s < TickRange /\ u < TickRange
  BY <1>1 DEF Tick
<1>5. Since(s, u) = 0 <=> s = u
  BY <1>1, <1>3, <1>4
<1>6. Since(s, u) # 0 => Since(s1, u) = Since(s, u) - 1
  BY <1>1, <1>2, <1>3, <1>4
<1>7. Since(s, u) < TickRange - 1 => Since(s, u1) = Since(s, u) + 1
  BY <1>1, <1>2, <1>3, <1>4
<1>8. Since(s1, u1) = Since(s, u)
  BY <1>1, <1>2, <1>3, <1>4
<1> QED BY <1>2, <1>5, <1>6, <1>7, <1>8 DEF s1, u1

(* A timeout of n ticks, seen from the bucket that is scanned, which is    *)
(* Since(s, Plus(u, 1)) buckets behind the next tick.                      *)
LEMMA Timeout ==
  ASSUME NEW s \in Tick, NEW u \in Tick, NEW n \in 1 .. MaxTicks,
         Since(s, Plus(u, 1)) <= MaxLag + 1
  PROVE  /\ Plus(u, n) \in Tick
         /\ Since(s, Plus(u, n)) = Since(s, Plus(u, 1)) + n - 1
<1>1. /\ TickRange \in Nat /\ MaxTicks \in Nat /\ MaxLag \in Nat
      /\ MaxTicks + MaxLag + 1 < TickRange
      /\ 1 \in 0 .. TickRange - 1 /\ n \in 0 .. TickRange - 1
  BY TickAssumption
<1> DEFINE u1 == Plus(u, 1)
           un == Plus(u, n)
<1>2. /\ un = IF u + n < TickRange THEN u + n ELSE u + n - TickRange
      /\ u1 = IF u + 1 < TickRange THEN u + 1 ELSE u + 1 - TickRange
      /\ un \in Tick /\ u1 \in Tick
  BY <1>1, PlusIs
<1> HIDE DEF u1, un
<1>3. /\ Since(s, un) = IF s <= un THEN un - s ELSE un - s + TickRange
      /\ Since(s, u1) = IF s <= u1 THEN u1 - s ELSE u1 - s + TickRange
  BY <1>2, SinceIs
<1>4. s \in Int /\ u \in Int /\ s >= 0 /\ u >= 0 /\ s < TickRange /\ u < TickRange
  BY <1>1 DEF Tick
<1>5. Since(s, u1) <= MaxLag + 1
  BY DEF u1
<1>6. Since(s, un) = Since(s, u1) + n - 1
  BY <1>1, <1>2, <1>3, <1>4, <1>5
<1> QED BY <1>2, <1>6 DEF u1, un

-----------------------------------------------------------------------------
(* The inductive invariant.                                                *)

(* The softclock thread of p is outside its critical section.              *)
Scanning(p) == pc[p] \in {"mplock", "func"}

(* How many buckets are left up to the one of the current tick.            *)
Lag(p) == Since(softticks[p], Plus(curticks[p], 1))

OnWheel(c, p, b) ==
  "PENDING" \in c_flags[c] /\ c_gd[c] = p /\ b = c_time[c] % WheelSize

(* In the buckets w[p], whose scan goes on with nx[p], that is on the      *)
(* bucket, and nothing that is due was passed.                             *)
ScanOK(p, w, nx) ==
  LET s == w[p][softticks[p] % WheelSize] IN
  /\ nx[p] # NULL => Scanning(p) /\ In(nx[p], s)
  /\ Scanning(p) =>
       \A c \in Callout :
         In(c, s) /\ c_time[c] = softticks[p] =>
           nx[p] # NULL /\ Before(s, nx[p], c)

BucketOK(p, b, w, X) ==
  /\ Distinct(w[p][b])
  /\ \A c \in Callout : In(c, w[p][b]) <=> OnWheel(c, p, b) /\ c \notin X

(* The wheels w have what is pending on them, except for the callouts in X.*)
Sound(w, nx, X) ==
  /\ w \in [Cpu -> [Bucket -> Seq(Callout)]]
  /\ nx \in [Cpu -> Callout \cup {NULL}]
  /\ \A p \in Cpu, b \in Bucket : BucketOK(p, b, w, X)
  /\ \A p \in Cpu : ScanOK(p, w, nx)

Quiet(c) == c_flags[c] \cap {"ACTIVE", "PENDING"} = {}

FlagsOK(c) ==
  /\ "PENDING" \in c_flags[c] => "ACTIVE" \in c_flags[c] /\ c_gd[c] \in Cpu
  /\ "DID_INIT" \notin c_flags[c] => Idle(c) /\ Quiet(c)
  /\ op[c][2] = "stopped" => Quiet(c)
  /\ "rearm" \notin Ops =>
       /\ op[c][1] = "terminate" /\ op[c][2] # "ipi" => Quiet(c)
       /\ op[c] # <<"terminate", "panic">>
  /\ op[c][2] # "idle" => opcpu[c] \in Cpu

ClockOK(p) ==
  /\ isrunning[p] <=> pc[p] # "off"
  /\ Lag(p) <= MaxLag + 1
  /\ Scanning(p) => Lag(p) # 0
  /\ pc[p] = "off" => Lag(p) <= 1
  /\ pc[p] = "mplock" => scan[p] \in Callout

Inv ==
  /\ TypeOK
  /\ \A c \in Callout : FlagsOK(c)
  /\ \A p \in Cpu : ClockOK(p)
  /\ Sound(wheel, next, {})
  /\ NeverMissed

(* Each callout is reset on one cpu only.                                  *)
OneHome == \A c \in Callout : \A p, q \in Home[c] : p = q

Runs(c) == \E p \in Cpu : running[p] = c

SyncOK(c) ==
  /\ c_gd[c] \in Home[c] \cup {NULL}
  /\ op[c][1] = "reset" => opcpu[c] \in Home[c]
  /\ \A p \in Cpu : running[p] = c => c_gd[c] = p
  /\ op[c][2] = "wait" => stopcpu[c] = c_gd[c]
  /\ op[c][2] = "check" /\ Runs(c) => "ACTIVE" \in c_flags[c]
  /\ "DID_INIT" \notin c_flags[c] => ~Runs(c)

SyncInv == OneHome /\ \A c \in Callout : SyncOK(c)

-----------------------------------------------------------------------------
(* Queues that are scanned.                                                *)

(* The rest of a bucket from c on is what does not come before c.          *)
LEMMA FromQueue ==
  ASSUME NEW s \in Seq(Callout), Distinct(s), NEW c \in Callout, In(c, s)
  PROVE  /\ From(s, c) \in Seq(Callout)
         /\ \A y : In(y, From(s, c)) => In(y, s)
         /\ \A y : Before(s, c, y) => In(y, From(s, c))
         /\ \A x, y : Before(From(s, c), x, y) => Before(s, x, y)
<1> DEFINE n == Len(s)
           k == CHOOSE i \in 1 .. n : s[i] = c
           r == SubSeq(s, k, n)
<1>1. n \in Nat /\ k \in 1 .. n /\ s[k] = c
  BY DEF In
<1>2. From(s, c) = r
  BY CalloutAssumption DEF From
<1> HIDE DEF k
<1>3. r \in Seq(Callout) /\ Len(r) = n - k + 1
      /\ \A j \in 1 .. n - k + 1 : r[j] = s[k + j - 1]
  BY <1>1
<1> HIDE DEF r, n
<1>4. \A j \in 1 .. Len(r) : k + j - 1 \in 1 .. n /\ r[j] = s[k + j - 1]
  BY <1>1, <1>3
<1>5. ASSUME NEW y, In(y, r) PROVE In(y, s)
  BY <1>4, <1>5 DEF In, n
<1>6. ASSUME NEW y, Before(s, c, y) PROVE In(y, r)
  <2>1. PICK i \in 1 .. n, j \in 1 .. n : i <= j /\ s[i] = c /\ s[j] = y
    BY <1>6 DEF Before, n
  <2>2. i = k
    BY <2>1, <1>1 DEF Distinct, n
  <2>3. j - k + 1 \in 1 .. n - k + 1 /\ k + (j - k + 1) - 1 = j
    BY <2>1, <2>2, <1>1
  <2>4. r[j - k + 1] = y
    BY <2>1, <2>3, <1>3
  <2> QED BY <2>3, <2>4, <1>3 DEF In
<1>7. ASSUME NEW x, NEW y, Before(r, x, y) PROVE Before(s, x, y)
  <2>1. PICK i \in 1 .. Len(r), j \in 1 .. Len(r) : i <= j /\ r[i] = x /\ r[j] = y
    BY <1>7 DEF Before
  <2>2. /\ k + i - 1 \in 1 .. n /\ s[k + i - 1] = x
        /\ k + j - 1 \in 1 .. n /\ s[k + j - 1] = y
    BY <2>1, <1>4
  <2>3. k + i - 1 <= k + j - 1
    BY <2>1, <1>1, <1>3
  <2> QED BY <2>2, <2>3 DEF Before, n
<1> QED BY <1>2, <1>3, <1>5, <1>6, <1>7

(* The first callout of rest that is due, as ScanRest() finds it.          *)
Due(p, rest) == {i \in 1 .. Len(rest) : c_time[rest[i]] = softticks[p]}
FirstDue(p, rest) ==
  rest[CHOOSE i \in Due(p, rest) : \A j \in Due(p, rest) : i <= j]

(* What the scan of softclock_handler() stops at is the first callout that *)
(* is due: whatever else of rest is due comes later.                       *)
LEMMA FirstDueIs ==
  ASSUME NEW p, NEW rest \in Seq(Callout), Due(p, rest) # {}
  PROVE  /\ FirstDue(p, rest) \in Callout
         /\ In(FirstDue(p, rest), rest)
         /\ c_time[FirstDue(p, rest)] = softticks[p]
         /\ \A y : In(y, rest) /\ c_time[y] = softticks[p]
                     => Before(rest, FirstDue(p, rest), y)
<1> DEFINE D == Due(p, rest)
           k == CHOOSE i \in D : \A j \in D : i <= j
<1>1. D \subseteq 1 .. Len(rest) /\ Len(rest) \in Nat
  BY DEF Due
<1>2. D \subseteq Nat /\ D # {}
  BY <1>1
<1>3. \E x \in D : \A y \in D : x <= y
  <2> HIDE DEF D
  <2> QED BY <1>2, LeastOf
<1>4. k \in D /\ \A j \in D : k <= j
  <2> HIDE DEF D
  <2> QED BY <1>3
<1>5. FirstDue(p, rest) = rest[k]
  BY Zenon DEF FirstDue
<1> HIDE DEF k
<1>6. k \in 1 .. Len(rest) /\ c_time[rest[k]] = softticks[p]
  BY <1>4 DEF Due
<1>7. rest[k] \in Callout /\ In(rest[k], rest)
  BY <1>6 DEF In
<1>8. ASSUME NEW y, In(y, rest), c_time[y] = softticks[p]
      PROVE  Before(rest, rest[k], y)
  <2>1. PICK j \in 1 .. Len(rest) : rest[j] = y
    BY <1>8 DEF In
  <2>2. j \in D
    BY <2>1, <1>8 DEF Due
  <2>3. k <= j
    BY <2>2, <1>4
  <2> QED BY <2>1, <2>3, <1>6 DEF Before
<1> QED BY <1>5, <1>6, <1>7, <1>8

(* Nothing of rest is due.                                                 *)
LEMMA NothingDue ==
  ASSUME NEW p, NEW rest \in Seq(Callout), Due(p, rest) = {}, NEW y, In(y, rest)
  PROVE  c_time[y] # softticks[p]
BY DEF Due, In

-----------------------------------------------------------------------------
(* The wheels after callout_stop().                                        *)

(* callout_stop() takes c off its bucket and moves sc->next on when it was *)
(* c: all wheels stay sound, without c.                                    *)
LEMMA StoppedSound ==
  ASSUME Inv, NEW c \in Callout
  PROVE  Sound(StoppedWheel(c), StoppedNext(c), {c})
<1> DEFINE g == c_gd[c]
           b == c_time[c] % WheelSize
           s == wheel[g][b]
           r == Without(s, c)
           w == StoppedWheel(c)
           nx == StoppedNext(c)
<1>1. /\ wheel \in [Cpu -> [Bucket -> Seq(Callout)]]
      /\ next \in [Cpu -> Callout \cup {NULL}]
      /\ c_time[c] \in Tick
      /\ \A p \in Cpu, e \in Bucket : BucketOK(p, e, wheel, {})
      /\ \A p \in Cpu : ScanOK(p, wheel, next)
      /\ \A p \in Cpu : softticks[p] % WheelSize \in Bucket
      /\ NULL \notin Callout
  BY BucketIs, CalloutAssumption DEF Inv, TypeOK, Sound
<1>2. CASE "PENDING" \notin c_flags[c]
  <2>1. w = wheel /\ nx = next
    BY <1>2 DEF StoppedWheel, StoppedNext
  <2>2. \A p \in Cpu, e \in Bucket : BucketOK(p, e, wheel, {c})
    BY <1>1, <1>2 DEF BucketOK, OnWheel
  <2> QED BY <1>1, <2>1, <2>2 DEF Sound
<1>3. CASE "PENDING" \in c_flags[c]
  <2>1. g \in Cpu /\ b \in Bucket
    BY <1>1, <1>3, BucketIs DEF Inv, FlagsOK
  <2>2. s \in Seq(Callout) /\ Distinct(s) /\ In(c, s)
    BY <1>1, <1>3, <2>1 DEF BucketOK, OnWheel
  <2>3. /\ r \in Seq(Callout) /\ Distinct(r)
        /\ \A x : In(x, r) <=> In(x, s) /\ x # c
        /\ \A x, y : Before(s, x, y) /\ x # c /\ y # c => Before(r, x, y)
    <3> HIDE DEF s
    <3> QED BY <2>2, WithoutQueue
  <2>4. w = [wheel EXCEPT ![g][b] = r]
    BY <1>3 DEF StoppedWheel
  <2>5. nx = IF next[g] = c THEN [next EXCEPT ![g] = After(s, c, NULL)] ELSE next
    BY <1>3 DEF StoppedNext, BucketOf
  <2>6. LET a == After(s, c, NULL) IN
        /\ a = NULL \/ (a \in Callout /\ In(a, s) /\ a # c)
        /\ \A y : Before(s, c, y) /\ y # c => a \in Callout /\ Before(s, a, y)
    <3> HIDE DEF s
    <3> QED BY <2>2, AfterQueue
  <2> DEFINE a == After(s, c, NULL)
  <2> HIDE DEF r, w, nx, a
  <2>7. /\ w \in [Cpu -> [Bucket -> Seq(Callout)]]
        /\ w[g][b] = r
        /\ \A p \in Cpu, e \in Bucket : p # g \/ e # b => w[p][e] = wheel[p][e]
    BY <1>1, <2>1, <2>3, <2>4
  <2>8. a \in Callout \cup {NULL}
    BY <2>6 DEF a
  <2>9. /\ nx \in [Cpu -> Callout \cup {NULL}]
        /\ \A p \in Cpu : p # g \/ next[p] # c => nx[p] = next[p]
        /\ next[g] = c => nx[g] = a
    BY <1>1, <2>1, <2>5, <2>8 DEF a
  <2>10. ASSUME NEW p \in Cpu, NEW e \in Bucket PROVE BucketOK(p, e, w, {c})
    <3>1. BucketOK(p, e, wheel, {})
      BY <1>1
    <3>2. CASE p = g /\ e = b
      <4> HIDE DEF g, b
      <4>1. \A x \in Callout : In(x, s) <=> OnWheel(x, p, e)
        BY <3>1, <3>2 DEF BucketOK
      <4> QED BY <3>2, <4>1, <2>3, <2>7 DEF BucketOK
    <3>3. CASE p # g \/ e # b
      <4>1. w[p][e] = wheel[p][e]
        BY <3>3, <2>7
      <4>2. ~OnWheel(c, p, e)
        BY <3>3 DEF OnWheel
      <4> QED BY <3>1, <4>1, <4>2 DEF BucketOK
    <3> QED BY <3>2, <3>3
  <2>11. ASSUME NEW p \in Cpu PROVE ScanOK(p, w, nx)
    <3> DEFINE sb == softticks[p] % WheelSize
    <3>1. ScanOK(p, wheel, next) /\ sb \in Bucket
      BY <1>1
    <3>2. CASE p # g \/ sb # b
      <4>1. w[p][sb] = wheel[p][sb]
        BY <3>2, <3>1, <2>7
      <4>2. next[p] = c => p = g /\ sb = b
        <5>1. ASSUME next[p] = c PROVE OnWheel(c, p, sb)
          <6>1. In(c, wheel[p][sb])
            BY <5>1, <1>1, <3>1 DEF ScanOK
          <6> QED BY <6>1, <1>1, <3>1 DEF BucketOK
        <5> QED BY <5>1 DEF OnWheel
      <4>3. nx[p] = next[p]
        BY <4>2, <3>2, <2>9
      <4> HIDE DEF g, b
      <4> QED BY <4>1, <4>3, <3>1 DEF ScanOK
    <3>3. CASE p = g /\ sb = b
      <4>1. wheel[p][sb] = s /\ w[p][sb] = r
        BY <3>3, <2>7
      <4> HIDE DEF g, b, s, sb
      <4>2. /\ next[p] # NULL => Scanning(p) /\ In(next[p], s)
            /\ Scanning(p) =>
                 \A d \in Callout :
                   In(d, s) /\ c_time[d] = softticks[p] =>
                     next[p] # NULL /\ Before(s, next[p], d)
        BY <3>1, <4>1 DEF ScanOK, sb
      <4>3. nx[p] # NULL => Scanning(p) /\ In(nx[p], r)
        <5>1. CASE next[p] = c
          <6>1. nx[p] = a /\ Scanning(p)
            BY <5>1, <3>3, <2>9, <4>2, <1>1
          <6> QED BY <6>1, <2>6, <2>3 DEF a
        <5>2. CASE next[p] # c
          BY <5>2, <2>9, <4>2, <2>3
        <5> QED BY <5>1, <5>2
      <4>4. ASSUME Scanning(p), NEW d \in Callout, In(d, r), c_time[d] = softticks[p]
            PROVE  nx[p] # NULL /\ Before(r, nx[p], d)
        <5>1. In(d, s) /\ d # c
          BY <4>4, <2>3
        <5>2. next[p] # NULL /\ Before(s, next[p], d)
          BY <4>2, <4>4, <5>1
        <5>3. CASE next[p] = c
          <6>1. nx[p] = a
            BY <5>3, <3>3, <2>9
          <6>2. a \in Callout /\ Before(s, a, d)
            BY <5>1, <5>2, <5>3, <2>6 DEF a
          <6>3. a # c
            BY <6>2, <2>6, <1>1 DEF a
          <6>4. Before(r, a, d)
            BY <6>2, <6>3, <5>1, <2>3
          <6> QED BY <6>1, <6>2, <6>4, <1>1
        <5>4. CASE next[p] # c
          BY <5>1, <5>2, <5>4, <2>9, <2>3
        <5> QED BY <5>3, <5>4
      <4> QED BY <4>1, <4>3, <4>4 DEF ScanOK, sb
    <3> QED BY <3>2, <3>3
  <2> QED BY <2>7, <2>9, <2>10, <2>11 DEF Sound, w, nx
<1> QED BY <1>2, <1>3

(* callout_stop() leaves them sound.                                       *)
LEMMA StopWheel ==
  ASSUME Inv, NEW c \in Callout, StopHere(c),
         UNCHANGED <<c_time, c_gd, softticks, pc>>
  PROVE  Sound(wheel, next, {})' /\ NeverMissed'
<1> DEFINE w == StoppedWheel(c)
           nx == StoppedNext(c)
<1>1. wheel' = w /\ next' = nx
  BY DEF StopHere
<1>2. Sound(w, nx, {c})
  BY StoppedSound
<1>3. c_flags \in [Callout -> SUBSET {"ACTIVE", "PENDING", "DID_INIT"}]
  BY DEF Inv, TypeOK
<1>4. \A d \in Callout : "PENDING" \in c_flags'[d] <=> "PENDING" \in c_flags[d] /\ d # c
  BY <1>3 DEF StopHere, StoppedFlags
<1> HIDE DEF w, nx
<1>5. ASSUME NEW p \in Cpu, NEW b \in Bucket PROVE BucketOK(p, b, wheel, {})'
  <2>1. BucketOK(p, b, w, {c})
    BY <1>2 DEF Sound
  <2> QED BY <1>1, <1>4, <2>1 DEF BucketOK, OnWheel
<1>6. ASSUME NEW p \in Cpu PROVE ScanOK(p, wheel, next)'
  <2>1. ScanOK(p, w, nx)
    BY <1>2 DEF Sound
  <2> QED BY <1>1, <2>1 DEF ScanOK, Scanning
<1>7. NeverMissed'
  BY <1>4 DEF Inv, NeverMissed
<1> QED BY <1>1, <1>2, <1>5, <1>6, <1>7 DEF Sound

(* The tail of callout_reset() puts the callout where the scan has not     *)
(* been.                                                                   *)
LEMMA ArmWheel ==
  ASSUME Inv, NEW c \in Callout, NEW p \in Cpu, NEW n \in 0 .. MaxTicks,
         NEW w, Sound(w, next', {c}), Arm(p, c, n, w),
         UNCHANGED <<softticks, curticks, pc>>
  PROVE  /\ Sound(wheel, next, {})' /\ NeverMissed'
         /\ c_time' \in [Callout -> Tick] /\ c_gd' \in [Callout -> Cpu \cup {NULL}]
<1> DEFINE m == IF n <= 0 THEN 1 ELSE n
           t == Plus(curticks[p], m)
           b == t % WheelSize
           s == w[p][b]
           r == Append(s, c)
<1>1. /\ c_flags \in [Callout -> SUBSET {"ACTIVE", "PENDING", "DID_INIT"}]
      /\ c_time \in [Callout -> Tick]
      /\ c_gd \in [Callout -> Cpu \cup {NULL}]
      /\ softticks[p] \in Tick /\ curticks[p] \in Tick
      /\ Lag(p) <= MaxLag + 1 /\ (Scanning(p) => Lag(p) # 0)
      /\ \A q \in Cpu : softticks[q] % WheelSize \in Bucket
  BY BucketIs DEF Inv, TypeOK, ClockOK
<1>2. MaxTicks \in Nat /\ MaxLag \in Nat /\ m \in 1 .. MaxTicks
  BY TickAssumption
<1>3. /\ c_flags' = [c_flags EXCEPT ![c] = @ \cup {"ACTIVE", "PENDING"}]
      /\ c_time' = [c_time EXCEPT ![c] = t]
      /\ c_gd' = [c_gd EXCEPT ![c] = p]
      /\ wheel' = [w EXCEPT ![p][b] = r]
  BY DEF Arm
<1> HIDE DEF m
<1>4. Since(softticks[p], Plus(curticks[p], 1)) <= MaxLag + 1
  BY <1>1 DEF Lag
<1>5. t \in Tick /\ Since(softticks[p], t) = Lag(p) + m - 1
  BY <1>1, <1>2, <1>4, Timeout DEF Lag
<1>6. b \in Bucket
  BY <1>5, BucketIs
<1> HIDE DEF t
<1>7. Lag(p) \in Tick
  <2>1. Plus(curticks[p], 1) \in Tick
    BY <1>1, Distances
  <2> QED BY <1>1, <2>1, SinceIs DEF Lag
<1>8. Scanning(p) => t # softticks[p]
  <2>1. ASSUME Scanning(p) PROVE Since(softticks[p], t) # 0
    BY <2>1, <1>1, <1>2, <1>5, <1>7 DEF Tick
  <2> QED BY <2>1, <1>1, <1>5, Distances
<1>9. Since(softticks[p], t) <= MaxTicks + MaxLag
  BY <1>1, <1>2, <1>5, <1>7 DEF Tick
<1> HIDE DEF b
<1>10. BucketOK(p, b, w, {c}) /\ w \in [Cpu -> [Bucket -> Seq(Callout)]]
  BY <1>6 DEF Sound
<1>11. s \in Seq(Callout) /\ Distinct(s) /\ ~In(c, s)
  BY <1>10, <1>6 DEF BucketOK
<1>12. /\ r \in Seq(Callout) /\ Distinct(r)
       /\ \A x : In(x, r) <=> In(x, s) \/ x = c
       /\ \A x, y : Before(s, x, y) => Before(r, x, y)
  <2> HIDE DEF s
  <2> QED BY <1>11, AppendQueue
<1> HIDE DEF r
<1>13. /\ wheel' \in [Cpu -> [Bucket -> Seq(Callout)]]
       /\ wheel'[p][b] = r
       /\ \A q \in Cpu, e \in Bucket : q # p \/ e # b => wheel'[q][e] = w[q][e]
  BY <1>3, <1>6, <1>10, <1>12
<1>14. /\ c_time'[c] = t /\ c_gd'[c] = p /\ "PENDING" \in c_flags'[c]
       /\ \A d \in Callout : d # c =>
            /\ c_time'[d] = c_time[d] /\ c_gd'[d] = c_gd[d]
            /\ c_flags'[d] = c_flags[d]
  BY <1>1, <1>3
<1>15. \A q, e : OnWheel(c, q, e)' <=> q = p /\ e = b
  BY <1>14 DEF OnWheel, b
<1>16. \A d \in Callout : \A q, e : d # c => (OnWheel(d, q, e)' <=> OnWheel(d, q, e))
  BY <1>14 DEF OnWheel
<1>17. ASSUME NEW q \in Cpu, NEW e \in Bucket PROVE BucketOK(q, e, wheel, {})'
  <2>1. BucketOK(q, e, w, {c})
    BY DEF Sound
  <2>2. CASE q = p /\ e = b
    <3>1. wheel'[q][e] = r /\ w[q][e] = s
      BY <2>2, <1>13
    <3> QED BY <2>1, <2>2, <3>1, <1>12, <1>15, <1>16 DEF BucketOK
  <2>3. CASE q # p \/ e # b
    <3>1. wheel'[q][e] = w[q][e]
      BY <2>3, <1>13
    <3> QED BY <2>1, <2>3, <3>1, <1>15, <1>16 DEF BucketOK
  <2> QED BY <2>2, <2>3
<1>18. ASSUME NEW q \in Cpu PROVE ScanOK(q, wheel, next)'
  <2> DEFINE sb == softticks[q] % WheelSize
  <2>1. ScanOK(q, w, next') /\ sb \in Bucket /\ BucketOK(q, sb, w, {c})
    BY <1>1 DEF Sound
  <2>2. /\ next'[q] # NULL => Scanning(q) /\ In(next'[q], w[q][sb])
        /\ Scanning(q) =>
             \A d \in Callout :
               In(d, w[q][sb]) /\ c_time[d] = softticks[q] =>
                 next'[q] # NULL /\ Before(w[q][sb], next'[q], d)
        /\ ~In(c, w[q][sb])
    BY <2>1 DEF ScanOK, BucketOK
  <2>3. Scanning(q)' <=> Scanning(q)
    BY DEF Scanning
  <2> DEFINE s1 == wheel'[q][sb]
  <2> SUFFICES /\ next'[q] # NULL => Scanning(q) /\ In(next'[q], s1)
               /\ Scanning(q) =>
                    \A d \in Callout :
                      In(d, s1) /\ c_time'[d] = softticks[q] =>
                        next'[q] # NULL /\ Before(s1, next'[q], d)
    BY <2>3 DEF ScanOK
  <2> HIDE DEF sb
  <2>4. CASE q = p /\ sb = b
    <3>1. s1 = r /\ w[q][sb] = s
      BY <2>4, <1>13
    <3> HIDE DEF s, s1
    <3>2. next'[q] # NULL => Scanning(q) /\ In(next'[q], s1)
      BY <2>2, <3>1, <1>12
    <3>3. ASSUME Scanning(q), NEW d \in Callout, In(d, s1), c_time'[d] = softticks[q]
          PROVE  next'[q] # NULL /\ Before(s1, next'[q], d)
      <4>1. d # c
        BY <3>3, <2>4, <1>8, <1>14
      <4>2. In(d, s) /\ c_time[d] = softticks[q]
        BY <3>1, <3>3, <4>1, <1>12, <1>14
      <4> QED BY <2>2, <3>1, <3>3, <4>2, <1>12
    <3> QED BY <3>2, <3>3
  <2>5. CASE q # p \/ sb # b
    <3>1. s1 = w[q][sb]
      BY <2>1, <2>5, <1>13 DEF sb
    <3> HIDE DEF s1
    <3> QED BY <2>2, <3>1, <1>14
  <2> QED BY <2>4, <2>5
<1>19. NeverMissed'
  <2> SUFFICES ASSUME NEW d \in Callout, "PENDING" \in c_flags'[d]
               PROVE  Since(softticks[c_gd'[d]], c_time'[d]) <= MaxTicks + MaxLag
    BY DEF NeverMissed
  <2>1. CASE d = c
    BY <2>1, <1>9, <1>14
  <2>2. CASE d # c
    BY <2>2, <1>14 DEF Inv, NeverMissed
  <2> QED BY <2>1, <2>2
<1>20. c_time' \in [Callout -> Tick] /\ c_gd' \in [Callout -> Cpu \cup {NULL}]
  BY <1>1, <1>3, <1>5
<1>21. next' \in [Cpu -> Callout \cup {NULL}]
  BY DEF Sound
<1> QED BY <1>13, <1>17, <1>18, <1>19, <1>20, <1>21 DEF Sound

-----------------------------------------------------------------------------
(* The softclock thread.                                                   *)

(* softclock_handler() knows of the MP lock, at every step, whether it has *)
(* or awaits it.                                                           *)
LEMMA MpType ==
  ASSUME mp \in [Cpu -> BOOLEAN], NEW p \in Cpu, MpAfter(p)
  PROVE  mp' \in [Cpu -> BOOLEAN]
<1> DEFINE v == IF pc'[p] = "func" THEN running'[p] \notin MpSafe
                ELSE mp[p] \/ pc'[p] = "mplock"
<1>1. mp' = [mp EXCEPT ![p] = v]
  BY DEF MpAfter
<1>2. v \in BOOLEAN
  OBVIOUS
<1> HIDE DEF v
<1> QED BY <1>1, <1>2

(* What is due on the bucket that p scans comes at c or after it.          *)
DueFrom(p, c) ==
  \A y \in Callout : In(y, BucketOf(p, softticks[p])) /\ c_time[y] = softticks[p]
                       => Before(BucketOf(p, softticks[p]), c, y)

(* Taking c off its bucket passes over nothing that is due.                *)
LEMMA DispatchStep ==
  ASSUME Inv, NEW p \in Cpu, NEW c \in Callout, pc[p] # "off", Lag(p) # 0,
         In(c, BucketOf(p, softticks[p])), DueFrom(p, c),
         Dispatch(p, c), MpAfter(p)
  PROVE  Inv'
<1> DEFINE b == softticks[p] % WheelSize
           s == wheel[p][b]
           r == Without(s, c)
           a == After(s, c, NULL)
<1>1. /\ wheel \in [Cpu -> [Bucket -> Seq(Callout)]]
      /\ next \in [Cpu -> Callout \cup {NULL}]
      /\ \A q \in Cpu, e \in Bucket : BucketOK(q, e, wheel, {})
      /\ \A q \in Cpu : ScanOK(q, wheel, next)
      /\ \A q \in Cpu : softticks[q] % WheelSize \in Bucket
      /\ NULL \notin Callout
  BY BucketIs, CalloutAssumption DEF Inv, TypeOK, Sound
<1>2. TypeOK /\ (\A d \in Callout : FlagsOK(d)) /\ (\A q \in Cpu : ClockOK(q)) /\ NeverMissed
  BY DEF Inv
<1>3. /\ next' = [next EXCEPT ![p] = a]
      /\ wheel' = [wheel EXCEPT ![p][b] = r]
      /\ running' = [running EXCEPT ![p] = c]
      /\ c_flags' = [c_flags EXCEPT ![c] = @ \ {"PENDING"}]
      /\ pc' = [pc EXCEPT ![p] = "func"]
      /\ scan' = [scan EXCEPT ![p] = NULL]
      /\ UNCHANGED <<c_time, c_gd, softticks, curticks, isrunning>>
      /\ UNCHANGED <<op, opcpu, stopcpu, optick>>
  BY DEF Dispatch, clockVars, opVars
<1>4. b \in Bucket /\ s \in Seq(Callout) /\ Distinct(s) /\ In(c, s) /\ OnWheel(c, p, b)
  BY <1>1 DEF BucketOK, BucketOf
<1>5. \A y \in Callout : In(y, s) /\ c_time[y] = softticks[p] => Before(s, c, y)
  BY DEF DueFrom, BucketOf
<1> HIDE DEF b
<1>6. /\ r \in Seq(Callout) /\ Distinct(r)
      /\ \A x : In(x, r) <=> In(x, s) /\ x # c
      /\ \A x, y : Before(s, x, y) /\ x # c /\ y # c => Before(r, x, y)
  <2> HIDE DEF s
  <2> QED BY <1>4, WithoutQueue
<1>7. /\ a = NULL \/ (a \in Callout /\ In(a, s) /\ a # c)
      /\ \A y : Before(s, c, y) /\ y # c => a \in Callout /\ Before(s, a, y)
  <2> HIDE DEF s
  <2> QED BY <1>4, AfterQueue
<1> HIDE DEF r, a
<1>8. /\ wheel' \in [Cpu -> [Bucket -> Seq(Callout)]]
      /\ wheel'[p][b] = r
      /\ \A q \in Cpu, e \in Bucket : q # p \/ e # b => wheel'[q][e] = wheel[q][e]
  BY <1>1, <1>3, <1>4, <1>6
<1>9. /\ next' \in [Cpu -> Callout \cup {NULL}]
      /\ next'[p] = a /\ pc'[p] = "func"
      /\ \A q \in Cpu : q # p => next'[q] = next[q] /\ pc'[q] = pc[q] /\ scan'[q] = scan[q]
  BY <1>1, <1>2, <1>3, <1>7 DEF TypeOK
<1>10. /\ c_flags' \in [Callout -> SUBSET {"ACTIVE", "PENDING", "DID_INIT"}]
       /\ c_flags'[c] = c_flags[c] \ {"PENDING"}
       /\ \A d \in Callout : d # c => c_flags'[d] = c_flags[d]
  BY <1>2, <1>3 DEF TypeOK
<1>11. TypeOK'
  <2>1. mp' \in [Cpu -> BOOLEAN]
    BY <1>2, MpType DEF TypeOK
  <2>2. /\ running' \in [Cpu -> Callout \cup {NULL}]
        /\ scan' \in [Cpu -> Callout \cup {NULL}]
        /\ pc' \in [Cpu -> {"off", "bucket", "mplock", "func"}]
    BY <1>2, <1>3 DEF TypeOK
  <2> QED BY <1>2, <1>3, <1>8, <1>9, <1>10, <2>1, <2>2 DEF TypeOK
<1>12. ASSUME NEW d \in Callout PROVE FlagsOK(d)'
  <2>1. FlagsOK(d)
    BY <1>2
  <2>2. CASE d = c
    BY <2>1, <2>2, <1>3, <1>10 DEF FlagsOK, Quiet, Idle
  <2>3. CASE d # c
    BY <2>1, <2>3, <1>3, <1>10 DEF FlagsOK, Quiet, Idle
  <2> QED BY <2>2, <2>3
<1>13. ASSUME NEW q \in Cpu PROVE ClockOK(q)'
  <2>1. ClockOK(q) /\ Lag(q)' = Lag(q)
    BY <1>2, <1>3 DEF Lag
  <2>2. CASE q = p
    BY <2>1, <2>2, <1>3, <1>9 DEF ClockOK, Scanning
  <2>3. CASE q # p
    BY <2>1, <2>3, <1>3, <1>9 DEF ClockOK, Scanning
  <2> QED BY <2>2, <2>3
<1>14. \A d \in Callout : \A q, e : OnWheel(d, q, e)' <=> OnWheel(d, q, e) /\ d # c
  BY <1>3, <1>10 DEF OnWheel
<1>15. ASSUME NEW q \in Cpu, NEW e \in Bucket PROVE BucketOK(q, e, wheel, {})'
  <2>1. BucketOK(q, e, wheel, {})
    BY <1>1
  <2>2. CASE q = p /\ e = b
    <3>1. wheel'[q][e] = r /\ wheel[q][e] = s
      BY <2>2, <1>8
    <3> QED BY <2>1, <3>1, <1>6, <1>14 DEF BucketOK
  <2>3. CASE q # p \/ e # b
    <3>1. wheel'[q][e] = wheel[q][e]
      BY <2>3, <1>8
    <3>2. ~OnWheel(c, q, e)
      BY <2>3, <1>4 DEF OnWheel
    <3> QED BY <2>1, <3>1, <3>2, <1>14 DEF BucketOK
  <2> QED BY <2>2, <2>3
<1>16. ASSUME NEW q \in Cpu PROVE ScanOK(q, wheel, next)'
  <2>1. CASE q = p
    <3>1. a # NULL => In(a, r)
      BY <1>6, <1>7
    <3>2. ASSUME NEW d \in Callout, In(d, r), c_time[d] = softticks[p]
          PROVE  a # NULL /\ Before(r, a, d)
      <4>1. In(d, s) /\ d # c
        BY <3>2, <1>6
      <4>2. a \in Callout /\ Before(s, a, d)
        BY <3>2, <4>1, <1>5, <1>7
      <4>3. a # NULL /\ a # c
        BY <4>2, <1>1, <1>7
      <4> QED BY <4>1, <4>2, <4>3, <1>6
    <3>3. wheel'[p][softticks'[p] % WheelSize] = r /\ softticks' = softticks /\ c_time' = c_time
      BY <1>3, <1>8 DEF b
    <3>4. Scanning(p)'
      BY <1>9 DEF Scanning
    <3> QED BY <2>1, <3>1, <3>2, <3>3, <3>4, <1>9 DEF ScanOK
  <2>2. CASE q # p
    <3>1. ScanOK(q, wheel, next)
      BY <1>1
    <3>2. wheel'[q][softticks[q] % WheelSize] = wheel[q][softticks[q] % WheelSize]
      BY <2>2, <1>1, <1>8
    <3>3. next'[q] = next[q] /\ (Scanning(q)' <=> Scanning(q)) /\ softticks' = softticks /\ c_time' = c_time
      BY <2>2, <1>3, <1>9 DEF Scanning
    <3> QED BY <3>1, <3>2, <3>3 DEF ScanOK
  <2> QED BY <2>1, <2>2
<1>17. NeverMissed'
  <2>1. \A d \in Callout : "PENDING" \in c_flags'[d] => "PENDING" \in c_flags[d]
    BY <1>10
  <2> QED BY <1>2, <1>3, <2>1 DEF NeverMissed
<1>18. Sound(wheel, next, {})'
  BY <1>8, <1>9, <1>15, <1>16 DEF Sound
<1> QED BY <1>11, <1>12, <1>13, <1>17, <1>18 DEF Inv

(* softticks moves on from a bucket on which nothing is due.               *)
LEMMA PassBucket ==
  ASSUME Inv, NEW p \in Cpu,
         \A c \in Callout : In(c, BucketOf(p, softticks[p])) => c_time[c] # softticks[p],
         softticks' = [softticks EXCEPT ![p] = Plus(@, 1)],
         UNCHANGED <<c_flags, c_time, c_gd>>
  PROVE  softticks' \in [Cpu -> Tick] /\ NeverMissed'
<1>1. /\ softticks \in [Cpu -> Tick] /\ c_time \in [Callout -> Tick]
      /\ \A c \in Callout : "PENDING" \in c_flags[c] => c_gd[c] \in Cpu
      /\ NeverMissed
      /\ MaxTicks \in Nat /\ MaxLag \in Nat
  BY TickAssumption DEF Inv, TypeOK, FlagsOK
<1>2. Plus(softticks[p], 1) \in Tick
  BY <1>1, Distances
<1>3. softticks' \in [Cpu -> Tick]
  BY <1>1, <1>2
<1>4. ASSUME NEW c \in Callout, "PENDING" \in c_flags[c]
      PROVE  Since(softticks'[c_gd[c]], c_time[c]) <= MaxTicks + MaxLag
  <2>1. c_gd[c] \in Cpu /\ c_time[c] \in Tick
        /\ Since(softticks[c_gd[c]], c_time[c]) <= MaxTicks + MaxLag
    BY <1>1, <1>4 DEF NeverMissed
  <2>2. CASE c_gd[c] # p
    BY <2>1, <2>2, <1>1
  <2>3. CASE c_gd[c] = p
    <3> DEFINE d == Since(softticks[p], c_time[c])
    <3>1. c_time[c] # softticks[p]
      <4>1. ASSUME c_time[c] = softticks[p] PROVE FALSE
        <5> DEFINE b == softticks[p] % WheelSize
        <5>1. b \in Bucket
          BY <1>1, BucketIs
        <5>2. OnWheel(c, p, b)
          BY <1>4, <2>3, <4>1 DEF OnWheel
        <5>3. In(c, wheel[p][b])
          BY <5>1, <5>2 DEF Inv, Sound, BucketOK
        <5> QED BY <5>3, <4>1 DEF BucketOf
      <4> QED BY <4>1
    <3>2. softticks[p] \in Tick
      BY <1>1
    <3>3. d # 0 /\ Since(Plus(softticks[p], 1), c_time[c]) = d - 1
      BY <2>1, <3>1, <3>2, Distances
    <3>4. d \in Int /\ d <= MaxTicks + MaxLag
      BY <2>1, <2>3, <3>2, SinceIs DEF Tick
    <3>5. softticks'[p] = Plus(softticks[p], 1)
      BY <1>1
    <3> QED BY <2>3, <3>3, <3>4, <3>5, <1>1
  <2> QED BY <2>2, <2>3
<1> QED BY <1>3, <1>4 DEF NeverMissed

(* The end of a bucket on which nothing is due any more.                   *)
LEMMA EndStep ==
  ASSUME Inv, NEW p \in Cpu, pc[p] # "off", Lag(p) # 0,
         \A c \in Callout : In(c, BucketOf(p, softticks[p])) => c_time[c] # softticks[p],
         next' = [next EXCEPT ![p] = NULL],
         running' = [running EXCEPT ![p] = NULL],
         softticks' = [softticks EXCEPT ![p] = Plus(@, 1)],
         pc' = [pc EXCEPT ![p] = "bucket"],
         scan' = [scan EXCEPT ![p] = NULL],
         UNCHANGED <<calloutVars, wheel, curticks, isrunning, opVars>>, MpAfter(p)
  PROVE  Inv'
<1>1. TypeOK /\ (\A d \in Callout : FlagsOK(d)) /\ (\A q \in Cpu : ClockOK(q))
      /\ Sound(wheel, next, {})
  BY DEF Inv
<1>2. /\ UNCHANGED <<c_flags, c_time, c_gd>>
      /\ UNCHANGED <<op, opcpu, stopcpu, optick>>
      /\ UNCHANGED <<wheel, curticks, isrunning>>
  BY DEF calloutVars, opVars
<1>3. softticks' \in [Cpu -> Tick] /\ NeverMissed'
  BY <1>2, PassBucket
<1>4. TypeOK'
  <2>1. mp' \in [Cpu -> BOOLEAN]
    BY <1>1, MpType DEF TypeOK
  <2> QED BY <1>1, <1>2, <1>3, <2>1 DEF TypeOK
<1>5. ASSUME NEW d \in Callout PROVE FlagsOK(d)'
  BY <1>1, <1>2 DEF FlagsOK, Quiet, Idle
<1>6. /\ pc'[p] = "bucket" /\ next'[p] = NULL
      /\ softticks'[p] = Plus(softticks[p], 1)
      /\ \A q \in Cpu : q # p => /\ pc'[q] = pc[q] /\ next'[q] = next[q]
                                 /\ scan'[q] = scan[q] /\ softticks'[q] = softticks[q]
  BY <1>1 DEF TypeOK
<1>7. ASSUME NEW q \in Cpu PROVE ClockOK(q)'
  <2>1. ClockOK(q)
    BY <1>1
  <2>2. CASE q # p
    BY <2>1, <2>2, <1>2, <1>6 DEF ClockOK, Scanning, Lag
  <2>3. CASE q = p
    <3> DEFINE u == Plus(curticks[p], 1)
    <3>1. softticks[p] \in Tick /\ curticks[p] \in Tick
      BY <1>1 DEF TypeOK
    <3>2. u \in Tick /\ Lag(p) = Since(softticks[p], u)
      BY <3>1, Distances DEF Lag
    <3>3. Lag(p)' = Since(Plus(softticks[p], 1), u)
      BY <1>2, <1>6 DEF Lag
    <3> HIDE DEF u
    <3>4. Lag(p)' = Lag(p) - 1 /\ Lag(p) \in Tick
      BY <3>1, <3>2, <3>3, Distances, SinceIs
    <3>5. Lag(p)' <= MaxLag + 1
      BY <2>1, <2>3, <3>4, TickAssumption DEF ClockOK, Tick
    <3>6. isrunning'[p] /\ pc'[p] = "bucket" /\ ~Scanning(p)'
      BY <2>1, <2>3, <1>2, <1>6 DEF ClockOK, Scanning
    <3> QED BY <2>3, <3>5, <3>6 DEF ClockOK
  <2> QED BY <2>2, <2>3
<1>8. ASSUME NEW q \in Cpu PROVE ScanOK(q, wheel, next)'
  <2>1. CASE q # p
    <3>1. ScanOK(q, wheel, next)
      BY <1>1 DEF Sound
    <3> QED BY <2>1, <3>1, <1>2, <1>6 DEF ScanOK, Scanning
  <2>2. CASE q = p
    BY <2>2, <1>6 DEF ScanOK, Scanning
  <2> QED BY <2>1, <2>2
<1>9. ASSUME NEW q \in Cpu, NEW e \in Bucket PROVE BucketOK(q, e, wheel, {})'
  <2>1. BucketOK(q, e, wheel, {})
    BY <1>1 DEF Sound
  <2> QED BY <2>1, <1>2 DEF BucketOK, OnWheel
<1>10. Sound(wheel, next, {})'
  BY <1>4, <1>8, <1>9 DEF Sound, TypeOK
<1> QED BY <1>3, <1>4, <1>5, <1>7, <1>10 DEF Inv

(* The wait for the MP lock begins; c stays on the wheel.                  *)
LEMMA MplockStep ==
  ASSUME Inv, NEW p \in Cpu, NEW c \in Callout, pc[p] # "off", Lag(p) # 0,
         In(c, BucketOf(p, softticks[p])), DueFrom(p, c),
         next' = [next EXCEPT ![p] = c],
         scan' = [scan EXCEPT ![p] = c],
         running' = [running EXCEPT ![p] = NULL],
         pc' = [pc EXCEPT ![p] = "mplock"],
         UNCHANGED <<calloutVars, wheel, clockVars, opVars>>, MpAfter(p)
  PROVE  Inv'
<1>1. TypeOK /\ (\A d \in Callout : FlagsOK(d)) /\ (\A q \in Cpu : ClockOK(q))
      /\ Sound(wheel, next, {}) /\ NeverMissed
  BY DEF Inv
<1>2. /\ UNCHANGED <<c_flags, c_time, c_gd>>
      /\ UNCHANGED <<op, opcpu, stopcpu, optick>>
      /\ UNCHANGED <<wheel, softticks, curticks, isrunning>>
  BY DEF calloutVars, clockVars, opVars
<1>3. TypeOK'
  <2>1. mp' \in [Cpu -> BOOLEAN]
    BY <1>1, MpType DEF TypeOK
  <2> QED BY <1>1, <1>2, <2>1 DEF TypeOK
<1>4. ASSUME NEW d \in Callout PROVE FlagsOK(d)'
  BY <1>1, <1>2 DEF FlagsOK, Quiet, Idle
<1>5. /\ pc'[p] = "mplock" /\ next'[p] = c /\ scan'[p] = c
      /\ \A q \in Cpu : q # p => /\ pc'[q] = pc[q] /\ next'[q] = next[q]
                                 /\ scan'[q] = scan[q]
  BY <1>1 DEF TypeOK
<1>6. ASSUME NEW q \in Cpu PROVE ClockOK(q)'
  <2>1. ClockOK(q) /\ Lag(q)' = Lag(q)
    BY <1>1, <1>2 DEF Lag
  <2>2. CASE q # p
    BY <2>1, <2>2, <1>2, <1>5 DEF ClockOK, Scanning
  <2>3. CASE q = p
    BY <2>1, <2>3, <1>2, <1>5 DEF ClockOK, Scanning
  <2> QED BY <2>2, <2>3
<1>7. ASSUME NEW q \in Cpu PROVE ScanOK(q, wheel, next)'
  <2>1. CASE q # p
    <3>1. ScanOK(q, wheel, next)
      BY <1>1 DEF Sound
    <3> QED BY <2>1, <3>1, <1>2, <1>5 DEF ScanOK, Scanning
  <2>2. CASE q = p
    <3>1. c # NULL
      BY CalloutAssumption
    <3> QED BY <2>2, <3>1, <1>2, <1>5 DEF ScanOK, Scanning, DueFrom, BucketOf
  <2> QED BY <2>1, <2>2
<1>8. ASSUME NEW q \in Cpu, NEW e \in Bucket PROVE BucketOK(q, e, wheel, {})'
  <2>1. BucketOK(q, e, wheel, {})
    BY <1>1 DEF Sound
  <2> QED BY <2>1, <1>2 DEF BucketOK, OnWheel
<1>9. Sound(wheel, next, {})' /\ NeverMissed'
  BY <1>1, <1>2, <1>3, <1>7, <1>8 DEF Sound, TypeOK, NeverMissed
<1> QED BY <1>3, <1>4, <1>6, <1>9 DEF Inv

(* The scan goes on with the rest of the bucket.                           *)
LEMMA ScanStep ==
  ASSUME Inv, NEW p \in Cpu, pc[p] # "off", Lag(p) # 0,
         NEW rest \in Seq(Callout),
         \A y : In(y, rest) => In(y, BucketOf(p, softticks[p])),
         \A x, y : Before(rest, x, y) => Before(BucketOf(p, softticks[p]), x, y),
         \A y \in Callout :
           In(y, BucketOf(p, softticks[p])) /\ c_time[y] = softticks[p] => In(y, rest),
         ScanRest(p, rest), MpAfter(p)
  PROVE  Inv'
<1> DEFINE c == FirstDue(p, rest)
<1>1. CASE Due(p, rest) = {}
  <2>1. \A d \in Callout : In(d, BucketOf(p, softticks[p])) => c_time[d] # softticks[p]
    BY <1>1, NothingDue
  <2>2. /\ next' = [next EXCEPT ![p] = NULL]
        /\ running' = [running EXCEPT ![p] = NULL]
        /\ softticks' = [softticks EXCEPT ![p] = Plus(@, 1)]
        /\ pc' = [pc EXCEPT ![p] = "bucket"]
        /\ scan' = [scan EXCEPT ![p] = NULL]
        /\ UNCHANGED <<calloutVars, wheel, curticks, isrunning, opVars>>
    BY <1>1, Zenon DEF ScanRest, Due
  <2> QED BY <2>1, <2>2, EndStep
<1>2. CASE Due(p, rest) # {}
  <2>1. /\ c \in Callout /\ In(c, rest)
        /\ \A y : In(y, rest) /\ c_time[y] = softticks[p] => Before(rest, c, y)
    BY <1>2, FirstDueIs
  <2>2. In(c, BucketOf(p, softticks[p])) /\ DueFrom(p, c)
    <3> HIDE DEF c
    <3> QED BY <2>1 DEF DueFrom
  <2>3. IF c \in MpSafe \/ mp[p]
        THEN Dispatch(p, c)
        ELSE /\ next' = [next EXCEPT ![p] = c]
             /\ scan' = [scan EXCEPT ![p] = c]
             /\ running' = [running EXCEPT ![p] = NULL]
             /\ pc' = [pc EXCEPT ![p] = "mplock"]
             /\ UNCHANGED <<calloutVars, wheel, clockVars, opVars>>
    BY <1>2, Zenon DEF ScanRest, Due, FirstDue
  <2> HIDE DEF c
  <2>4. CASE c \in MpSafe \/ mp[p]
    <3>1. Dispatch(p, c)
      BY <2>3, <2>4, Zenon
    <3> QED BY <2>1, <2>2, <3>1, DispatchStep
  <2>5. CASE ~(c \in MpSafe \/ mp[p])
    <3>1. /\ next' = [next EXCEPT ![p] = c]
          /\ scan' = [scan EXCEPT ![p] = c]
          /\ running' = [running EXCEPT ![p] = NULL]
          /\ pc' = [pc EXCEPT ![p] = "mplock"]
          /\ UNCHANGED <<calloutVars, wheel, clockVars, opVars>>
      BY <2>3, <2>5, Zenon
    <3> QED BY <2>1, <2>2, <3>1, MplockStep
  <2> QED BY <2>4, <2>5
<1> QED BY <1>1, <1>2

(* The rest of the bucket from sc->next on has all that is due.            *)
LEMMA ScanFrom ==
  ASSUME Inv, NEW p \in Cpu, Scanning(p),
         ScanRest(p, From(BucketOf(p, softticks[p]), next[p])), MpAfter(p)
  PROVE  Inv'
<1> DEFINE s == BucketOf(p, softticks[p])
           rest == From(s, next[p])
<1>1. /\ softticks[p] % WheelSize \in Bucket
      /\ next[p] \in Callout \cup {NULL} /\ NULL \notin Callout
      /\ wheel \in [Cpu -> [Bucket -> Seq(Callout)]]
      /\ ScanOK(p, wheel, next)
      /\ \A e \in Bucket : BucketOK(p, e, wheel, {})
  BY BucketIs, CalloutAssumption DEF Inv, TypeOK, Sound
<1>2. s \in Seq(Callout) /\ Distinct(s)
  BY <1>1 DEF BucketOK, BucketOf
<1>3. /\ next[p] # NULL => In(next[p], s)
      /\ \A d \in Callout : In(d, s) /\ c_time[d] = softticks[p] =>
           next[p] # NULL /\ Before(s, next[p], d)
  BY <1>1 DEF ScanOK, BucketOf
<1>4. pc[p] # "off" /\ Lag(p) # 0
  BY DEF Inv, ClockOK, Scanning
<1> HIDE DEF s
<1>5. CASE next[p] = NULL
  <2>1. rest = <<>>
    BY <1>5 DEF From
  <2>2. rest \in Seq(Callout) /\ Len(rest) = 0
    BY <2>1
  <2>3. \A y : ~In(y, rest)
    BY <2>2 DEF In
  <2>4. \A x, y : ~Before(rest, x, y)
    BY <2>2 DEF Before
  <2>5. \A y \in Callout : In(y, s) /\ c_time[y] = softticks[p] => In(y, rest)
    BY <1>3, <1>5
  <2> HIDE DEF rest
  <2> QED BY <2>2, <2>3, <2>4, <2>5, <1>4, ScanStep DEF rest, s
<1>6. CASE next[p] # NULL
  <2>1. next[p] \in Callout /\ In(next[p], s)
    BY <1>1, <1>3, <1>6
  <2>2. /\ rest \in Seq(Callout)
        /\ \A y : In(y, rest) => In(y, s)
        /\ \A y : Before(s, next[p], y) => In(y, rest)
        /\ \A x, y : Before(rest, x, y) => Before(s, x, y)
    BY <2>1, <1>2, FromQueue
  <2>3. \A y \in Callout : In(y, s) /\ c_time[y] = softticks[p] => In(y, rest)
    BY <1>3, <2>2
  <2> HIDE DEF rest
  <2> QED BY <2>2, <2>3, <1>4, ScanStep DEF rest, s
<1> QED BY <1>5, <1>6

(* A callback returns and softclock_handler() goes on from sc->next on.    *)
LEMMA StepFuncDone ==
  ASSUME Inv, NEW p \in Cpu, FuncDone(p)
  PROVE  Inv'
BY ScanFrom DEF FuncDone, Scanning

(* softclock_handler() has the MP lock: the callout it waited with is      *)
(* dispatched only if it is still sc->next.                                *)
LEMMA StepGotMplock ==
  ASSUME Inv, NEW p \in Cpu, GotMplock(p)
  PROVE  Inv'
<1>1. Scanning(p) /\ pc[p] = "mplock" /\ MpAfter(p)
  BY DEF GotMplock, Scanning
<1>2. CASE next[p] = scan[p]
  <2>1. Dispatch(p, scan[p])
    BY <1>2, Zenon DEF GotMplock
  <2>2. scan[p] \in Callout /\ scan[p] # NULL /\ Lag(p) # 0
    BY <1>1, CalloutAssumption DEF Inv, ClockOK
  <2>3. ScanOK(p, wheel, next)
    BY DEF Inv, Sound
  <2>4. In(scan[p], BucketOf(p, softticks[p])) /\ DueFrom(p, scan[p])
    BY <1>1, <1>2, <2>2, <2>3 DEF ScanOK, DueFrom, BucketOf
  <2> QED BY <1>1, <2>1, <2>2, <2>4, DispatchStep
<1>3. CASE next[p] # scan[p]
  <2>1. ScanRest(p, From(BucketOf(p, softticks[p]), next[p]))
    BY <1>3, Zenon DEF GotMplock
  <2> QED BY <1>1, <2>1, ScanFrom
<1> QED BY <1>2, <1>3

(* softclock_handler() begins with the bucket of softticks, or leaves.     *)
LEMMA StepHandler ==
  ASSUME Inv, NEW p \in Cpu, softclock_handler(p)
  PROVE  Inv'
<1>1. pc[p] = "bucket"
  BY DEF softclock_handler
<1>2. TypeOK /\ (\A d \in Callout : FlagsOK(d)) /\ (\A q \in Cpu : ClockOK(q))
      /\ Sound(wheel, next, {}) /\ NeverMissed
  BY DEF Inv
<1>3. softticks[p] \in Tick /\ curticks[p] \in Tick /\ Plus(curticks[p], 1) \in Tick
  BY <1>2, Distances DEF TypeOK
<1>4. Lag(p) = 0 <=> softticks[p] = Plus(curticks[p], 1)
  BY <1>3, Distances DEF Lag
<1>5. CASE softticks[p] = Plus(curticks[p], 1)
  <2>1. /\ isrunning' = [isrunning EXCEPT ![p] = FALSE]
        /\ pc' = [pc EXCEPT ![p] = "off"]
        /\ UNCHANGED <<calloutVars, wheel, next, softticks, curticks,
                       running, scan, mp, opVars>>
    BY <1>5, Zenon DEF softclock_handler
  <2>2. /\ UNCHANGED <<c_flags, c_time, c_gd, wheel, next, softticks, curticks>>
        /\ UNCHANGED <<running, scan, mp, op, opcpu, stopcpu, optick>>
    BY <2>1 DEF calloutVars, opVars
  <2>3. TypeOK'
    BY <1>2, <2>1, <2>2 DEF TypeOK
  <2>4. /\ pc'[p] = "off" /\ ~isrunning'[p]
        /\ \A q \in Cpu : q # p => pc'[q] = pc[q] /\ isrunning'[q] = isrunning[q]
    BY <1>2, <2>1 DEF TypeOK
  <2>5. ASSUME NEW d \in Callout PROVE FlagsOK(d)'
    BY <1>2, <2>2 DEF FlagsOK, Quiet, Idle
  <2>6. ASSUME NEW q \in Cpu PROVE ClockOK(q)'
    <3>1. ClockOK(q) /\ Lag(q)' = Lag(q)
      BY <1>2, <2>2 DEF Lag
    <3>2. CASE q # p
      BY <3>1, <3>2, <2>2, <2>4 DEF ClockOK, Scanning
    <3>3. CASE q = p
      <4>1. Lag(p)' = 0
        BY <1>4, <1>5, <3>1, <3>3
      <4> QED BY <3>1, <3>3, <2>4, <4>1, TickAssumption DEF ClockOK, Scanning
    <3> QED BY <3>2, <3>3
  <2>7. ASSUME NEW q \in Cpu PROVE ScanOK(q, wheel, next)'
    <3>1. ScanOK(q, wheel, next)
      BY <1>2 DEF Sound
    <3>2. Scanning(q)' <=> Scanning(q)
      BY <1>1, <2>4 DEF Scanning
    <3> QED BY <3>1, <3>2, <2>2 DEF ScanOK
  <2>8. ASSUME NEW q \in Cpu, NEW e \in Bucket PROVE BucketOK(q, e, wheel, {})'
    <3>1. BucketOK(q, e, wheel, {})
      BY <1>2 DEF Sound
    <3> QED BY <3>1, <2>2 DEF BucketOK, OnWheel
  <2>9. Sound(wheel, next, {})' /\ NeverMissed'
    BY <1>2, <2>2, <2>3, <2>7, <2>8 DEF Sound, TypeOK, NeverMissed
  <2> QED BY <2>3, <2>5, <2>6, <2>9 DEF Inv
<1>6. CASE softticks[p] # Plus(curticks[p], 1)
  <2> DEFINE s == BucketOf(p, softticks[p])
  <2>1. ScanRest(p, s) /\ MpAfter(p)
    BY <1>6, Zenon DEF softclock_handler
  <2>2. s \in Seq(Callout)
    BY <1>2, <1>3, BucketIs DEF TypeOK, BucketOf
  <2> QED BY <1>1, <1>4, <1>6, <2>1, <2>2, ScanStep
<1> QED BY <1>5, <1>6

-----------------------------------------------------------------------------
(* The clock interrupt.                                                    *)

(* hardclock_softtick() advances the clock, and softticks with it when the *)
(* bucket of the tick is empty and no scan is behind.                      *)
LEMMA StepHardclock ==
  ASSUME Inv, NEW p \in Cpu, hardclock_softtick(p)
  PROVE  Inv'
<1> DEFINE now == Plus(curticks[p], 1)
<1>1. TypeOK /\ (\A d \in Callout : FlagsOK(d)) /\ (\A q \in Cpu : ClockOK(q))
      /\ Sound(wheel, next, {}) /\ NeverMissed
  BY DEF Inv
<1>2. /\ isrunning[p] => Since(softticks[p], now) <= MaxLag
      /\ curticks' = [curticks EXCEPT ![p] = now]
      /\ UNCHANGED <<c_flags, c_time, c_gd, wheel, next, running, scan, mp>>
      /\ UNCHANGED <<op, opcpu, stopcpu, optick>>
  BY DEF hardclock_softtick, calloutVars, opVars
<1>3. softticks[p] \in Tick /\ curticks[p] \in Tick /\ now \in Tick
  BY <1>1, Distances DEF TypeOK
<1>4. Lag(p) = Since(softticks[p], now) /\ Lag(p) \in Tick
  BY <1>3, SinceIs DEF Lag
<1>5. curticks' \in [Cpu -> Tick] /\ curticks'[p] = now
      /\ \A q \in Cpu : q # p => curticks'[q] = curticks[q]
  BY <1>1, <1>2, <1>3 DEF TypeOK
<1>6. ASSUME NEW d \in Callout PROVE FlagsOK(d)'
  BY <1>1, <1>2 DEF FlagsOK, Quiet, Idle
<1>7. ASSUME NEW q \in Cpu, NEW e \in Bucket PROVE BucketOK(q, e, wheel, {})'
  <2>1. BucketOK(q, e, wheel, {})
    BY <1>1 DEF Sound
  <2> QED BY <2>1, <1>2 DEF BucketOK, OnWheel
<1>8. MaxLag \in Nat \ {0} /\ MaxTicks \in Nat /\ MaxTicks + MaxLag + 1 < TickRange /\ TickRange \in Nat
  BY TickAssumption
<1> HIDE DEF now
<1>9. CASE isrunning[p]
  <2>1. UNCHANGED <<softticks, isrunning, pc>>
    BY <1>9, Zenon DEF hardclock_softtick, now
  <2>2. TypeOK'
    BY <1>1, <1>2, <1>5, <2>1 DEF TypeOK
  <2>3. ASSUME NEW q \in Cpu PROVE ClockOK(q)'
    <3>1. ClockOK(q)
      BY <1>1
    <3>2. CASE q # p
      BY <3>1, <3>2, <1>2, <1>5, <2>1 DEF ClockOK, Scanning, Lag
    <3>3. CASE q = p
      <4>1. Since(softticks[p], now) < TickRange - 1
        BY <1>2, <1>4, <1>8, <1>9 DEF Tick
      <4>2. Since(softticks[p], Plus(now, 1)) = Lag(p) + 1
        BY <4>1, <1>3, <1>4, Distances
      <4>3. Lag(p)' = Lag(p) + 1
        BY <4>2, <1>5, <2>1 DEF Lag
      <4>4. Lag(p)' <= MaxLag + 1 /\ Lag(p)' # 0
        BY <4>3, <1>2, <1>4, <1>8, <1>9 DEF Tick
      <4>5. pc[p] # "off"
        BY <3>1, <3>3, <1>9 DEF ClockOK
      <4> QED BY <3>1, <3>3, <4>4, <4>5, <1>2, <1>9, <2>1 DEF ClockOK, Scanning
    <3> QED BY <3>2, <3>3
  <2>4. ASSUME NEW q \in Cpu PROVE ScanOK(q, wheel, next)'
    <3>1. ScanOK(q, wheel, next)
      BY <1>1 DEF Sound
    <3> QED BY <3>1, <1>2, <2>1 DEF ScanOK, Scanning
  <2>5. Sound(wheel, next, {})' /\ NeverMissed'
    BY <1>1, <1>2, <1>7, <2>1, <2>2, <2>4 DEF Sound, TypeOK, NeverMissed
  <2> QED BY <1>6, <2>2, <2>3, <2>5 DEF Inv
<1>10. CASE ~isrunning[p] /\ softticks[p] = now /\ BucketOf(p, now) = <<>>
  <2>1. /\ softticks' = [softticks EXCEPT ![p] = Plus(@, 1)]
        /\ UNCHANGED <<isrunning, pc>>
    BY <1>10, Zenon DEF hardclock_softtick, now
  <2>2. \A c : ~In(c, BucketOf(p, softticks[p]))
    <3>1. Len(BucketOf(p, softticks[p])) = 0
      BY <1>10
    <3> QED BY <3>1 DEF In
  <2>3. softticks' \in [Cpu -> Tick] /\ NeverMissed'
    BY <1>2, <2>1, <2>2, PassBucket
  <2>4. /\ softticks'[p] = Plus(now, 1)
        /\ \A q \in Cpu : q # p => softticks'[q] = softticks[q]
    BY <1>1, <1>10, <2>1 DEF TypeOK
  <2>5. TypeOK'
    BY <1>1, <1>2, <1>5, <2>1, <2>3 DEF TypeOK
  <2>6. ~Scanning(p) /\ next[p] = NULL /\ pc[p] = "off"
    <3>1. pc[p] = "off"
      BY <1>1, <1>10 DEF ClockOK
    <3>2. ScanOK(p, wheel, next)
      BY <1>1 DEF Sound
    <3> QED BY <3>1, <3>2 DEF Scanning, ScanOK
  <2>7. ASSUME NEW q \in Cpu PROVE ClockOK(q)'
    <3>1. ClockOK(q)
      BY <1>1
    <3>2. CASE q # p
      BY <3>1, <3>2, <1>2, <1>5, <2>1, <2>4 DEF ClockOK, Scanning, Lag
    <3>3. CASE q = p
      <4>1. Plus(now, 1) \in Tick
        BY <1>3, Distances
      <4>2. Lag(p)' = 0
        BY <4>1, <1>5, <2>4, Distances DEF Lag
      <4> QED BY <3>3, <4>2, <1>8, <1>10, <2>1, <2>6 DEF ClockOK, Scanning
    <3> QED BY <3>2, <3>3
  <2>8. ASSUME NEW q \in Cpu PROVE ScanOK(q, wheel, next)'
    <3>1. ScanOK(q, wheel, next)
      BY <1>1 DEF Sound
    <3>2. CASE q # p
      BY <3>1, <3>2, <1>2, <2>1, <2>4 DEF ScanOK, Scanning
    <3>3. CASE q = p
      BY <3>3, <1>2, <2>1, <2>6 DEF ScanOK, Scanning
    <3> QED BY <3>2, <3>3
  <2>9. Sound(wheel, next, {})'
    BY <1>7, <2>5, <2>8 DEF Sound, TypeOK
  <2> QED BY <1>6, <2>3, <2>5, <2>7, <2>9 DEF Inv
<1>11. CASE ~isrunning[p] /\ ~(softticks[p] = now /\ BucketOf(p, now) = <<>>)
  <2>1. /\ isrunning' = [isrunning EXCEPT ![p] = TRUE]
        /\ pc' = [pc EXCEPT ![p] = "bucket"]
        /\ UNCHANGED softticks
    BY <1>11, Zenon DEF hardclock_softtick, now
  <2>2. TypeOK'
    BY <1>1, <1>2, <1>5, <2>1 DEF TypeOK
  <2>3. /\ pc'[p] = "bucket" /\ isrunning'[p]
        /\ \A q \in Cpu : q # p => pc'[q] = pc[q] /\ isrunning'[q] = isrunning[q]
    BY <1>1, <2>1 DEF TypeOK
  <2>4. pc[p] = "off" /\ ~Scanning(p)
    BY <1>1, <1>11 DEF ClockOK, Scanning
  <2>5. ASSUME NEW q \in Cpu PROVE ClockOK(q)'
    <3>1. ClockOK(q)
      BY <1>1
    <3>2. CASE q # p
      BY <3>1, <3>2, <1>2, <1>5, <2>1, <2>3 DEF ClockOK, Scanning, Lag
    <3>3. CASE q = p
      <4>1. Lag(p) <= 1
        BY <3>1, <3>3, <2>4 DEF ClockOK
      <4>2. Since(softticks[p], now) < TickRange - 1
        BY <4>1, <1>4, <1>8 DEF Tick
      <4>3. Since(softticks[p], Plus(now, 1)) = Lag(p) + 1
        BY <4>2, <1>3, <1>4, Distances
      <4>4. Lag(p)' = Lag(p) + 1
        BY <4>3, <1>5, <2>1 DEF Lag
      <4>5. Lag(p)' <= MaxLag + 1
        BY <4>1, <4>4, <1>4, <1>8 DEF Tick
      <4> QED BY <3>3, <4>5, <2>3 DEF ClockOK, Scanning
    <3> QED BY <3>2, <3>3
  <2>6. ASSUME NEW q \in Cpu PROVE ScanOK(q, wheel, next)'
    <3>1. ScanOK(q, wheel, next)
      BY <1>1 DEF Sound
    <3>2. Scanning(q)' <=> Scanning(q)
      BY <2>3, <2>4 DEF Scanning
    <3> QED BY <3>1, <3>2, <1>2, <2>1 DEF ScanOK
  <2>7. Sound(wheel, next, {})' /\ NeverMissed'
    BY <1>1, <1>2, <1>7, <2>1, <2>2, <2>6 DEF Sound, TypeOK, NeverMissed
  <2> QED BY <1>6, <2>2, <2>5, <2>7 DEF Inv
<1> QED BY <1>9, <1>10, <1>11

-----------------------------------------------------------------------------
(* The calls.                                                              *)

Calls == {"reset", "stop", "stop_sync", "terminate"}

(* The states of a call and which of them have which steps.                *)
LEMMA OpStates ==
  /\ <<"none", "idle">> \in OpState /\ <<"terminate", "panic">> \in OpState
  /\ \A call \in Calls : <<call, "ipi">> \in OpState /\ <<call, "stopped">> \in OpState
  /\ \A call \in {"stop_sync", "terminate"} :
       <<call, "wait">> \in OpState /\ <<call, "check">> \in OpState
  /\ \A o \in OpState :
       /\ o[2] \in {"idle", "ipi", "stopped", "wait", "check", "panic"}
       /\ o[2] # "idle" => o[1] \in Calls
       /\ o[2] \in {"wait", "check"} => o[1] \in {"stop_sync", "terminate"}
       /\ o[2] = "idle" => o = <<"none", "idle">>
       /\ o[1] = "none" => o = <<"none", "idle">>
BY DEF OpState, Calls

(* A step of one call leaves the others' callouts alone.                   *)
LEMMA CallInv ==
  ASSUME Inv, NEW c \in Callout, TypeOK', FlagsOK(c)',
         Sound(wheel, next, {})', NeverMissed',
         UNCHANGED <<clockVars, softVars>>,
         \A d \in Callout : d # c =>
           /\ c_flags'[d] = c_flags[d] /\ c_gd'[d] = c_gd[d]
           /\ op'[d] = op[d] /\ opcpu'[d] = opcpu[d]
  PROVE  Inv'
<1>1. ASSUME NEW d \in Callout PROVE FlagsOK(d)'
  <2>1. CASE d = c
    BY <2>1
  <2>2. CASE d # c
    <3>1. FlagsOK(d)
      BY DEF Inv
    <3> QED BY <2>2, <3>1 DEF FlagsOK, Quiet, Idle
  <2> QED BY <2>1, <2>2
<1>2. ASSUME NEW p \in Cpu PROVE ClockOK(p)'
  <2>1. ClockOK(p)
    BY DEF Inv
  <2> QED BY <2>1 DEF ClockOK, Lag, Scanning, clockVars, softVars
<1> QED BY <1>1, <1>2 DEF Inv

(* The wheels stay sound when nothing that is pending changes.             *)
LEMMA SameWheel ==
  ASSUME Inv, UNCHANGED <<wheel, next, softticks, pc>>,
         \A d \in Callout :
           /\ "PENDING" \in c_flags'[d] <=> "PENDING" \in c_flags[d]
           /\ "PENDING" \in c_flags[d] => c_gd'[d] = c_gd[d] /\ c_time'[d] = c_time[d]
  PROVE  Sound(wheel, next, {})' /\ NeverMissed'
<1>1. Sound(wheel, next, {}) /\ NeverMissed
      /\ \A p \in Cpu : softticks[p] % WheelSize \in Bucket
  BY BucketIs DEF Inv, TypeOK
<1>2. ASSUME NEW p \in Cpu, NEW b \in Bucket PROVE BucketOK(p, b, wheel, {})'
  <2>1. BucketOK(p, b, wheel, {})
    BY <1>1 DEF Sound
  <2>2. \A d \in Callout : OnWheel(d, p, b)' <=> OnWheel(d, p, b)
    BY DEF OnWheel
  <2> QED BY <2>1, <2>2 DEF BucketOK
<1>3. ASSUME NEW p \in Cpu PROVE ScanOK(p, wheel, next)'
  <2> DEFINE b == softticks[p] % WheelSize
  <2>1. ScanOK(p, wheel, next) /\ BucketOK(p, b, wheel, {})
    BY <1>1 DEF Sound
  <2>2. \A d \in Callout : In(d, wheel[p][b]) => c_time'[d] = c_time[d]
    BY <2>1 DEF BucketOK, OnWheel
  <2>3. Scanning(p)' <=> Scanning(p)
    BY DEF Scanning
  <2> QED BY <2>1, <2>2, <2>3 DEF ScanOK
<1>4. NeverMissed'
  BY <1>1 DEF NeverMissed
<1> QED BY <1>1, <1>2, <1>3, <1>4 DEF Sound

(* The stop IPI is sent.                                                   *)
LEMMA SendStopInv ==
  ASSUME Inv, NEW p \in Cpu, NEW c \in Callout, NEW call \in Calls,
         NEW n \in 0 .. MaxTicks, "DID_INIT" \in c_flags[c], SendStop(p, c, call, n)
  PROVE  Inv'
<1>1. TypeOK /\ FlagsOK(c)
  BY DEF Inv
<1>2. /\ op' = [op EXCEPT ![c] = <<call, "ipi">>]
      /\ opcpu' = [opcpu EXCEPT ![c] = p]
      /\ stopcpu' = [stopcpu EXCEPT ![c] = c_gd[c]]
      /\ optick' = [optick EXCEPT ![c] = n]
      /\ UNCHANGED <<c_flags, c_time, c_gd, wheel, next>>
      /\ UNCHANGED <<clockVars, softVars>>
  BY DEF SendStop, calloutVars
<1>3. UNCHANGED <<softticks, curticks, isrunning, pc, scan, mp, running>>
  BY <1>2 DEF clockVars, softVars
<1>4. <<call, "ipi">> \in OpState
  BY OpStates
<1>5. TypeOK'
  BY <1>1, <1>2, <1>3, <1>4 DEF TypeOK
<1>6. op'[c] = <<call, "ipi">> /\ opcpu'[c] = p
      /\ \A d \in Callout : d # c => op'[d] = op[d] /\ opcpu'[d] = opcpu[d]
  BY <1>1, <1>2 DEF TypeOK
<1>7. FlagsOK(c)'
  BY <1>1, <1>2, <1>6 DEF FlagsOK, Quiet, Idle
<1>8. Sound(wheel, next, {})' /\ NeverMissed'
  BY <1>2, <1>3, SameWheel
<1> QED BY <1>2, <1>5, <1>6, <1>7, <1>8, CallInv

(* Types and flags of the callout after callout_stop().                    *)
LEMMA StoppedQuiet ==
  ASSUME Inv, NEW c \in Callout, StopHere(c)
  PROVE  /\ c_flags' \in [Callout -> SUBSET {"ACTIVE", "PENDING", "DID_INIT"}]
         /\ "ACTIVE" \notin c_flags'[c] /\ "PENDING" \notin c_flags'[c]
         /\ "DID_INIT" \in c_flags'[c] <=> "DID_INIT" \in c_flags[c]
         /\ \A d \in Callout : d # c => c_flags'[d] = c_flags[d]
         /\ wheel' \in [Cpu -> [Bucket -> Seq(Callout)]]
         /\ next' \in [Cpu -> Callout \cup {NULL}]
<1>1. c_flags \in [Callout -> SUBSET {"ACTIVE", "PENDING", "DID_INIT"}]
  BY DEF Inv, TypeOK
<1>2. Sound(StoppedWheel(c), StoppedNext(c), {c})
  BY StoppedSound
<1> QED BY <1>1, <1>2 DEF StopHere, StoppedFlags, Sound

(* What the end of callout_stop() does to the call.                        *)
LEMMA AfterStopIs ==
  ASSUME TypeOK, NEW p \in Cpu, NEW c \in Callout, NEW call \in Calls,
         AfterStop(p, c, call)
  PROVE  /\ op' \in [Callout -> OpState]
         /\ opcpu' \in [Callout -> Cpu \cup {NULL}]
         /\ stopcpu' \in [Callout -> Cpu \cup {NULL}]
         /\ optick' \in [Callout -> 0 .. MaxTicks]
         /\ \/ /\ call \in {"stop_sync", "terminate"} /\ op'[c] = <<call, "wait">>
               /\ opcpu'[c] = p /\ stopcpu'[c] = c_gd[c]
            \/ call \in {"reset", "stop"} /\ op'[c] = <<"none", "idle">>
         /\ \A d \in Callout : d # c => /\ op'[d] = op[d] /\ opcpu'[d] = opcpu[d]
                                        /\ stopcpu'[d] = stopcpu[d]
<1>1. /\ op \in [Callout -> OpState]
      /\ opcpu \in [Callout -> Cpu \cup {NULL}]
      /\ stopcpu \in [Callout -> Cpu \cup {NULL}]
      /\ optick \in [Callout -> 0 .. MaxTicks]
      /\ c_gd[c] \in Cpu \cup {NULL}
      /\ 0 \in 0 .. MaxTicks
  BY TickAssumption DEF TypeOK
<1>2. CASE call \in {"stop_sync", "terminate"}
  <2>1. /\ op' = [op EXCEPT ![c] = <<call, "wait">>]
        /\ opcpu' = [opcpu EXCEPT ![c] = p]
        /\ stopcpu' = [stopcpu EXCEPT ![c] = c_gd[c]]
        /\ UNCHANGED optick
    BY <1>2, Zenon DEF AfterStop
  <2>2. <<call, "wait">> \in OpState
    BY <1>2, OpStates
  <2> QED BY <1>1, <1>2, <2>1, <2>2
<1>3. CASE call \notin {"stop_sync", "terminate"}
  <2>1. /\ op' = [op EXCEPT ![c] = <<"none", "idle">>]
        /\ opcpu' = [opcpu EXCEPT ![c] = NULL]
        /\ stopcpu' = [stopcpu EXCEPT ![c] = NULL]
        /\ optick' = [optick EXCEPT ![c] = 0]
    BY <1>3, Zenon DEF AfterStop, Return
  <2>2. <<"none", "idle">> \in OpState
    BY OpStates
  <2> QED BY <1>1, <1>3, <2>1, <2>2 DEF Calls
<1> QED BY <1>2, <1>3

(* A call begins with callout_stop(), here or by an IPI to the other cpu.  *)
LEMMA StopInv ==
  ASSUME Inv, NEW p \in Cpu, NEW c \in Callout, NEW call \in Calls,
         "DID_INIT" \in c_flags[c], Stop(p, c, call)
  PROVE  Inv'
<1>1. CASE StopHere(c) /\ AfterStop(p, c, call) /\ UNCHANGED <<c_time, c_gd, clockVars, softVars>>
  <2>1. UNCHANGED <<softticks, curticks, isrunning, pc, scan, mp, running>>
        /\ UNCHANGED <<clockVars, softVars>>
    BY <1>1 DEF clockVars, softVars
  <2>2. Sound(wheel, next, {})' /\ NeverMissed'
    BY <1>1, <2>1, StopWheel
  <2>3. /\ c_flags' \in [Callout -> SUBSET {"ACTIVE", "PENDING", "DID_INIT"}]
        /\ "ACTIVE" \notin c_flags'[c] /\ "PENDING" \notin c_flags'[c]
        /\ "DID_INIT" \in c_flags'[c]
        /\ \A d \in Callout : d # c => c_flags'[d] = c_flags[d]
        /\ wheel' \in [Cpu -> [Bucket -> Seq(Callout)]]
        /\ next' \in [Cpu -> Callout \cup {NULL}]
    BY <1>1, StoppedQuiet
  <2>4. TypeOK
    BY DEF Inv
  <2>5. /\ op' \in [Callout -> OpState]
        /\ opcpu' \in [Callout -> Cpu \cup {NULL}]
        /\ stopcpu' \in [Callout -> Cpu \cup {NULL}]
        /\ optick' \in [Callout -> 0 .. MaxTicks]
        /\ \/ op'[c] = <<call, "wait">> /\ opcpu'[c] = p
           \/ op'[c] = <<"none", "idle">>
        /\ \A d \in Callout : d # c => op'[d] = op[d] /\ opcpu'[d] = opcpu[d]
    BY <1>1, <2>4, AfterStopIs
  <2>6. TypeOK'
    BY <1>1, <2>1, <2>3, <2>4, <2>5 DEF TypeOK
  <2>7. FlagsOK(c)'
    BY <2>3, <2>5 DEF FlagsOK, Quiet, Idle
  <2> QED BY <1>1, <2>1, <2>2, <2>3, <2>5, <2>6, <2>7, CallInv
<1>2. CASE SendStop(p, c, call, 0)
  <2>1. 0 \in 0 .. MaxTicks
    BY TickAssumption
  <2> QED BY <1>2, <2>1, SendStopInv
<1> QED BY <1>1, <1>2 DEF Stop

(* callout_reset() on one cpu, as a stop and the arming that follows it.   *)
LEMMA ResetIsArm ==
  ASSUME Inv, NEW p \in Cpu, NEW c \in Callout, NEW n, ResetHere(p, c, n)
  PROVE  Arm(p, c, n, StoppedWheel(c)) /\ next' = StoppedNext(c)
<1>1. CASE "ACTIVE" \in c_flags[c]
  BY <1>1, Zenon DEF ResetHere
<1>2. CASE "ACTIVE" \notin c_flags[c]
  <2>1. Arm(p, c, n, wheel) /\ next' = next
    BY <1>2, Zenon DEF ResetHere
  <2>2. "PENDING" \notin c_flags[c]
    BY <1>2 DEF Inv, FlagsOK
  <2>3. StoppedWheel(c) = wheel /\ StoppedNext(c) = next
    BY <2>2 DEF StoppedWheel, StoppedNext
  <2> QED BY <2>1, <2>3
<1> QED BY <1>1, <1>2

(* The callout is armed, from the wheels that are sound without it.        *)
LEMMA ArmInv ==
  ASSUME Inv, NEW p \in Cpu, NEW c \in Callout, NEW n \in 0 .. MaxTicks,
         NEW w, Sound(w, next', {c}), Arm(p, c, n, w), "DID_INIT" \in c_flags[c],
         UNCHANGED <<clockVars, softVars>>,
         op' \in [Callout -> OpState],
         opcpu' \in [Callout -> Cpu \cup {NULL}],
         stopcpu' \in [Callout -> Cpu \cup {NULL}],
         optick' \in [Callout -> 0 .. MaxTicks],
         op'[c][2] \in {"idle", "wait"}, op'[c][1] = "terminate" => "rearm" \in Ops,
         op'[c][2] = "wait" => opcpu'[c] \in Cpu,
         \A d \in Callout : d # c => op'[d] = op[d] /\ opcpu'[d] = opcpu[d]
  PROVE  Inv'
<1>1. UNCHANGED <<softticks, curticks, isrunning, pc, scan, mp, running>>
  BY DEF clockVars, softVars
<1>2. /\ Sound(wheel, next, {})' /\ NeverMissed'
      /\ c_time' \in [Callout -> Tick] /\ c_gd' \in [Callout -> Cpu \cup {NULL}]
  BY <1>1, ArmWheel
<1>3. TypeOK
  BY DEF Inv
<1>4. /\ c_flags' = [c_flags EXCEPT ![c] = @ \cup {"ACTIVE", "PENDING"}]
      /\ c_gd' = [c_gd EXCEPT ![c] = p]
  BY DEF Arm
<1>5. /\ c_flags' \in [Callout -> SUBSET {"ACTIVE", "PENDING", "DID_INIT"}]
      /\ "ACTIVE" \in c_flags'[c] /\ "DID_INIT" \in c_flags'[c] /\ c_gd'[c] = p
      /\ \A d \in Callout : d # c => c_flags'[d] = c_flags[d] /\ c_gd'[d] = c_gd[d]
  BY <1>3, <1>4 DEF TypeOK
<1>6. TypeOK'
  BY <1>1, <1>2, <1>3, <1>5 DEF TypeOK, Sound
<1>7. FlagsOK(c)'
  BY <1>5 DEF FlagsOK, Quiet, Idle
<1> QED BY <1>2, <1>5, <1>6, <1>7, CallInv

(* callout_reset() from outside the callback.                              *)
LEMMA StepReset ==
  ASSUME Inv, NEW p \in Cpu, NEW c \in Callout, NEW n \in 0 .. MaxTicks,
         callout_reset(p, c, n)
  PROVE  Inv'
<1>1. Idle(c) /\ "DID_INIT" \in c_flags[c]
  BY DEF callout_reset
<1>2. CASE "ACTIVE" \notin c_flags[c] \/ Local(p, c)
  <2>1. ResetHere(p, c, n) /\ UNCHANGED <<clockVars, softVars, opVars>>
    BY <1>2, Zenon DEF callout_reset
  <2>2. Arm(p, c, n, StoppedWheel(c)) /\ next' = StoppedNext(c)
    BY <2>1, ResetIsArm
  <2>3. Sound(StoppedWheel(c), next', {c})
    BY <2>2, StoppedSound
  <2>4. UNCHANGED <<op, opcpu, stopcpu, optick>> /\ UNCHANGED <<clockVars, softVars>>
    BY <2>1 DEF opVars
  <2>5. /\ op' \in [Callout -> OpState]
        /\ opcpu' \in [Callout -> Cpu \cup {NULL}]
        /\ stopcpu' \in [Callout -> Cpu \cup {NULL}]
        /\ optick' \in [Callout -> 0 .. MaxTicks]
        /\ op'[c][2] = "idle" /\ op'[c][1] # "terminate"
    BY <1>1, <2>4 DEF Inv, TypeOK, Idle
  <2> QED BY <1>1, <2>2, <2>3, <2>4, <2>5, ArmInv
<1>3. CASE ~("ACTIVE" \notin c_flags[c] \/ Local(p, c))
  <2>1. SendStop(p, c, "reset", n)
    BY <1>3, Zenon DEF callout_reset
  <2> QED BY <1>1, <2>1, SendStopInv DEF Calls
<1> QED BY <1>2, <1>3

(* callout_reset() from inside the callback, which is never remote.        *)
LEMMA StepRearm ==
  ASSUME Inv, NEW p \in Cpu, NEW c \in Callout, NEW n \in 0 .. MaxTicks, Rearm(p, c, n)
  PROVE  Inv'
<1>1. /\ "DID_INIT" \in c_flags[c] /\ op[c][2] \in {"idle", "wait"}
      /\ "rearm" \in Ops /\ ResetHere(p, c, n)
      /\ UNCHANGED <<clockVars, softVars>> /\ UNCHANGED <<op, opcpu, stopcpu, optick>>
  BY DEF Rearm, InCallback, Idle, Asleep, opVars
<1>2. Arm(p, c, n, StoppedWheel(c)) /\ next' = StoppedNext(c)
  BY <1>1, ResetIsArm
<1>3. Sound(StoppedWheel(c), next', {c})
  BY <1>2, StoppedSound
<1>4. /\ op' \in [Callout -> OpState]
      /\ opcpu' \in [Callout -> Cpu \cup {NULL}]
      /\ stopcpu' \in [Callout -> Cpu \cup {NULL}]
      /\ optick' \in [Callout -> 0 .. MaxTicks]
      /\ op'[c][2] = "wait" => opcpu'[c] \in Cpu
  BY <1>1 DEF Inv, TypeOK, FlagsOK
<1> QED BY <1>1, <1>2, <1>3, <1>4, ArmInv

(* callout_stop_ipi() on the cpu of the wheel.                             *)
LEMMA StepStopIpi ==
  ASSUME Inv, NEW c \in Callout, StopIpi(c)
  PROVE  Inv'
<1>1. /\ op[c][2] = "ipi" /\ StopHere(c)
      /\ op' = [op EXCEPT ![c] = <<op[c][1], "stopped">>]
      /\ UNCHANGED <<c_time, c_gd, opcpu, stopcpu, optick>>
      /\ UNCHANGED <<clockVars, softVars>>
  BY DEF StopIpi
<1>2. UNCHANGED <<softticks, curticks, isrunning, pc, scan, mp, running>>
  BY <1>1 DEF clockVars, softVars
<1>3. Sound(wheel, next, {})' /\ NeverMissed'
  BY <1>1, <1>2, StopWheel
<1>4. /\ c_flags' \in [Callout -> SUBSET {"ACTIVE", "PENDING", "DID_INIT"}]
      /\ "ACTIVE" \notin c_flags'[c] /\ "PENDING" \notin c_flags'[c]
      /\ "DID_INIT" \in c_flags'[c] <=> "DID_INIT" \in c_flags[c]
      /\ \A d \in Callout : d # c => c_flags'[d] = c_flags[d]
      /\ wheel' \in [Cpu -> [Bucket -> Seq(Callout)]]
      /\ next' \in [Cpu -> Callout \cup {NULL}]
  BY <1>1, StoppedQuiet
<1>5. TypeOK /\ FlagsOK(c)
  BY DEF Inv
<1>6. <<op[c][1], "stopped">> \in OpState
  BY <1>1, <1>5, OpStates DEF TypeOK
<1>7. TypeOK'
  BY <1>1, <1>2, <1>4, <1>5, <1>6 DEF TypeOK
<1>8. /\ op'[c] = <<op[c][1], "stopped">>
      /\ \A d \in Callout : d # c => op'[d] = op[d]
  BY <1>1, <1>5 DEF TypeOK
<1>9. "DID_INIT" \in c_flags[c] /\ opcpu[c] \in Cpu
  BY <1>1, <1>5 DEF FlagsOK, Idle
<1>10. FlagsOK(c)'
  BY <1>1, <1>4, <1>8, <1>9 DEF FlagsOK, Quiet, Idle
<1> QED BY <1>1, <1>3, <1>4, <1>7, <1>8, <1>10, CallInv

(* The call on c returns.                                                  *)
LEMMA ReturnIs ==
  ASSUME TypeOK, NEW c \in Callout, Return(c)
  PROVE  /\ op' \in [Callout -> OpState]
         /\ opcpu' \in [Callout -> Cpu \cup {NULL}]
         /\ stopcpu' \in [Callout -> Cpu \cup {NULL}]
         /\ optick' \in [Callout -> 0 .. MaxTicks]
         /\ op'[c] = <<"none", "idle">>
         /\ \A d \in Callout : d # c => /\ op'[d] = op[d] /\ opcpu'[d] = opcpu[d]
                                        /\ stopcpu'[d] = stopcpu[d]
<1>1. <<"none", "idle">> \in OpState /\ 0 \in 0 .. MaxTicks
  BY OpStates, TickAssumption
<1> QED BY <1>1 DEF Return, TypeOK

(* lwkt_wait_ipiq() is over, and the caller goes on.                       *)
LEMMA StepIpiWaited ==
  ASSUME Inv, NEW c \in Callout, IpiWaited(c)
  PROVE  Inv'
<1>1. TypeOK /\ FlagsOK(c) /\ op[c][2] = "stopped"
  BY DEF Inv, IpiWaited
<1>2. /\ op[c][1] \in Calls /\ Quiet(c) /\ opcpu[c] \in Cpu /\ "DID_INIT" \in c_flags[c]
      /\ optick[c] \in 0 .. MaxTicks
  BY <1>1, OpStates DEF TypeOK, FlagsOK, Idle
<1>3. CASE op[c][1] = "reset"
  <2>1. /\ Arm(opcpu[c], c, optick[c], wheel) /\ Return(c)
        /\ UNCHANGED <<next, clockVars, softVars>>
    BY <1>3, Zenon DEF IpiWaited
  <2>2. /\ op' \in [Callout -> OpState]
        /\ opcpu' \in [Callout -> Cpu \cup {NULL}]
        /\ stopcpu' \in [Callout -> Cpu \cup {NULL}]
        /\ optick' \in [Callout -> 0 .. MaxTicks]
        /\ op'[c] = <<"none", "idle">>
        /\ \A d \in Callout : d # c => op'[d] = op[d] /\ opcpu'[d] = opcpu[d]
    BY <1>1, <2>1, ReturnIs
  <2>3. StoppedWheel(c) = wheel /\ StoppedNext(c) = next
    BY <1>2 DEF StoppedWheel, StoppedNext, Quiet
  <2>4. Sound(wheel, next', {c})
    BY <2>1, <2>3, StoppedSound
  <2>5. op'[c][2] \in {"idle", "wait"} /\ op'[c][1] # "terminate" /\ op'[c][2] # "wait"
        /\ UNCHANGED <<clockVars, softVars>>
    BY <2>1, <2>2
  <2> QED BY <1>2, <2>1, <2>2, <2>4, <2>5, ArmInv
<1>4. CASE op[c][1] # "reset"
  <2>1. /\ AfterStop(opcpu[c], c, op[c][1])
        /\ UNCHANGED <<calloutVars, wheel, next, clockVars, softVars>>
    BY <1>4, Zenon DEF IpiWaited
  <2>2. /\ UNCHANGED <<c_flags, c_time, c_gd, wheel, next>>
        /\ UNCHANGED <<clockVars, softVars>>
        /\ UNCHANGED <<softticks, curticks, isrunning, pc, scan, mp, running>>
    BY <2>1 DEF calloutVars, clockVars, softVars
  <2>3. /\ op' \in [Callout -> OpState]
        /\ opcpu' \in [Callout -> Cpu \cup {NULL}]
        /\ stopcpu' \in [Callout -> Cpu \cup {NULL}]
        /\ optick' \in [Callout -> 0 .. MaxTicks]
        /\ \/ op'[c] = <<op[c][1], "wait">> /\ opcpu'[c] = opcpu[c]
           \/ op'[c] = <<"none", "idle">>
        /\ \A d \in Callout : d # c => op'[d] = op[d] /\ opcpu'[d] = opcpu[d]
    BY <1>1, <1>2, <2>1, AfterStopIs
  <2>4. TypeOK'
    BY <1>1, <2>2, <2>3 DEF TypeOK
  <2>5. FlagsOK(c)'
    BY <1>1, <1>2, <2>2, <2>3 DEF FlagsOK, Quiet, Idle
  <2>6. Sound(wheel, next, {})' /\ NeverMissed'
    BY <2>2, SameWheel
  <2> QED BY <2>2, <2>3, <2>4, <2>5, <2>6, CallInv
<1> QED BY <1>3, <1>4

(* The tsleep() loop of callout_stop_sync() sees the callback gone.        *)
LEMMA StepRaceWaited ==
  ASSUME Inv, NEW c \in Callout, RaceWaited(c)
  PROVE  Inv'
<1>1. /\ op[c][2] = "wait"
      /\ op' = [op EXCEPT ![c] = <<op[c][1], "check">>]
      /\ UNCHANGED <<c_flags, c_time, c_gd, wheel, next, opcpu, stopcpu, optick>>
      /\ UNCHANGED <<clockVars, softVars>>
  BY DEF RaceWaited, calloutVars
<1>2. UNCHANGED <<softticks, curticks, isrunning, pc, scan, mp, running>>
  BY <1>1 DEF clockVars, softVars
<1>3. TypeOK /\ FlagsOK(c)
  BY DEF Inv
<1>4. <<op[c][1], "check">> \in OpState
  BY <1>1, <1>3, OpStates DEF TypeOK
<1>5. TypeOK'
  BY <1>1, <1>2, <1>3, <1>4 DEF TypeOK
<1>6. /\ op'[c] = <<op[c][1], "check">>
      /\ \A d \in Callout : d # c => op'[d] = op[d]
  BY <1>1, <1>3 DEF TypeOK
<1>7. FlagsOK(c)'
  BY <1>1, <1>3, <1>6 DEF FlagsOK, Quiet, Idle
<1>8. Sound(wheel, next, {})' /\ NeverMissed'
  BY <1>1, <1>2, SameWheel
<1> QED BY <1>1, <1>5, <1>6, <1>7, <1>8, CallInv

(* callout_stop_sync() returns, or stops the callout once more.            *)
LEMMA StepStopSyncCheck ==
  ASSUME Inv, NEW c \in Callout, StopSyncCheck(c)
  PROVE  Inv'
<1>1. TypeOK /\ FlagsOK(c) /\ op[c] = <<"stop_sync", "check">>
  BY DEF Inv, StopSyncCheck
<1>2. opcpu[c] \in Cpu /\ "DID_INIT" \in c_flags[c]
  BY <1>1 DEF FlagsOK, Idle
<1>3. CASE c_flags[c] \cap {"PENDING", "ACTIVE"} = {}
  <2>1. Return(c) /\ UNCHANGED <<calloutVars, wheel, next, clockVars, softVars>>
    BY <1>3, Zenon DEF StopSyncCheck
  <2>2. /\ UNCHANGED <<c_flags, c_time, c_gd, wheel, next>>
        /\ UNCHANGED <<clockVars, softVars>>
        /\ UNCHANGED <<softticks, curticks, isrunning, pc, scan, mp, running>>
    BY <2>1 DEF calloutVars, clockVars, softVars
  <2>3. /\ op' \in [Callout -> OpState]
        /\ opcpu' \in [Callout -> Cpu \cup {NULL}]
        /\ stopcpu' \in [Callout -> Cpu \cup {NULL}]
        /\ optick' \in [Callout -> 0 .. MaxTicks]
        /\ op'[c] = <<"none", "idle">>
        /\ \A d \in Callout : d # c => op'[d] = op[d] /\ opcpu'[d] = opcpu[d]
    BY <1>1, <2>1, ReturnIs
  <2>4. TypeOK'
    BY <1>1, <2>2, <2>3 DEF TypeOK
  <2>5. FlagsOK(c)'
    BY <1>1, <2>2, <2>3 DEF FlagsOK, Quiet, Idle
  <2>6. Sound(wheel, next, {})' /\ NeverMissed'
    BY <2>2, SameWheel
  <2> QED BY <2>2, <2>3, <2>4, <2>5, <2>6, CallInv
<1>4. CASE c_flags[c] \cap {"PENDING", "ACTIVE"} # {}
  <2>1. Stop(opcpu[c], c, "stop_sync")
    BY <1>4, Zenon DEF StopSyncCheck
  <2> QED BY <1>2, <2>1, StopInv DEF Calls
<1> QED BY <1>3, <1>4

(* callout_terminate() makes the callout uninitialized.                    *)
LEMMA StepTerminateCheck ==
  ASSUME Inv, NEW c \in Callout, TerminateCheck(c)
  PROVE  Inv'
<1>1. /\ op[c] = <<"terminate", "check">> /\ Return(c)
      /\ c_flags' = [c_flags EXCEPT ![c] = @ \ {"DID_INIT"}]
      /\ UNCHANGED <<c_time, c_gd, wheel, next>>
      /\ UNCHANGED <<clockVars, softVars>>
      /\ c_flags[c] \cap {"PENDING", "ACTIVE"} = {}
  BY DEF TerminateCheck
<1>2. UNCHANGED <<softticks, curticks, isrunning, pc, scan, mp, running>>
  BY <1>1 DEF clockVars, softVars
<1>3. TypeOK /\ FlagsOK(c)
  BY DEF Inv
<1>4. Quiet(c)
  BY <1>1 DEF Quiet
<1>5. /\ op' \in [Callout -> OpState]
      /\ opcpu' \in [Callout -> Cpu \cup {NULL}]
      /\ stopcpu' \in [Callout -> Cpu \cup {NULL}]
      /\ optick' \in [Callout -> 0 .. MaxTicks]
      /\ op'[c] = <<"none", "idle">>
      /\ \A d \in Callout : d # c => op'[d] = op[d] /\ opcpu'[d] = opcpu[d]
  BY <1>1, <1>3, ReturnIs
<1>6. /\ c_flags' \in [Callout -> SUBSET {"ACTIVE", "PENDING", "DID_INIT"}]
      /\ c_flags'[c] = c_flags[c] \ {"DID_INIT"}
      /\ \A d \in Callout : d # c => c_flags'[d] = c_flags[d]
  BY <1>1, <1>3 DEF TypeOK
<1>7. TypeOK'
  BY <1>1, <1>2, <1>3, <1>5, <1>6 DEF TypeOK
<1>8. FlagsOK(c)'
  BY <1>4, <1>5, <1>6 DEF FlagsOK, Quiet, Idle
<1>9. \A d \in Callout : "PENDING" \in c_flags'[d] <=> "PENDING" \in c_flags[d]
  BY <1>6
<1>10. Sound(wheel, next, {})' /\ NeverMissed'
  BY <1>1, <1>2, <1>9, SameWheel
<1> QED BY <1>1, <1>5, <1>6, <1>7, <1>8, <1>10, CallInv

(* The assertion of callout_terminate() fails, which takes a callback that *)
(* resets its callout.                                                     *)
LEMMA StepTerminatePanic ==
  ASSUME Inv, NEW c \in Callout, TerminatePanic(c)
  PROVE  Inv'
<1>1. /\ op[c] = <<"terminate", "check">>
      /\ op' = [op EXCEPT ![c] = <<"terminate", "panic">>]
      /\ c_flags[c] \cap {"PENDING", "ACTIVE"} # {}
      /\ UNCHANGED <<c_flags, c_time, c_gd, wheel, next, opcpu, stopcpu, optick>>
      /\ UNCHANGED <<clockVars, softVars>>
  BY DEF TerminatePanic, calloutVars
<1>2. UNCHANGED <<softticks, curticks, isrunning, pc, scan, mp, running>>
  BY <1>1 DEF clockVars, softVars
<1>3. TypeOK /\ FlagsOK(c)
  BY DEF Inv
<1>4. "rearm" \in Ops
  BY <1>1, <1>3 DEF FlagsOK, Quiet
<1>5. TypeOK'
  BY <1>1, <1>2, <1>3, OpStates DEF TypeOK
<1>6. /\ op'[c] = <<"terminate", "panic">>
      /\ \A d \in Callout : d # c => op'[d] = op[d]
  BY <1>1, <1>3 DEF TypeOK
<1>7. FlagsOK(c)'
  BY <1>1, <1>3, <1>4, <1>6 DEF FlagsOK, Quiet, Idle
<1>8. Sound(wheel, next, {})' /\ NeverMissed'
  BY <1>1, <1>2, SameWheel
<1> QED BY <1>1, <1>5, <1>6, <1>7, <1>8, CallInv

(* callout_init() of a callout that is not initialized.                    *)
LEMMA StepInit ==
  ASSUME Inv, NEW c \in Callout, callout_init(c)
  PROVE  Inv'
<1>1. /\ Idle(c) /\ "DID_INIT" \notin c_flags[c]
      /\ c_flags' = [c_flags EXCEPT ![c] = {"DID_INIT"}]
      /\ c_time' = [c_time EXCEPT ![c] = 0]
      /\ c_gd' = [c_gd EXCEPT ![c] = NULL]
      /\ UNCHANGED <<wheel, next, op, opcpu, stopcpu, optick>>
      /\ UNCHANGED <<clockVars, softVars>>
  BY DEF callout_init, opVars
<1>2. UNCHANGED <<softticks, curticks, isrunning, pc, scan, mp, running>>
  BY <1>1 DEF clockVars, softVars
<1>3. TypeOK /\ FlagsOK(c) /\ Quiet(c)
  BY <1>1 DEF Inv, FlagsOK
<1>4. 0 \in Tick
  BY TickAssumption DEF Tick
<1>5. TypeOK'
  BY <1>1, <1>2, <1>3, <1>4 DEF TypeOK
<1>6. /\ c_flags'[c] = {"DID_INIT"}
      /\ \A d \in Callout : d # c => /\ c_flags'[d] = c_flags[d] /\ c_gd'[d] = c_gd[d]
                                     /\ c_time'[d] = c_time[d]
  BY <1>1, <1>3 DEF TypeOK
<1>7. FlagsOK(c)'
  BY <1>1, <1>6 DEF FlagsOK, Quiet, Idle
<1>8. \A d \in Callout :
        /\ "PENDING" \in c_flags'[d] <=> "PENDING" \in c_flags[d]
        /\ "PENDING" \in c_flags[d] => c_gd'[d] = c_gd[d] /\ c_time'[d] = c_time[d]
  BY <1>3, <1>6 DEF Quiet
<1>9. Sound(wheel, next, {})' /\ NeverMissed'
  BY <1>1, <1>2, <1>8, SameWheel
<1> QED BY <1>1, <1>5, <1>6, <1>7, <1>9, CallInv

(* callout_deactivate() in the callback.                                   *)
LEMMA StepDeactivate ==
  ASSUME Inv, NEW p \in Cpu, NEW c \in Callout, callout_deactivate(p, c)
  PROVE  Inv'
<1>1. /\ c_flags[c] \cap {"ACTIVE", "PENDING"} = {"ACTIVE"}
      /\ c_flags' = [c_flags EXCEPT ![c] = @ \ {"ACTIVE"}]
      /\ UNCHANGED <<c_time, c_gd, wheel, next, op, opcpu, stopcpu, optick>>
      /\ UNCHANGED <<clockVars, softVars>>
  BY DEF callout_deactivate, opVars
<1>2. UNCHANGED <<softticks, curticks, isrunning, pc, scan, mp, running>>
  BY <1>1 DEF clockVars, softVars
<1>3. TypeOK /\ FlagsOK(c)
  BY DEF Inv
<1>4. TypeOK'
  BY <1>1, <1>2, <1>3 DEF TypeOK
<1>5. /\ c_flags'[c] = c_flags[c] \ {"ACTIVE"}
      /\ \A d \in Callout : d # c => c_flags'[d] = c_flags[d]
  BY <1>1, <1>3 DEF TypeOK
<1>6. "PENDING" \notin c_flags[c]
  BY <1>1
<1>7. FlagsOK(c)'
  BY <1>1, <1>3, <1>5, <1>6 DEF FlagsOK, Quiet, Idle
<1>8. \A d \in Callout : "PENDING" \in c_flags'[d] <=> "PENDING" \in c_flags[d]
  BY <1>5
<1>9. Sound(wheel, next, {})' /\ NeverMissed'
  BY <1>1, <1>2, <1>8, SameWheel
<1> QED BY <1>1, <1>4, <1>5, <1>7, <1>9, CallInv

(* The calls that begin with callout_stop().                               *)
LEMMA StepStops ==
  ASSUME Inv, NEW p \in Cpu, NEW c \in Callout,
         callout_stop(p, c) \/ callout_stop_sync(p, c) \/ callout_terminate(p, c)
  PROVE  Inv'
<1>1. "DID_INIT" \in c_flags[c]
  BY DEF callout_stop, callout_stop_sync, callout_terminate
<1>2. PICK call \in Calls : Stop(p, c, call)
  BY DEF callout_stop, callout_stop_sync, callout_terminate, Calls
<1> QED BY <1>1, <1>2, StopInv

-----------------------------------------------------------------------------
(* Theorems.                                                               *)

(* swi_softclock_setup() leaves empty wheels and still clocks.             *)
LEMMA InitInv == swi_softclock_setup => Inv
<1> SUFFICES ASSUME swi_softclock_setup PROVE Inv
  OBVIOUS
<1>1. 0 \in Tick /\ 1 \in 0 .. TickRange - 1 /\ 0 \in 0 .. MaxTicks /\ MaxLag \in Nat
  BY TickAssumption DEF Tick
<1>2. <<"none", "idle">> \in OpState
  BY OpStates
<1>3. /\ wheel \in [Cpu -> [Bucket -> Seq(Callout)]]
      /\ \A p \in Cpu, b \in Bucket : wheel[p][b] = <<>>
  BY DEF swi_softclock_setup
<1>4. TypeOK
  BY <1>1, <1>2, <1>3 DEF swi_softclock_setup, TypeOK
<1>5. \A c \in Callout : FlagsOK(c)
  BY DEF swi_softclock_setup, FlagsOK, Quiet, Idle
<1>6. ASSUME NEW p \in Cpu PROVE ClockOK(p)
  <2>1. softticks[p] = 0 /\ curticks[p] = 0 /\ ~isrunning[p] /\ pc[p] = "off"
    BY DEF swi_softclock_setup
  <2>2. Since(0, 0) = 0 /\ 0 < TickRange - 1
    BY <1>1, Distances, TickAssumption
  <2>3. Lag(p) = 1
    BY <1>1, <2>1, <2>2, Distances DEF Lag
  <2> QED BY <1>1, <2>1, <2>3 DEF ClockOK, Scanning
<1>7. ASSUME NEW p \in Cpu, NEW b \in Bucket PROVE BucketOK(p, b, wheel, {})
  <2>1. Len(wheel[p][b]) = 0
    BY <1>3
  <2>2. \A c \in Callout : ~OnWheel(c, p, b)
    BY DEF swi_softclock_setup, OnWheel
  <2> QED BY <2>1, <2>2 DEF BucketOK, In, Distinct
<1>8. ASSUME NEW p \in Cpu PROVE ScanOK(p, wheel, next)
  BY DEF swi_softclock_setup, ScanOK, Scanning
<1>9. NeverMissed
  BY DEF swi_softclock_setup, NeverMissed
<1> QED BY <1>4, <1>5, <1>6, <1>7, <1>8, <1>9 DEF Inv, Sound, TypeOK

(* No step of a clock, a softclock thread or a call breaks the invariant.  *)
LEMMA NextInv == Inv /\ [Next]_vars => Inv'
<1> SUFFICES ASSUME Inv, [Next]_vars PROVE Inv'
  OBVIOUS
<1>1. CASE UNCHANGED vars
  <2>1. /\ UNCHANGED <<c_flags, c_time, c_gd, wheel, next, softticks, curticks, isrunning>>
        /\ UNCHANGED <<pc, scan, mp, running, op, opcpu, stopcpu, optick>>
    BY <1>1 DEF vars, calloutVars, clockVars, softVars, opVars
  <2>2. TypeOK' /\ NeverMissed'
    BY <2>1 DEF Inv, TypeOK, NeverMissed
  <2>3. \A c \in Callout : FlagsOK(c)'
    BY <2>1 DEF Inv, FlagsOK, Quiet, Idle
  <2>4. \A p \in Cpu : ClockOK(p)'
    BY <2>1 DEF Inv, ClockOK, Lag, Scanning
  <2>5. Sound(wheel, next, {})'
    BY <2>1, SameWheel
  <2> QED BY <2>2, <2>3, <2>4, <2>5 DEF Inv
<1>2. WheelCpu \subseteq Cpu
  BY CalloutAssumption DEF WheelCpu
<1>3. CASE \E p \in WheelCpu : hardclock_softtick(p) \/ SoftStep(p)
  BY <1>2, <1>3, StepHardclock, StepHandler, StepGotMplock, StepFuncDone DEF SoftStep
<1>4. CASE \E c \in Callout : StopIpi(c) \/ CallStep(c) \/ ClientStep(c)
  <2>1. PICK c \in Callout : StopIpi(c) \/ CallStep(c) \/ ClientStep(c)
    BY <1>4
  <2>2. CASE StopIpi(c) \/ CallStep(c)
    BY <2>2, StepStopIpi, StepIpiWaited, StepRaceWaited, StepStopSyncCheck,
       StepTerminateCheck, StepTerminatePanic DEF CallStep
  <2>3. CASE ClientStep(c)
    <3>1. CASE callout_init(c)
      BY <3>1, StepInit
    <3>2. ASSUME NEW p \in Cpu, NEW n \in 0 .. MaxTicks,
                 callout_reset(p, c, n) \/ Rearm(p, c, n)
          PROVE  Inv'
      BY <3>2, StepReset, StepRearm
    <3>3. ASSUME NEW p \in Cpu,
                 \/ callout_stop(p, c)
                 \/ callout_stop_sync(p, c)
                 \/ callout_terminate(p, c)
                 \/ callout_deactivate(p, c)
          PROVE  Inv'
      BY <3>3, StepStops, StepDeactivate
    <3> QED BY <2>3, <3>1, <3>2, <3>3 DEF ClientStep
  <2> QED BY <2>1, <2>2, <2>3
<1> QED BY <1>1, <1>3, <1>4 DEF Next

(***************************************************************************)
(* The inductive invariant holds: wheels, flags, clocks and the place of   *)
(* the softclock's scan fit together.                                      *)
(***************************************************************************)
THEOREM CalloutInvariant == Spec => []Inv
<1>1. swi_softclock_setup => Inv
  BY InitInv
<1>2. Inv /\ [Next]_vars => Inv'
  BY NextInv
<1> QED BY <1>1, <1>2, PTL DEF Spec

(***************************************************************************)
(* Callouts, wheels, clocks and calls keep their types.                    *)
(***************************************************************************)
THEOREM CalloutTypes == Spec => []TypeOK
<1>1. Inv => TypeOK
  BY DEF Inv
<1> QED BY <1>1, CalloutInvariant, PTL

(***************************************************************************)
(* softticks passes no pending callout, though the counters wrap, resets   *)
(* come from any cpu and the callbacks and the wait for the MP lock leave  *)
(* the scan in the middle of a bucket.                                     *)
(***************************************************************************)
THEOREM NothingMissed == Spec => []NeverMissed
<1>1. Inv => NeverMissed
  BY DEF Inv
<1> QED BY <1>1, CalloutInvariant, PTL

(***************************************************************************)
(* A pending callout is once on its bucket and nowhere else, and one that  *)
(* is not pending is on no wheel.                                          *)
(***************************************************************************)
THEOREM WheelsAreSound == Spec => []WheelSound
<1>1. Inv => WheelSound
  <2> SUFFICES ASSUME Inv, NEW c \in Callout, NEW p \in Cpu, NEW b \in Bucket
               PROVE  Count(wheel[p][b], c) =
                        IF "PENDING" \in c_flags[c] /\ p = c_gd[c] /\ b = c_time[c] % WheelSize
                        THEN 1 ELSE 0
    BY DEF WheelSound
  <2>1. BucketOK(p, b, wheel, {})
    BY DEF Inv, Sound
  <2>2. Distinct(wheel[p][b]) /\ (In(c, wheel[p][b]) <=> OnWheel(c, p, b))
    BY <2>1 DEF BucketOK
  <2>3. Count(wheel[p][b], c) = IF In(c, wheel[p][b]) THEN 1 ELSE 0
    BY <2>2, CountOnce
  <2>4. OnWheel(c, p, b) <=> "PENDING" \in c_flags[c] /\ p = c_gd[c] /\ b = c_time[c] % WheelSize
    BY DEF OnWheel
  <2> QED BY <2>2, <2>3, <2>4
<1> QED BY <1>1, CalloutInvariant, PTL

(***************************************************************************)
(* sc->next is on the bucket being scanned, whatever was removed while the *)
(* softclock was outside its critical section.                             *)
(***************************************************************************)
THEOREM NextIsOnBucket == Spec => []NextOnBucket
<1>1. Inv => NextOnBucket
  <2> SUFFICES ASSUME Inv, NEW p \in Cpu, next[p] # NULL
               PROVE  Count(BucketOf(p, softticks[p]), next[p]) = 1
    BY DEF NextOnBucket
  <2> DEFINE s == BucketOf(p, softticks[p])
  <2>1. softticks[p] % WheelSize \in Bucket
    BY BucketIs DEF Inv, TypeOK
  <2>2. Distinct(s)
    BY <2>1 DEF Inv, Sound, BucketOK, BucketOf
  <2>3. In(next[p], s)
    BY DEF Inv, Sound, ScanOK, BucketOf
  <2>4. Count(s, next[p]) = IF In(next[p], s) THEN 1 ELSE 0
    BY <2>2, CountOnce
  <2> QED BY <2>3, <2>4
<1> QED BY <1>1, CalloutInvariant, PTL

-----------------------------------------------------------------------------
(* The synchronous stops, of callouts that are reset on one cpu only.      *)

(* What the softclock thread does to the callouts, as far as the calls are *)
(* concerned: it goes on without one, or it takes one off its wheel.       *)
SoftEffect(p) ==
  \/ /\ UNCHANGED <<c_flags, c_gd, op, opcpu, stopcpu>>
     /\ running' = running \/ running' = [running EXCEPT ![p] = NULL]
  \/ \E c \in Callout : In(c, BucketOf(p, softticks[p])) /\ Dispatch(p, c)

(* The scan of a bucket dispatches one callout at most before it stops.    *)
LEMMA ScanEffect ==
  ASSUME Inv, NEW p \in Cpu, NEW rest \in Seq(Callout),
         \A y : In(y, rest) => In(y, BucketOf(p, softticks[p])),
         ScanRest(p, rest)
  PROVE  SoftEffect(p)
<1> DEFINE c == FirstDue(p, rest)
<1>1. CASE Due(p, rest) = {}
  <2>1. /\ running' = [running EXCEPT ![p] = NULL]
        /\ UNCHANGED <<calloutVars, wheel, curticks, isrunning, opVars>>
    BY <1>1, Zenon DEF ScanRest, Due
  <2> QED BY <2>1 DEF SoftEffect, calloutVars, opVars
<1>2. CASE Due(p, rest) # {}
  <2>1. c \in Callout /\ In(c, rest)
    BY <1>2, FirstDueIs
  <2>2. IF c \in MpSafe \/ mp[p]
        THEN Dispatch(p, c)
        ELSE /\ next' = [next EXCEPT ![p] = c]
             /\ scan' = [scan EXCEPT ![p] = c]
             /\ running' = [running EXCEPT ![p] = NULL]
             /\ pc' = [pc EXCEPT ![p] = "mplock"]
             /\ UNCHANGED <<calloutVars, wheel, clockVars, opVars>>
    BY <1>2, Zenon DEF ScanRest, Due, FirstDue
  <2> HIDE DEF c
  <2>3. CASE c \in MpSafe \/ mp[p]
    <3>1. Dispatch(p, c)
      BY <2>2, <2>3, Zenon
    <3> QED BY <2>1, <3>1 DEF SoftEffect
  <2>4. CASE ~(c \in MpSafe \/ mp[p])
    <3>1. /\ running' = [running EXCEPT ![p] = NULL]
          /\ UNCHANGED <<calloutVars, wheel, clockVars, opVars>>
      BY <2>2, <2>4, Zenon
    <3> QED BY <3>1 DEF SoftEffect, calloutVars, opVars
  <2> QED BY <2>3, <2>4
<1> QED BY <1>1, <1>2

(* The bucket being scanned, and its rest from sc->next on.                *)
LEMMA RestOfBucket ==
  ASSUME Inv, NEW p \in Cpu
  PROVE  LET s == BucketOf(p, softticks[p]) IN
         /\ s \in Seq(Callout)
         /\ next[p] # NULL => In(next[p], s)
         /\ From(s, next[p]) \in Seq(Callout)
         /\ \A y : In(y, From(s, next[p])) => In(y, s)
<1> DEFINE s == BucketOf(p, softticks[p])
<1>1. /\ softticks[p] % WheelSize \in Bucket
      /\ next[p] \in Callout \cup {NULL} /\ NULL \notin Callout
      /\ wheel \in [Cpu -> [Bucket -> Seq(Callout)]]
      /\ ScanOK(p, wheel, next)
      /\ \A e \in Bucket : BucketOK(p, e, wheel, {})
  BY BucketIs, CalloutAssumption DEF Inv, TypeOK, Sound
<1>2. s \in Seq(Callout) /\ Distinct(s) /\ (next[p] # NULL => In(next[p], s))
  BY <1>1 DEF BucketOK, BucketOf, ScanOK
<1>3. From(s, next[p]) \in Seq(Callout) /\ \A y : In(y, From(s, next[p])) => In(y, s)
  <2> HIDE DEF s
  <2>1. CASE next[p] = NULL
    <3>1. From(s, next[p]) = <<>>
      BY <2>1 DEF From
    <3> QED BY <3>1 DEF In
  <2>2. CASE next[p] # NULL
    BY <2>2, <1>1, <1>2, FromQueue
  <2> QED BY <2>1, <2>2
<1> QED BY <1>2, <1>3

(* hardclock_softtick() and softclock_handler() do no more than that.      *)
LEMMA SoftEffects ==
  ASSUME Inv, NEW p \in Cpu, hardclock_softtick(p) \/ SoftStep(p)
  PROVE  SoftEffect(p)
<1> DEFINE s == BucketOf(p, softticks[p])
<1>1. NULL \notin Callout
  BY CalloutAssumption
<1>2. s \in Seq(Callout) /\ (next[p] # NULL => In(next[p], s))
  BY RestOfBucket
<1>3. From(s, next[p]) \in Seq(Callout) /\ \A y : In(y, From(s, next[p])) => In(y, s)
  BY RestOfBucket
<1>4. CASE hardclock_softtick(p)
  BY <1>4 DEF hardclock_softtick, SoftEffect, calloutVars, opVars
<1>5. CASE FuncDone(p)
  <2>1. ScanRest(p, From(s, next[p]))
    BY <1>5 DEF FuncDone
  <2> QED BY <1>3, <2>1, ScanEffect
<1>6. CASE GotMplock(p)
  <2>1. CASE next[p] = scan[p]
    <3>1. Dispatch(p, scan[p]) /\ pc[p] = "mplock"
      BY <1>6, <2>1, Zenon DEF GotMplock
    <3>2. scan[p] \in Callout
      BY <3>1 DEF Inv, ClockOK
    <3>3. In(scan[p], s)
      BY <1>1, <1>2, <2>1, <3>2
    <3> QED BY <3>1, <3>2, <3>3 DEF SoftEffect
  <2>2. CASE next[p] # scan[p]
    <3>1. ScanRest(p, From(s, next[p]))
      BY <1>6, <2>2, Zenon DEF GotMplock
    <3> QED BY <1>3, <3>1, ScanEffect
  <2> QED BY <2>1, <2>2
<1>7. CASE softclock_handler(p)
  <2>1. CASE softticks[p] = Plus(curticks[p], 1)
    <3>1. UNCHANGED <<calloutVars, wheel, next, softticks, curticks, running, scan, mp, opVars>>
      BY <1>7, <2>1, Zenon DEF softclock_handler
    <3> QED BY <3>1 DEF SoftEffect, calloutVars, opVars
  <2>2. CASE softticks[p] # Plus(curticks[p], 1)
    <3>1. ScanRest(p, s)
      BY <1>7, <2>2, Zenon DEF softclock_handler
    <3> QED BY <1>2, <3>1, ScanEffect
  <2> QED BY <2>1, <2>2
<1> QED BY <1>4, <1>5, <1>6, <1>7 DEF SoftStep

(* A callout that is dispatched was pending, and so is still active: a     *)
(* client that is past its wait will see that.                             *)
LEMMA SoftSync ==
  ASSUME Inv, SyncInv, NEW p \in Cpu, SoftEffect(p)
  PROVE  SyncInv'
<1>1. TypeOK /\ OneHome /\ \A d \in Callout : SyncOK(d) /\ FlagsOK(d)
  BY DEF Inv, SyncInv
<1>2. SUFFICES ASSUME NEW d \in Callout PROVE SyncOK(d)'
  BY <1>1 DEF SyncInv, OneHome
<1>3. SyncOK(d) /\ NULL \notin Callout
  BY <1>1, CalloutAssumption
<1>4. CASE /\ UNCHANGED <<c_flags, c_gd, op, opcpu, stopcpu>>
           /\ running' = running \/ running' = [running EXCEPT ![p] = NULL]
  <2>1. \A q \in Cpu : running'[q] = d => running[q] = d
    BY <1>1, <1>3, <1>4 DEF TypeOK
  <2> QED BY <1>3, <1>4, <2>1 DEF SyncOK, Runs
<1>5. CASE \E c \in Callout : In(c, BucketOf(p, softticks[p])) /\ Dispatch(p, c)
  <2>1. PICK c \in Callout : In(c, BucketOf(p, softticks[p])) /\ Dispatch(p, c)
    BY <1>5
  <2>2. softticks[p] % WheelSize \in Bucket
    BY <1>1, BucketIs DEF TypeOK
  <2>3. OnWheel(c, p, softticks[p] % WheelSize)
    BY <2>1, <2>2 DEF Inv, Sound, BucketOK, BucketOf
  <2>4. /\ "PENDING" \in c_flags[c] /\ "ACTIVE" \in c_flags[c] /\ c_gd[c] = p
        /\ "DID_INIT" \in c_flags[c]
    BY <1>1, <2>3 DEF OnWheel, FlagsOK, Quiet
  <2>5. /\ running' = [running EXCEPT ![p] = c]
        /\ c_flags' = [c_flags EXCEPT ![c] = @ \ {"PENDING"}]
        /\ UNCHANGED <<c_gd, op, opcpu, stopcpu>>
    BY <2>1 DEF Dispatch, opVars
  <2>6. /\ "ACTIVE" \in c_flags'[c] /\ "DID_INIT" \in c_flags'[c]
        /\ d # c => c_flags'[d] = c_flags[d]
        /\ running'[p] = c /\ \A q \in Cpu : q # p => running'[q] = running[q]
    BY <1>1, <2>4, <2>5 DEF TypeOK
  <2>7. CASE d = c
    <3>1. \A q \in Cpu : running'[q] = c => c_gd'[c] = q
      BY <1>3, <2>4, <2>5, <2>6, <2>7 DEF SyncOK
    <3> QED BY <1>3, <2>5, <2>6, <2>7, <3>1 DEF SyncOK
  <2>8. CASE d # c
    <3>1. \A q \in Cpu : running'[q] = d => running[q] = d
      BY <2>6, <2>8
    <3> QED BY <1>3, <2>5, <2>6, <2>8, <3>1 DEF SyncOK, Runs
  <2> QED BY <2>7, <2>8
<1> QED BY <1>4, <1>5 DEF SoftEffect

(* A step of one call leaves the others alone.                             *)
LEMMA CallSync ==
  ASSUME SyncInv, NEW c \in Callout, SyncOK(c)', UNCHANGED running,
         \A d \in Callout : d # c =>
           /\ c_flags'[d] = c_flags[d] /\ c_gd'[d] = c_gd[d]
           /\ op'[d] = op[d] /\ opcpu'[d] = opcpu[d] /\ stopcpu'[d] = stopcpu[d]
  PROVE  SyncInv'
<1>1. SUFFICES ASSUME NEW d \in Callout PROVE SyncOK(d)'
  BY DEF SyncInv, OneHome
<1>2. CASE d = c
  BY <1>2
<1>3. CASE d # c
  <2>1. SyncOK(d)
    BY DEF SyncInv
  <2> QED BY <1>3, <2>1 DEF SyncOK, Runs
<1> QED BY <1>2, <1>3

(* The stop IPI is sent.                                                   *)
LEMMA SendSync ==
  ASSUME Inv, SyncInv, NEW p \in Cpu, NEW c \in Callout, NEW call, NEW n,
         "DID_INIT" \in c_flags[c], call = "reset" => p \in Home[c],
         SendStop(p, c, call, n)
  PROVE  SyncInv' /\ op'[c] = <<call, "ipi">> /\ \A d \in Callout : d # c => op'[d] = op[d]
<1>1. TypeOK /\ SyncOK(c)
  BY DEF Inv, SyncInv
<1>2. /\ op' = [op EXCEPT ![c] = <<call, "ipi">>]
      /\ opcpu' = [opcpu EXCEPT ![c] = p]
      /\ stopcpu' = [stopcpu EXCEPT ![c] = c_gd[c]]
      /\ UNCHANGED <<c_flags, c_gd, running>>
  BY DEF SendStop, calloutVars, softVars
<1>3. /\ op'[c] = <<call, "ipi">> /\ opcpu'[c] = p
      /\ \A d \in Callout : d # c =>
           op'[d] = op[d] /\ opcpu'[d] = opcpu[d] /\ stopcpu'[d] = stopcpu[d]
  BY <1>1, <1>2 DEF TypeOK
<1>4. SyncOK(c)'
  BY <1>1, <1>2, <1>3 DEF SyncOK, Runs
<1> QED BY <1>2, <1>3, <1>4, CallSync

(* callout_stop() leaves the wait to the call that asked for one.          *)
LEMMA StopSync ==
  ASSUME Inv, SyncInv, NEW p \in Cpu, NEW c \in Callout,
         NEW call \in {"stop", "stop_sync", "terminate"},
         "DID_INIT" \in c_flags[c], Stop(p, c, call)
  PROVE  /\ SyncInv'
         /\ op'[c][1] = "none" => call = "stop"
         /\ \A d \in Callout : d # c => op'[d] = op[d]
<1>1. CASE StopHere(c) /\ AfterStop(p, c, call) /\ UNCHANGED <<c_time, c_gd, clockVars, softVars>>
  <2>1. TypeOK /\ SyncOK(c) /\ call \in Calls
    BY DEF Inv, SyncInv, Calls
  <2>2. /\ "DID_INIT" \in c_flags'[c]
        /\ \A d \in Callout : d # c => c_flags'[d] = c_flags[d]
    BY <1>1, StoppedQuiet
  <2>3. /\ \/ /\ call \in {"stop_sync", "terminate"} /\ op'[c] = <<call, "wait">>
              /\ opcpu'[c] = p /\ stopcpu'[c] = c_gd[c]
           \/ call \in {"reset", "stop"} /\ op'[c] = <<"none", "idle">>
        /\ \A d \in Callout : d # c => /\ op'[d] = op[d] /\ opcpu'[d] = opcpu[d]
                                       /\ stopcpu'[d] = stopcpu[d]
    BY <1>1, <2>1, AfterStopIs
  <2>4. UNCHANGED <<c_gd, running>>
    BY <1>1 DEF softVars
  <2>5. SyncOK(c)'
    BY <2>1, <2>2, <2>3, <2>4 DEF SyncOK, Runs
  <2>6. SyncInv'
    BY <2>2, <2>3, <2>4, <2>5, CallSync
  <2>7. op'[c][1] = "none" => call = "stop"
    BY <2>3
  <2> QED BY <2>3, <2>6, <2>7
<1>2. CASE SendStop(p, c, call, 0)
  BY <1>2, SendSync
<1> QED BY <1>1, <1>2 DEF Stop

(* The callout is armed on its one cpu.                                    *)
LEMMA ArmSync ==
  ASSUME Inv, SyncInv, NEW p \in Cpu, NEW c \in Callout, NEW n, NEW w,
         Arm(p, c, n, w), "DID_INIT" \in c_flags[c], p \in Home[c], UNCHANGED running,
         op'[c][2] \in {"idle", "wait"},
         op'[c][1] # "reset",
         op'[c][2] = "wait" => stopcpu'[c] = p,
         \A d \in Callout : d # c =>
           op'[d] = op[d] /\ opcpu'[d] = opcpu[d] /\ stopcpu'[d] = stopcpu[d]
  PROVE  SyncInv'
<1>1. TypeOK /\ OneHome /\ SyncOK(c) /\ NULL \notin Cpu
  BY CalloutAssumption DEF Inv, SyncInv
<1>2. /\ c_flags' = [c_flags EXCEPT ![c] = @ \cup {"ACTIVE", "PENDING"}]
      /\ c_gd' = [c_gd EXCEPT ![c] = p]
  BY DEF Arm
<1>3. /\ "DID_INIT" \in c_flags'[c] /\ c_gd'[c] = p
      /\ \A d \in Callout : d # c => c_flags'[d] = c_flags[d] /\ c_gd'[d] = c_gd[d]
  BY <1>1, <1>2 DEF TypeOK
<1>4. ASSUME NEW q \in Cpu, running[q] = c PROVE q = p
  <2>1. c_gd[c] = q /\ c_gd[c] \in Home[c] \cup {NULL}
    BY <1>1, <1>4 DEF SyncOK
  <2>2. q \in Home[c]
    BY <1>1, <2>1
  <2> QED BY <1>1, <2>2 DEF OneHome
<1>5. SyncOK(c)'
  BY <1>3, <1>4 DEF SyncOK, Runs
<1> QED BY <1>3, <1>5, CallSync

(* What a step of the call on c keeps and promises.                        *)
SyncStep(c) ==
  /\ SyncInv'
  /\ op[c][1] \in {"stop_sync", "terminate"} /\ op'[c][1] = "none" =>
       c_flags'[c] \cap {"PENDING", "ACTIVE"} = {} /\ \A p \in Cpu : running'[p] # c
  /\ \A d \in Callout : d # c => op'[d] = op[d]

(* callout_reset() from outside the callback keeps SyncInv.                *)
LEMMA SyncReset ==
  ASSUME Inv, SyncInv, NEW p \in Cpu, NEW c \in Callout, NEW n, callout_reset(p, c, n)
  PROVE  SyncStep(c)
<1>1. Idle(c) /\ "DID_INIT" \in c_flags[c] /\ p \in Home[c]
  BY DEF callout_reset
<1>2. CASE "ACTIVE" \notin c_flags[c] \/ Local(p, c)
  <2>1. ResetHere(p, c, n) /\ UNCHANGED <<clockVars, softVars, opVars>>
    BY <1>2, Zenon DEF callout_reset
  <2>2. Arm(p, c, n, StoppedWheel(c))
    BY <2>1, ResetIsArm
  <2>3. UNCHANGED <<op, opcpu, stopcpu, running>>
    BY <2>1 DEF opVars, softVars
  <2>4. SyncInv'
    BY <1>1, <2>2, <2>3, ArmSync DEF Idle
  <2> QED BY <1>1, <2>3, <2>4 DEF SyncStep, Idle
<1>3. CASE ~("ACTIVE" \notin c_flags[c] \/ Local(p, c))
  <2>1. SendStop(p, c, "reset", n)
    BY <1>3, Zenon DEF callout_reset
  <2>2. SyncInv' /\ op'[c] = <<"reset", "ipi">> /\ \A d \in Callout : d # c => op'[d] = op[d]
    BY <1>1, <2>1, SendSync
  <2> QED BY <2>2 DEF SyncStep
<1> QED BY <1>2, <1>3

(* callout_reset() in the callback arms the callout where it already runs. *)
LEMMA SyncRearm ==
  ASSUME Inv, SyncInv, NEW p \in Cpu, NEW c \in Callout, NEW n, Rearm(p, c, n)
  PROVE  SyncStep(c)
<1>1. /\ "DID_INIT" \in c_flags[c] /\ op[c][2] \in {"idle", "wait"} /\ c_gd[c] = p
      /\ ResetHere(p, c, n) /\ UNCHANGED <<op, opcpu, stopcpu, running>>
  BY DEF Rearm, InCallback, Idle, Asleep, opVars, softVars
<1>2. Arm(p, c, n, StoppedWheel(c))
  BY <1>1, ResetIsArm
<1>3. SyncOK(c) /\ op[c] \in OpState
  BY DEF Inv, TypeOK, SyncInv
<1>4. /\ p \in Home[c] /\ op[c][1] # "reset"
      /\ op[c][2] = "wait" => stopcpu[c] = p
  BY <1>1, <1>3, OpStates, CalloutAssumption DEF SyncOK
<1>5. SyncInv'
  BY <1>1, <1>2, <1>4, ArmSync
<1> QED BY <1>1, <1>5 DEF SyncStep

(* callout_stop_ipi() ends no call by itself.                              *)
LEMMA SyncIpi ==
  ASSUME Inv, SyncInv, NEW c \in Callout, StopIpi(c)
  PROVE  SyncStep(c)
<1>1. /\ op[c][2] = "ipi" /\ StopHere(c)
      /\ op' = [op EXCEPT ![c] = <<op[c][1], "stopped">>]
      /\ UNCHANGED <<c_gd, opcpu, stopcpu, running>>
  BY DEF StopIpi, softVars
<1>2. TypeOK /\ SyncOK(c) /\ FlagsOK(c)
  BY DEF Inv, SyncInv
<1>3. /\ op'[c] = <<op[c][1], "stopped">>
      /\ \A d \in Callout : d # c => op'[d] = op[d]
  BY <1>1, <1>2 DEF TypeOK
<1>4. /\ "DID_INIT" \in c_flags'[c]
      /\ \A d \in Callout : d # c => c_flags'[d] = c_flags[d]
  BY <1>1, <1>2, StoppedQuiet DEF FlagsOK, Idle
<1>5. SyncOK(c)'
  BY <1>1, <1>2, <1>3, <1>4 DEF SyncOK, Runs
<1>6. SyncInv'
  BY <1>1, <1>3, <1>4, <1>5, CallSync
<1>7. op'[c][1] = op[c][1]
  BY <1>3
<1> QED BY <1>3, <1>6, <1>7 DEF SyncStep

(* The end of the wait for the IPI: a reset arms on its one cpu, a stop    *)
(* returns, a synchronous stop goes on to wait for the callback.           *)
LEMMA SyncIpiWaited ==
  ASSUME Inv, SyncInv, NEW c \in Callout, IpiWaited(c)
  PROVE  SyncStep(c)
<1>1. TypeOK /\ FlagsOK(c) /\ SyncOK(c) /\ op[c][2] = "stopped"
  BY DEF Inv, SyncInv, IpiWaited
<1>2. op[c][1] \in Calls /\ opcpu[c] \in Cpu /\ "DID_INIT" \in c_flags[c]
  BY <1>1, OpStates DEF TypeOK, FlagsOK, Idle
<1>3. CASE op[c][1] = "reset"
  <2>1. /\ Arm(opcpu[c], c, optick[c], wheel) /\ Return(c)
        /\ UNCHANGED <<next, clockVars, softVars>>
    BY <1>3, Zenon DEF IpiWaited
  <2>2. /\ op'[c] = <<"none", "idle">>
        /\ \A d \in Callout : d # c => /\ op'[d] = op[d] /\ opcpu'[d] = opcpu[d]
                                       /\ stopcpu'[d] = stopcpu[d]
    BY <1>1, <2>1, ReturnIs
  <2>3. opcpu[c] \in Home[c] /\ UNCHANGED running
    BY <1>1, <1>3, <2>1 DEF SyncOK, softVars
  <2>4. SyncInv'
    BY <1>2, <2>1, <2>2, <2>3, ArmSync
  <2> QED BY <1>3, <2>2, <2>4 DEF SyncStep
<1>4. CASE op[c][1] # "reset"
  <2>1. /\ AfterStop(opcpu[c], c, op[c][1])
        /\ UNCHANGED <<calloutVars, wheel, next, clockVars, softVars>>
    BY <1>4, Zenon DEF IpiWaited
  <2>2. UNCHANGED <<c_flags, c_gd, running>>
    BY <2>1 DEF calloutVars, softVars
  <2>3. /\ \/ /\ op[c][1] \in {"stop_sync", "terminate"} /\ op'[c] = <<op[c][1], "wait">>
              /\ opcpu'[c] = opcpu[c] /\ stopcpu'[c] = c_gd[c]
           \/ op[c][1] \in {"reset", "stop"} /\ op'[c] = <<"none", "idle">>
        /\ \A d \in Callout : d # c => /\ op'[d] = op[d] /\ opcpu'[d] = opcpu[d]
                                       /\ stopcpu'[d] = stopcpu[d]
    BY <1>1, <1>2, <2>1, AfterStopIs
  <2>4. SyncOK(c)'
    BY <1>1, <1>2, <1>4, <2>2, <2>3 DEF SyncOK, Runs
  <2>5. SyncInv'
    BY <2>2, <2>3, <2>4, CallSync
  <2>6. ~(op[c][1] \in {"stop_sync", "terminate"} /\ op'[c][1] = "none")
    BY <2>3
  <2> QED BY <2>3, <2>5, <2>6 DEF SyncStep
<1> QED BY <1>3, <1>4

(* The wait ends when the one cpu that can run the callout does not.       *)
LEMMA SyncRaceWaited ==
  ASSUME Inv, SyncInv, NEW c \in Callout, RaceWaited(c)
  PROVE  SyncStep(c)
<1>1. /\ op[c][2] = "wait" /\ ~Asleep(c)
      /\ op' = [op EXCEPT ![c] = <<op[c][1], "check">>]
      /\ UNCHANGED <<c_flags, c_gd, opcpu, stopcpu, running>>
  BY DEF RaceWaited, calloutVars, softVars
<1>2. TypeOK /\ SyncOK(c) /\ NULL \notin Cpu
  BY CalloutAssumption DEF Inv, SyncInv
<1>3. /\ op'[c] = <<op[c][1], "check">>
      /\ \A d \in Callout : d # c => op'[d] = op[d]
  BY <1>1, <1>2 DEF TypeOK
<1>4. ~Runs(c)
  <2>1. ASSUME NEW p \in Cpu, running[p] = c PROVE FALSE
    <3>1. stopcpu[c] = c_gd[c] /\ c_gd[c] = p
      BY <1>1, <1>2, <2>1 DEF SyncOK
    <3> QED BY <1>1, <1>2, <2>1, <3>1 DEF Asleep
  <2> QED BY <2>1 DEF Runs
<1>5. SyncOK(c)'
  BY <1>1, <1>2, <1>3, <1>4 DEF SyncOK, Runs
<1>6. SyncInv'
  BY <1>1, <1>3, <1>5, CallSync
<1>7. op'[c][1] = op[c][1]
  BY <1>3
<1> QED BY <1>3, <1>6, <1>7 DEF SyncStep

(* callout_stop_sync() returns only when the callout is not active; one    *)
(* that runs at this check would be.                                       *)
LEMMA SyncStopSyncCheck ==
  ASSUME Inv, SyncInv, NEW c \in Callout, StopSyncCheck(c)
  PROVE  SyncStep(c)
<1>1. TypeOK /\ FlagsOK(c) /\ SyncOK(c) /\ op[c] = <<"stop_sync", "check">>
  BY DEF Inv, SyncInv, StopSyncCheck
<1>2. opcpu[c] \in Cpu /\ "DID_INIT" \in c_flags[c]
  BY <1>1 DEF FlagsOK, Idle
<1>3. CASE c_flags[c] \cap {"PENDING", "ACTIVE"} = {}
  <2>1. Return(c) /\ UNCHANGED <<calloutVars, wheel, next, clockVars, softVars>>
    BY <1>3, Zenon DEF StopSyncCheck
  <2>2. UNCHANGED <<c_flags, c_gd, running>>
    BY <2>1 DEF calloutVars, softVars
  <2>3. /\ op'[c] = <<"none", "idle">>
        /\ \A d \in Callout : d # c => /\ op'[d] = op[d] /\ opcpu'[d] = opcpu[d]
                                       /\ stopcpu'[d] = stopcpu[d]
    BY <1>1, <2>1, ReturnIs
  <2>4. ~Runs(c)
    BY <1>1, <1>3 DEF SyncOK
  <2>5. SyncOK(c)'
    BY <1>1, <2>2, <2>3, <2>4 DEF SyncOK, Runs
  <2>6. SyncInv'
    BY <2>2, <2>3, <2>5, CallSync
  <2> QED BY <1>3, <2>2, <2>3, <2>4, <2>6 DEF SyncStep, Runs
<1>4. CASE c_flags[c] \cap {"PENDING", "ACTIVE"} # {}
  <2>1. Stop(opcpu[c], c, "stop_sync")
    BY <1>4, Zenon DEF StopSyncCheck
  <2> QED BY <1>2, <2>1, StopSync DEF SyncStep
<1> QED BY <1>3, <1>4

(* callout_terminate() returns when the callback does not run.             *)
LEMMA SyncTerminateCheck ==
  ASSUME Inv, SyncInv, NEW c \in Callout, TerminateCheck(c)
  PROVE  SyncStep(c)
<1>1. /\ op[c] = <<"terminate", "check">> /\ Return(c)
      /\ c_flags' = [c_flags EXCEPT ![c] = @ \ {"DID_INIT"}]
      /\ UNCHANGED <<c_gd, running>>
      /\ c_flags[c] \cap {"PENDING", "ACTIVE"} = {}
  BY DEF TerminateCheck, softVars
<1>2. TypeOK /\ FlagsOK(c) /\ SyncOK(c)
  BY DEF Inv, SyncInv
<1>3. Quiet(c) /\ ~Runs(c)
  BY <1>1, <1>2 DEF SyncOK, Quiet
<1>4. /\ op'[c] = <<"none", "idle">>
      /\ \A d \in Callout : d # c => /\ op'[d] = op[d] /\ opcpu'[d] = opcpu[d]
                                     /\ stopcpu'[d] = stopcpu[d]
  BY <1>1, <1>2, ReturnIs
<1>5. /\ c_flags'[c] = c_flags[c] \ {"DID_INIT"}
      /\ \A d \in Callout : d # c => c_flags'[d] = c_flags[d]
  BY <1>1, <1>2 DEF TypeOK
<1>6. SyncOK(c)'
  BY <1>1, <1>2, <1>3, <1>4 DEF SyncOK, Runs
<1>7. SyncInv'
  BY <1>1, <1>4, <1>5, <1>6, CallSync
<1>8. c_flags'[c] \cap {"PENDING", "ACTIVE"} = {}
  BY <1>3, <1>5 DEF Quiet
<1> QED BY <1>1, <1>3, <1>4, <1>7, <1>8 DEF SyncStep, Runs

(* A call that panics does not return.                                     *)
LEMMA SyncTerminatePanic ==
  ASSUME Inv, SyncInv, NEW c \in Callout, TerminatePanic(c)
  PROVE  SyncStep(c)
<1>1. /\ op' = [op EXCEPT ![c] = <<"terminate", "panic">>]
      /\ UNCHANGED <<c_flags, c_gd, opcpu, stopcpu, running>>
  BY DEF TerminatePanic, calloutVars, softVars
<1>2. TypeOK /\ SyncOK(c)
  BY DEF Inv, SyncInv
<1>3. /\ op'[c] = <<"terminate", "panic">>
      /\ \A d \in Callout : d # c => op'[d] = op[d]
  BY <1>1, <1>2 DEF TypeOK
<1>4. SyncOK(c)'
  BY <1>1, <1>2, <1>3 DEF SyncOK, Runs
<1>5. SyncInv'
  BY <1>1, <1>3, <1>4, CallSync
<1> QED BY <1>3, <1>5 DEF SyncStep

(* callout_init() is made of a callout that does not run.                  *)
LEMMA SyncInitCall ==
  ASSUME Inv, SyncInv, NEW c \in Callout, callout_init(c)
  PROVE  SyncStep(c)
<1>1. /\ Idle(c) /\ "DID_INIT" \notin c_flags[c]
      /\ c_flags' = [c_flags EXCEPT ![c] = {"DID_INIT"}]
      /\ c_gd' = [c_gd EXCEPT ![c] = NULL]
      /\ UNCHANGED <<op, opcpu, stopcpu, running>>
  BY DEF callout_init, opVars, softVars
<1>2. TypeOK /\ SyncOK(c)
  BY DEF Inv, SyncInv
<1>3. ~Runs(c)
  BY <1>1, <1>2 DEF SyncOK
<1>4. /\ c_gd'[c] = NULL /\ "DID_INIT" \in c_flags'[c]
      /\ \A d \in Callout : d # c => c_flags'[d] = c_flags[d] /\ c_gd'[d] = c_gd[d]
  BY <1>1, <1>2 DEF TypeOK
<1>5. SyncOK(c)'
  BY <1>1, <1>3, <1>4 DEF SyncOK, Runs, Idle
<1>6. SyncInv'
  BY <1>1, <1>4, <1>5, CallSync
<1> QED BY <1>1, <1>6 DEF SyncStep, Idle

(* callout_deactivate() comes from the callback, so no check is under way. *)
LEMMA SyncDeactivate ==
  ASSUME Inv, SyncInv, NEW p \in Cpu, NEW c \in Callout, callout_deactivate(p, c)
  PROVE  SyncStep(c)
<1>1. /\ op[c][2] \in {"idle", "wait"}
      /\ c_flags' = [c_flags EXCEPT ![c] = @ \ {"ACTIVE"}]
      /\ UNCHANGED <<c_gd, op, opcpu, stopcpu, running>>
  BY DEF callout_deactivate, InCallback, Idle, Asleep, opVars, softVars
<1>2. TypeOK /\ SyncOK(c)
  BY DEF Inv, SyncInv
<1>3. /\ "DID_INIT" \in c_flags'[c] <=> "DID_INIT" \in c_flags[c]
      /\ \A d \in Callout : d # c => c_flags'[d] = c_flags[d]
  BY <1>1, <1>2 DEF TypeOK
<1>4. SyncOK(c)'
  BY <1>1, <1>2, <1>3 DEF SyncOK, Runs
<1>5. SyncInv'
  BY <1>1, <1>3, <1>4, CallSync
<1> QED BY <1>1, <1>5 DEF SyncStep

(* The calls that begin with callout_stop().                               *)
LEMMA SyncStops ==
  ASSUME Inv, SyncInv, NEW p \in Cpu, NEW c \in Callout,
         callout_stop(p, c) \/ callout_stop_sync(p, c) \/ callout_terminate(p, c)
  PROVE  SyncStep(c)
<1>1. "DID_INIT" \in c_flags[c] /\ Idle(c)
  BY DEF callout_stop, callout_stop_sync, callout_terminate
<1>2. PICK call \in {"stop", "stop_sync", "terminate"} : Stop(p, c, call)
  BY DEF callout_stop, callout_stop_sync, callout_terminate
<1>3. SyncInv' /\ \A d \in Callout : d # c => op'[d] = op[d]
  BY <1>1, <1>2, StopSync
<1> QED BY <1>1, <1>3 DEF SyncStep, Idle

(* What SyncComplete says of one step.                                     *)
Completes(c) ==
  op[c][1] \in {"stop_sync", "terminate"} /\ op'[c][1] = "none" =>
    /\ c_flags'[c] \cap {"PENDING", "ACTIVE"} = {}
    /\ \A p \in Cpu : running'[p] # c

(* Every step keeps SyncInv and ends no synchronous stop too early.        *)
LEMMA NextSync ==
  Inv /\ SyncInv /\ [Next]_vars => SyncInv' /\ \A c \in Callout : Completes(c)
<1> SUFFICES ASSUME Inv, SyncInv, [Next]_vars
             PROVE  SyncInv' /\ \A c \in Callout : Completes(c)
  OBVIOUS
<1>1. ASSUME UNCHANGED op PROVE \A c \in Callout : Completes(c)
  BY <1>1 DEF Completes
<1>2. ASSUME NEW c \in Callout, SyncStep(c)
      PROVE  SyncInv' /\ \A d \in Callout : Completes(d)
  <2>1. ASSUME NEW d \in Callout PROVE Completes(d)
    <3>1. CASE d = c
      BY <1>2, <3>1 DEF SyncStep, Completes
    <3>2. CASE d # c
      <4>1. op'[d] = op[d]
        BY <1>2, <3>2 DEF SyncStep
      <4> QED BY <4>1 DEF Completes
    <3> QED BY <3>1, <3>2
  <2> QED BY <1>2, <2>1 DEF SyncStep
<1>3. CASE UNCHANGED vars
  <2>1. UNCHANGED <<c_flags, c_gd, op, opcpu, stopcpu, running>>
    BY <1>3 DEF vars, calloutVars, softVars, opVars
  <2>2. SyncInv'
    BY <2>1 DEF SyncInv, OneHome, SyncOK, Runs
  <2> QED BY <1>1, <2>1, <2>2
<1>4. CASE \E p \in WheelCpu : hardclock_softtick(p) \/ SoftStep(p)
  <2>1. PICK p \in Cpu : hardclock_softtick(p) \/ SoftStep(p)
    BY <1>4, CalloutAssumption DEF WheelCpu
  <2>2. SoftEffect(p)
    BY <2>1, SoftEffects
  <2>3. SyncInv'
    BY <2>2, SoftSync
  <2>4. UNCHANGED op
    BY <2>2 DEF SoftEffect, Dispatch, opVars
  <2> QED BY <1>1, <2>3, <2>4
<1>5. CASE \E c \in Callout : StopIpi(c) \/ CallStep(c) \/ ClientStep(c)
  <2>1. PICK c \in Callout : StopIpi(c) \/ CallStep(c) \/ ClientStep(c)
    BY <1>5
  <2>2. CASE StopIpi(c) \/ CallStep(c)
    <3>1. SyncStep(c)
      BY <2>2, SyncIpi, SyncIpiWaited, SyncRaceWaited, SyncStopSyncCheck,
         SyncTerminateCheck, SyncTerminatePanic DEF CallStep
    <3> QED BY <1>2, <3>1
  <2>3. CASE ClientStep(c)
    <3>1. ASSUME callout_init(c) PROVE SyncStep(c)
      BY <3>1, SyncInitCall
    <3>2. ASSUME NEW p \in Cpu, NEW n \in 0 .. MaxTicks,
                 callout_reset(p, c, n) \/ Rearm(p, c, n)
          PROVE  SyncStep(c)
      BY <3>2, SyncReset, SyncRearm
    <3>3. ASSUME NEW p \in Cpu,
                 \/ callout_stop(p, c)
                 \/ callout_stop_sync(p, c)
                 \/ callout_terminate(p, c)
                 \/ callout_deactivate(p, c)
          PROVE  SyncStep(c)
      BY <3>3, SyncStops, SyncDeactivate
    <3>4. SyncStep(c)
      BY <2>3, <3>1, <3>2, <3>3 DEF ClientStep
    <3> QED BY <1>2, <3>4
  <2> QED BY <2>1, <2>2, <2>3
<1> QED BY <1>3, <1>4, <1>5 DEF Next

(***************************************************************************)
(* Where each callout is reset on one cpu, callout_stop_sync() and         *)
(* callout_terminate() return only when the callout is neither pending nor *)
(* run by any cpu, also if the callback resets it while they sleep.  The   *)
(* latter may then not return but panic (TerminateReturns).                *)
(***************************************************************************)
THEOREM SynchronousStops == OneHome /\ Spec => SyncComplete
<1>1. OneHome /\ swi_softclock_setup => Inv /\ SyncInv
  <2>1. ASSUME OneHome, swi_softclock_setup PROVE SyncInv
    <3>1. NULL \notin Callout
      BY CalloutAssumption
    <3> QED BY <2>1, <3>1 DEF swi_softclock_setup, SyncInv, SyncOK, Runs
  <2> QED BY <2>1, InitInv
<1>2. Inv /\ SyncInv /\ [Next]_vars => Inv' /\ SyncInv'
  BY NextInv, NextSync
<1>3. Inv /\ SyncInv /\ [Next]_vars =>
        [\A c \in Callout :
           op[c][1] \in {"stop_sync", "terminate"} /\ op'[c][1] = "none" =>
             /\ c_flags'[c] \cap {"PENDING", "ACTIVE"} = {}
             /\ \A p \in Cpu : running'[p] # c]_vars
  BY NextSync DEF Completes
<1> QED BY <1>1, <1>2, <1>3, PTL DEF Spec, SyncComplete

(***************************************************************************)
(* The KKASSERT at the end of callout_terminate() cannot fail where no     *)
(* callback resets its own callout: what callout_stop() has left disarmed  *)
(* no one else arms while the caller sleeps.  Its comment asks only that   *)
(* no deadlock be possible.                                                *)
(***************************************************************************)
THEOREM TerminateReturns ==
  "rearm" \notin Ops /\ Spec => [](\A c \in Callout : op[c] # <<"terminate", "panic">>)
<1> DEFINE Calm == "rearm" \notin Ops
<1>1. Inv /\ Calm => \A c \in Callout : op[c] # <<"terminate", "panic">>
  BY DEF Inv, FlagsOK
<1>2. Calm => Calm'
  OBVIOUS
<1> HIDE DEF Calm
<1>3. Calm /\ Spec => [](\A c \in Callout : op[c] # <<"terminate", "panic">>)
  BY <1>1, <1>2, CalloutInvariant, PTL
<1> QED BY <1>3 DEF Calm

-----------------------------------------------------------------------------
(* Callouts that do not need the MP lock are called on time.               *)

(* Only a callout that needs the MP lock waits for it.                     *)
MpInv == \A p \in Cpu : pc[p] = "mplock" => scan[p] \in Callout \ MpSafe

(* What a step of the softclock thread of p keeps and promises.            *)
OnTimeStep(p) ==
  /\ \A q \in Cpu : q # p => /\ pc'[q] = pc[q] /\ scan'[q] = scan[q]
                             /\ running'[q] = running[q]
  /\ pc'[p] = "mplock" => scan'[p] \in Callout \ MpSafe
  /\ running'[p] # running[p] /\ running'[p] \in MpSafe =>
       c_time[running'[p]] = softticks[p]

(* Dispatch() of a callout that is due, or that waited for the MP lock.    *)
LEMMA DispatchOnTime ==
  ASSUME Inv, NEW p \in Cpu, NEW c \in Callout, Dispatch(p, c),
         c \in MpSafe => c_time[c] = softticks[p]
  PROVE  OnTimeStep(p)
<1>1. /\ running' = [running EXCEPT ![p] = c]
      /\ pc' = [pc EXCEPT ![p] = "func"]
      /\ scan' = [scan EXCEPT ![p] = NULL]
  BY DEF Dispatch
<1>2. TypeOK
  BY DEF Inv
<1> QED BY <1>1, <1>2 DEF OnTimeStep, TypeOK

(* The scan of softclock_handler() dispatches what is due, or waits for    *)
(* the MP lock with a callout that needs it.                               *)
LEMMA ScanOnTime ==
  ASSUME Inv, NEW p \in Cpu, NEW rest \in Seq(Callout), ScanRest(p, rest)
  PROVE  OnTimeStep(p)
<1> DEFINE c == FirstDue(p, rest)
<1>1. TypeOK /\ MpSafe \subseteq Callout /\ NULL \notin Callout
  BY CalloutAssumption DEF Inv
<1>2. CASE Due(p, rest) = {}
  <2>1. /\ running' = [running EXCEPT ![p] = NULL]
        /\ pc' = [pc EXCEPT ![p] = "bucket"]
        /\ scan' = [scan EXCEPT ![p] = NULL]
    BY <1>2, Zenon DEF ScanRest, Due
  <2> QED BY <1>1, <2>1 DEF OnTimeStep, TypeOK
<1>3. CASE Due(p, rest) # {}
  <2>1. c \in Callout /\ c_time[c] = softticks[p]
    BY <1>3, FirstDueIs
  <2>2. IF c \in MpSafe \/ mp[p]
        THEN Dispatch(p, c)
        ELSE /\ next' = [next EXCEPT ![p] = c]
             /\ scan' = [scan EXCEPT ![p] = c]
             /\ running' = [running EXCEPT ![p] = NULL]
             /\ pc' = [pc EXCEPT ![p] = "mplock"]
             /\ UNCHANGED <<calloutVars, wheel, clockVars, opVars>>
    BY <1>3, Zenon DEF ScanRest, Due, FirstDue
  <2> HIDE DEF c
  <2>3. CASE c \in MpSafe \/ mp[p]
    <3>1. Dispatch(p, c)
      BY <2>2, <2>3, Zenon
    <3> QED BY <2>1, <3>1, DispatchOnTime
  <2>4. CASE ~(c \in MpSafe \/ mp[p])
    <3>1. /\ running' = [running EXCEPT ![p] = NULL]
          /\ pc' = [pc EXCEPT ![p] = "mplock"]
          /\ scan' = [scan EXCEPT ![p] = c]
      BY <2>2, <2>4, Zenon
    <3> QED BY <1>1, <2>1, <2>4, <3>1 DEF OnTimeStep, TypeOK
  <2> QED BY <2>3, <2>4
<1> QED BY <1>2, <1>3

(* The clock interrupt and the softclock thread.                           *)
LEMMA SoftOnTime ==
  ASSUME Inv, MpInv, NEW p \in Cpu, hardclock_softtick(p) \/ SoftStep(p)
  PROVE  OnTimeStep(p)
<1> DEFINE s == BucketOf(p, softticks[p])
<1>1. s \in Seq(Callout) /\ From(s, next[p]) \in Seq(Callout)
  BY RestOfBucket
<1>2. TypeOK
  BY DEF Inv
<1>3. CASE hardclock_softtick(p)
  <2>1. /\ pc' = pc \/ pc' = [pc EXCEPT ![p] = "bucket"]
        /\ UNCHANGED <<scan, running>>
    BY <1>3 DEF hardclock_softtick
  <2> QED BY <1>2, <2>1 DEF OnTimeStep, MpInv, TypeOK
<1>4. CASE FuncDone(p)
  <2>1. ScanRest(p, From(s, next[p]))
    BY <1>4 DEF FuncDone
  <2> QED BY <1>1, <2>1, ScanOnTime
<1>5. CASE GotMplock(p)
  <2>1. CASE next[p] = scan[p]
    <3>1. Dispatch(p, scan[p]) /\ pc[p] = "mplock"
      BY <1>5, <2>1, Zenon DEF GotMplock
    <3>2. scan[p] \in Callout \ MpSafe
      BY <3>1 DEF MpInv
    <3> QED BY <3>1, <3>2, DispatchOnTime
  <2>2. CASE next[p] # scan[p]
    <3>1. ScanRest(p, From(s, next[p]))
      BY <1>5, <2>2, Zenon DEF GotMplock
    <3> QED BY <1>1, <3>1, ScanOnTime
  <2> QED BY <2>1, <2>2
<1>6. CASE softclock_handler(p)
  <2>1. CASE softticks[p] = Plus(curticks[p], 1)
    <3>1. /\ pc' = [pc EXCEPT ![p] = "off"]
          /\ UNCHANGED <<calloutVars, wheel, next, softticks, curticks, running, scan, mp, opVars>>
      BY <1>6, <2>1, Zenon DEF softclock_handler
    <3> QED BY <1>2, <3>1 DEF OnTimeStep, TypeOK
  <2>2. CASE softticks[p] # Plus(curticks[p], 1)
    <3>1. ScanRest(p, s)
      BY <1>6, <2>2, Zenon DEF softclock_handler
    <3> QED BY <1>1, <3>1, ScanOnTime
  <2> QED BY <2>1, <2>2
<1> QED BY <1>3, <1>4, <1>5, <1>6 DEF SoftStep

(* No call changes what the softclock threads have in hand.                *)
LEMMA CallsLeaveSoft ==
  ASSUME NEW c \in Callout, StopIpi(c) \/ CallStep(c) \/ ClientStep(c)
  PROVE  UNCHANGED softVars
<1>1. ASSUME NEW p, NEW call, Stop(p, c, call) PROVE UNCHANGED softVars
  BY <1>1 DEF Stop, SendStop
<1>2. CASE StopIpi(c)
  BY <1>2 DEF StopIpi
<1>3. CASE IpiWaited(c)
  BY <1>3 DEF IpiWaited
<1>4. CASE RaceWaited(c) \/ TerminateCheck(c) \/ TerminatePanic(c)
  BY <1>4 DEF RaceWaited, TerminateCheck, TerminatePanic
<1>5. CASE StopSyncCheck(c)
  BY <1>1, <1>5 DEF StopSyncCheck
<1>6. CASE callout_init(c)
  BY <1>6 DEF callout_init
<1>7. ASSUME NEW p \in Cpu, NEW n \in 0 .. MaxTicks,
             callout_reset(p, c, n) \/ Rearm(p, c, n)
      PROVE  UNCHANGED softVars
  BY <1>7 DEF callout_reset, Rearm, SendStop
<1>8. ASSUME NEW p \in Cpu, callout_stop(p, c) \/ callout_stop_sync(p, c)
      PROVE  UNCHANGED softVars
  BY <1>1, <1>8 DEF callout_stop, callout_stop_sync
<1>9. ASSUME NEW p \in Cpu, callout_terminate(p, c) \/ callout_deactivate(p, c)
      PROVE  UNCHANGED softVars
  BY <1>1, <1>9 DEF callout_terminate, callout_deactivate
<1>10. CASE ClientStep(c)
  BY <1>6, <1>7, <1>8, <1>9, <1>10 DEF ClientStep
<1> QED BY <1>2, <1>3, <1>4, <1>5, <1>10 DEF CallStep

(* What MpSafeOnTime says of one step.                                     *)
OnTime ==
  \A p \in Cpu, c \in MpSafe :
    running'[p] = c /\ running[p] # c => c_time[c] = softticks[p]

(* Every step keeps MpInv and calls no such callout before its tick.       *)
LEMMA NextOnTime == Inv /\ MpInv /\ [Next]_vars => MpInv' /\ OnTime
<1> SUFFICES ASSUME Inv, MpInv, [Next]_vars PROVE MpInv' /\ OnTime
  OBVIOUS
<1>1. ASSUME UNCHANGED softVars PROVE MpInv' /\ OnTime
  BY <1>1 DEF softVars, MpInv, OnTime
<1>2. CASE UNCHANGED vars
  BY <1>1, <1>2 DEF vars
<1>3. CASE \E p \in WheelCpu : hardclock_softtick(p) \/ SoftStep(p)
  <2>1. PICK p \in Cpu : hardclock_softtick(p) \/ SoftStep(p)
    BY <1>3, CalloutAssumption DEF WheelCpu
  <2>2. OnTimeStep(p)
    BY <2>1, SoftOnTime
  <2> QED BY <2>2 DEF OnTimeStep, MpInv, OnTime
<1>4. CASE \E c \in Callout : StopIpi(c) \/ CallStep(c) \/ ClientStep(c)
  BY <1>1, <1>4, CallsLeaveSoft
<1> QED BY <1>2, <1>3, <1>4 DEF Next

(***************************************************************************)
(* A callout of callout_init_mp() is called in the tick it was set for,    *)
(* whatever others wait for the MP lock.  It is the test of sc->next after *)
(* get_mplock() alone that lets others be called early (FiresOnTime).      *)
(***************************************************************************)
THEOREM MpSafeOnTime ==
  Spec => [][\A p \in Cpu, c \in MpSafe :
               running'[p] = c /\ running[p] # c => c_time[c] = softticks[p]]_vars
<1>1. swi_softclock_setup => Inv /\ MpInv
  <2>1. swi_softclock_setup => MpInv
    BY DEF swi_softclock_setup, MpInv
  <2> QED BY <2>1, InitInv
<1>2. Inv /\ MpInv /\ [Next]_vars => Inv' /\ MpInv'
  BY NextInv, NextOnTime
<1>3. Inv /\ MpInv /\ [Next]_vars =>
        [\A p \in Cpu, c \in MpSafe :
           running'[p] = c /\ running[p] # c => c_time[c] = softticks[p]]_vars
  BY NextOnTime DEF OnTime
<1> QED BY <1>1, <1>2, <1>3, PTL DEF Spec
=============================================================================
