--------------------------- MODULE LwktIpiq_proofs ---------------------------
(***************************************************************************)
(* The FIFOs never overflow, and lwkt_cpusync_simple() interlocks and      *)
(* releases the other cpus, for every number of cpus that the ring of      *)
(* polled requests has room for, every length of the FIFOs from 5 on and   *)
(* every mix of calls.                                                     *)
(***************************************************************************)
EXTENDS LwktIpiq, SequenceTheorems, FiniteSetTheorems, WellFoundedInduction, TLAPS

(* A call that has called another one and waits for it to return.          *)
Suspended(f) ==
  \/ f.fn \in {"send", "passive"} /\ f.at = "loop"
  \/ f.fn = "wait"
  \/ f.fn = "process" /\ f.at = "core"
  \/ f.fn = "func" /\ f.at = "done"
  \/ f.fn = "cpusync" /\ f.at \in {"send", "interlock", "deinterlock"}

(* What a call of cpu p looks like.                                        *)
Shape(p, f) ==
  /\ f \in Frame
  /\ f.fn \in {"send", "passive"} => f.at \in {"test", "loop", "mask", "signal"}
  /\ f.fn \in {"send", "passive", "wait", "func"} => f.cpu # p
  /\ f.fn = "passive" => f.msg # "remote1"
  /\ f.fn = "process" =>
       /\ f.at \in {"again", "clear", "core", "sync", "test", "release", "recheck"}
       /\ p \notin f.mask
       /\ f.at = "core" => f.cpu \in f.mask
  /\ f.fn = "func" => f.at \in {"remote1", "remote2", "done"}
  /\ f.fn = "cpusync" =>
       /\ f.at \in {"send", "interlock", "held", "deinterlock"}
       /\ p \notin f.mask
       /\ f.at = "send" <=> f.mask # {}

(* How the calls of a stack s are nested: i's place in it.                 *)
Nested(s, i) ==
  /\ i < Len(s) => Suspended(s[i])
  /\ s[i].fn = "func" => i > 1 /\ s[i - 1].fn = "process"
  /\ s[i].fn = "cpusync" => i = 1
  /\ s[i].fn = "send" /\ s[i].msg = "remote1" => i = 2 /\ s[1].fn = "cpusync"

StackOK(p, s) ==
  /\ s \in Seq(Frame)
  /\ \A i \in 1 .. Len(s) : Shape(p, s[i]) /\ Nested(s, i)

StackInv == \A p \in Cpu : StackOK(p, stack[p])

(* The types of what does not belong to cpusync.                           *)
IpiqType ==
  /\ fifo \in [Pair -> Seq(Msg)]
  /\ rindex \in [Pair -> Nat] /\ xindex \in [Pair -> Nat]
  /\ ipimask \in [Cpu -> SUBSET Cpu] /\ \A p \in Cpu : p \notin ipimask[p]
  /\ npoll \in [Cpu -> BOOLEAN] /\ hwipi \in [Cpu -> BOOLEAN]
  /\ stack \in [Cpu -> Seq(Frame)]
  /\ calls \in [Cpu -> 0 .. MaxCalls]

-----------------------------------------------------------------------------
(* The calls that take part in a cpusync before cs_func has been run.      *)
SyncFrame(f) ==
  \/ f.fn = "cpusync"
  \/ f.fn = "send" /\ f.msg = "remote1" /\ f.at \in {"test", "loop"}
  \/ f.fn = "func" /\ f.at \in {"remote1", "remote2"}

Sync(p) == {f \in CallsOf(p) : SyncFrame(f)}

(* Where the request of p's cpusync to cpu q is.                           *)
ToAsk(p, q) == \E f \in Sync(p) : f.fn = "cpusync" /\ q \in f.mask
Asking(p, q) == \E f \in Sync(p) : f.fn = "send" /\ f.cpu = q
Asked(p, q) == \E i \in 1 .. Len(fifo[<<p, q>>]) : fifo[<<p, q>>][i] = "remote1"
Answering(p, q) == \E f \in Sync(q) : f.fn = "func" /\ f.at = "remote1" /\ f.cpu = p
Checking(p, q) == \E f \in Sync(q) : f.fn = "func" /\ f.at = "remote2" /\ f.cpu = p
Polling(p, q) == \E i \in 1 .. Len(cpusyncq[q]) : cpusyncq[q][i] = p

Unanswered(p, q) == ToAsk(p, q) \/ Asking(p, q) \/ Asked(p, q) \/ Answering(p, q)
Answered(p, q) == Checking(p, q) \/ Polling(p, q)

(* It is in one place only.                                                *)
OnePlace(p, q) ==
  /\ ToAsk(p, q) => ~Asking(p, q) /\ ~Asked(p, q) /\ ~Answering(p, q) /\ ~Answered(p, q)
  /\ Asking(p, q) => ~Asked(p, q) /\ ~Answering(p, q) /\ ~Answered(p, q)
  /\ Asked(p, q) => ~Answering(p, q) /\ ~Answered(p, q)
  /\ Answering(p, q) => ~Answered(p, q)
  /\ ~(Checking(p, q) /\ Polling(p, q))

Stage(p, a) == \E f \in Sync(p) : f.fn = "cpusync" /\ f.at = a
Interlocking(p) == Stage(p, "send") \/ Stage(p, "interlock")
Held(p) == Stage(p, "held")
Releasing(p) == Stage(p, "deinterlock")
Syncing(p) == \E f \in Sync(p) : f.fn = "cpusync"

Once(p, q) ==
  \A i, j \in 1 .. Len(fifo[<<p, q>>]) :
    fifo[<<p, q>>][i] = "remote1" /\ fifo[<<p, q>>][j] = "remote1" => i = j

RequestInv(p, q) ==
  /\ OnePlace(p, q)
  /\ Interlocking(p) => /\ Unanswered(p, q) <=> q \notin cs_mack[p]
                        /\ Answered(p, q) <=> q \in cs_mack[p]
                        /\ ran[p][q] = 0
  /\ Held(p) => Answered(p, q) /\ q \in cs_mack[p] /\ ran[p][q] = 0
  /\ Releasing(p) => /\ ~Unanswered(p, q)
                     /\ Answered(p, q) <=> q \notin cs_mack[p]
                     /\ ran[p][q] = IF q \in cs_mack[p] THEN 1 ELSE 0
  /\ ~Syncing(p) => ~Unanswered(p, q) /\ ~Answered(p, q) /\ ran[p][q] = ran[p][p]
  /\ Once(p, q)

MasterInv(p) ==
  /\ td_cscount[p] = IF Syncing(p) THEN 1 ELSE 0
  /\ ran[p][p] \in {0, 1}
  /\ Interlocking(p) \/ Held(p) => ran[p][p] = 0
  /\ Releasing(p) => ran[p][p] = 1
  /\ p \notin cs_mack[p]

(* A call that will look at gd_cpusyncq before it returns.                 *)
Looks(f) == f.fn = "process" /\ f.at \in {"again", "clear", "core", "sync"}

(* A pass over gd_cpusyncq finds as many entries as it counted.            *)
Passes(p, f) == f.fn = "process" /\ f.at = "sync" => f.seq \in 1 .. Len(cpusyncq[p])

(* The list that q polls, and who looks at it.                             *)
PollInv(q) ==
  /\ \A i, j \in 1 .. Len(cpusyncq[q]) : cpusyncq[q][i] = cpusyncq[q][j] => i = j
  /\ \A i \in 1 .. Len(cpusyncq[q]) : cpusyncq[q][i] # q
  /\ \A i \in 1 .. Len(stack[q]) : Passes(q, stack[q][i])
  /\ cpusyncq[q] # <<>> /\ ~Syncing(q) => \E i \in 1 .. Len(stack[q]) : Looks(stack[q][i])

SyncType ==
  /\ cpusyncq \in [Cpu -> Seq(Cpu)]
  /\ cs_mack \in [Cpu -> SUBSET Cpu]
  /\ td_cscount \in [Cpu -> 0 .. 1]
  /\ ran \in [Cpu -> [Cpu -> 0 .. 2]]

SyncInv ==
  /\ SyncType
  /\ \A p \in Cpu : MasterInv(p) /\ PollInv(p)
  /\ \A p, q \in Cpu : p # q => RequestInv(p, q)

(* The inductive invariant.                                                *)
Base == IpiqType /\ StackInv /\ FifoBounded
Inv == Base /\ SyncInv

-----------------------------------------------------------------------------
(* Cpus, calls and stacks.                                                 *)

(* A nonempty set of cpus has a lowest one, which the bsf of a mask finds. *)
LEMMA LowestCpu ==
  ASSUME NEW S \in SUBSET Cpu, S # {}
  PROVE  (CHOOSE q \in S : \A r \in S : q <= r) \in S
<1>1. S \subseteq Nat
  BY IpiqAssumption DEF Cpu
<1>2. PICK x \in S : \A y \in S : ~(<<y, x>> \in OpToRel(<, Nat))
  BY <1>1, NatLessThanWellFounded, WFMin
<1>3. \A y \in S : ~(y < x)
  BY <1>1, <1>2 DEF OpToRel
<1>4. \A y \in S : x <= y
  BY <1>1, <1>3
<1> QED BY <1>4

(* The fields of a call, and a call that is somewhere else now.            *)
LEMMA FrameFields ==
  ASSUME NEW f \in Frame
  PROVE  /\ f.fn \in {"send", "passive", "process", "func", "wait", "cpusync"}
         /\ f.at \in Place /\ f.cpu \in Cpu /\ f.msg \in Msg /\ f.seq \in Nat
         /\ f.mask \in SUBSET Cpu
BY DEF Frame

(* A call that is pushed has the fields it was called with.                *)
LEMMA FrameCall ==
  ASSUME NEW fn \in {"send", "passive", "process", "func", "wait", "cpusync"},
         NEW at \in Place, NEW q \in Cpu, NEW m \in Msg, NEW seq \in Nat,
         NEW mask \in SUBSET Cpu, NEW f, f = Call(fn, at, q, m, seq, mask)
  PROVE  /\ f \in Frame /\ f.fn = fn /\ f.at = at /\ f.cpu = q /\ f.msg = m
         /\ f.seq = seq /\ f.mask = mask
BY DEF Call, Frame

(* A call that moves on keeps its other fields.                            *)
LEMMA FrameAt ==
  ASSUME NEW f \in Frame, NEW a \in Place, NEW g, g = [f EXCEPT !.at = a]
  PROVE  /\ g \in Frame /\ g.at = a /\ g.fn = f.fn /\ g.cpu = f.cpu
         /\ g.msg = f.msg /\ g.seq = f.seq /\ g.mask = f.mask
BY DEF Frame

(* A stack without its top, and with another call on top.                  *)
LEMMA FramePop ==
  ASSUME NEW s \in Seq(Frame), s # <<>>
  PROVE  LET r == SubSeq(s, 1, Len(s) - 1)
         IN  /\ r \in Seq(Frame) /\ Len(r) = Len(s) - 1 /\ Len(s) \in Nat /\ Len(s) > 0
             /\ \A i \in 1 .. Len(s) - 1 : r[i] = s[i]
<1>1. Len(s) \in Nat /\ Len(s) > 0 /\ \A i \in 1 .. Len(s) - 1 : s[i] \in Frame
  OBVIOUS
<1> DEFINE n == Len(s) - 1
           r == SubSeq(s, 1, n)
<1>2. n \in Nat /\ \A i \in 1 .. n : s[i] \in Frame
  BY <1>1
<1> HIDE DEF n
<1>3. r \in Seq(Frame) /\ Len(r) = (IF 1 <= n THEN n - 1 + 1 ELSE 0)
      /\ \A i \in 1 .. n - 1 + 1 : r[i] = s[1 + i - 1]
  BY <1>2, SubSeqProperties
<1> HIDE DEF r
<1>4. Len(r) = n /\ \A i \in 1 .. n : r[i] = s[i]
  BY <1>2, <1>3
<1> QED BY <1>1, <1>3, <1>4 DEF r, n

(* A stack with one more call on top of it.                                *)
LEMMA FramePush ==
  ASSUME NEW s \in Seq(Frame), NEW e \in Frame
  PROVE  LET r == Append(s, e)
         IN  /\ r \in Seq(Frame) /\ Len(r) = Len(s) + 1 /\ Len(s) \in Nat
             /\ \A i \in 1 .. Len(s) : r[i] = s[i]
             /\ r[Len(s) + 1] = e
OBVIOUS

(***************************************************************************)
(* The stack of p keeps its n outermost calls, and those of new follow.    *)
(***************************************************************************)
Became(p, n, new) ==
  /\ stack' \in [Cpu -> Seq(Frame)]
  /\ \A q \in Cpu \ {p} : stack'[q] = stack[q]
  /\ n \in 0 .. Len(stack[p]) /\ Len(stack'[p]) = n + Len(new) /\ Len(new) \in Nat
  /\ \A i \in 1 .. n : stack'[p][i] = stack[p][i]
  /\ \A i \in 1 .. Len(new) : stack'[p][n + i] = new[i]

(* Replacing the stack of one cpu.                                         *)
LEMMA BecameBy ==
  ASSUME IpiqType, NEW p \in Cpu, NEW r \in Seq(Frame), stack' = [stack EXCEPT ![p] = r],
         NEW n \in 0 .. Len(stack[p]), NEW new, Len(new) \in Nat, Len(r) = n + Len(new),
         \A i \in 1 .. n : r[i] = stack[p][i],
         \A i \in 1 .. Len(new) : r[n + i] = new[i]
  PROVE  Became(p, n, new)
<1>1. stack'[p] = r /\ stack' \in [Cpu -> Seq(Frame)]
  BY DEF IpiqType
<1>2. \A q \in Cpu \ {p} : stack'[q] = stack[q]
  BY DEF IpiqType
<1> QED BY <1>1, <1>2 DEF Became

(* The innermost call moves on: Goto() replaces the top of the stack.      *)
LEMMA GotoBecame ==
  ASSUME IpiqType, NEW p \in Cpu, stack[p] # <<>>, NEW f \in Frame, Goto(p, f)
  PROVE  Became(p, Len(stack[p]) - 1, <<f>>)
<1>1. PICK b : b = Below(p)
  OBVIOUS
<1>2. stack[p] \in Seq(Frame)
  BY DEF IpiqType
<1>3. /\ b \in Seq(Frame) /\ Len(b) = Len(stack[p]) - 1 /\ Len(stack[p]) \in Nat
      /\ Len(stack[p]) > 0 /\ \A i \in 1 .. Len(stack[p]) - 1 : b[i] = stack[p][i]
  BY <1>1, <1>2, FramePop DEF Below
<1>4. PICK r : r = Append(b, f)
  OBVIOUS
<1>5. r \in Seq(Frame) /\ Len(r) = Len(stack[p]) - 1 + 1
      /\ (\A i \in 1 .. Len(stack[p]) - 1 : r[i] = stack[p][i])
      /\ r[Len(stack[p]) - 1 + 1] = f
  BY <1>3, <1>4, FramePush
<1>6. Len(<<f>>) = 1 /\ <<f>>[1] = f
  OBVIOUS
<1>7. stack' = [stack EXCEPT ![p] = r]
  BY <1>1, <1>4 DEF Goto
<1>8. PICK n \in 0 .. Len(stack[p]) : n = Len(stack[p]) - 1
  BY <1>3
<1>9. \A i \in 1 .. Len(<<f>>) : r[n + i] = <<f>>[i]
  BY <1>5, <1>6, <1>8
<1> QED BY <1>5, <1>6, <1>7, <1>8, <1>9, BecameBy

(* A call is made: Push() leaves what is below it.                         *)
LEMMA PushBecame ==
  ASSUME IpiqType, NEW p \in Cpu, NEW f \in Frame, Push(p, f)
  PROVE  Became(p, Len(stack[p]), <<f>>)
<1>1. PICK r : r = Append(stack[p], f)
  OBVIOUS
<1>2. stack[p] \in Seq(Frame)
  BY DEF IpiqType
<1>3. r \in Seq(Frame) /\ Len(r) = Len(stack[p]) + 1 /\ Len(stack[p]) \in Nat
      /\ (\A i \in 1 .. Len(stack[p]) : r[i] = stack[p][i]) /\ r[Len(stack[p]) + 1] = f
  BY <1>1, <1>2, FramePush
<1>4. Len(<<f>>) = 1 /\ <<f>>[1] = f
  OBVIOUS
<1>5. stack' = [stack EXCEPT ![p] = r]
  BY <1>1 DEF Push
<1>6. PICK n : n = Len(stack[p]) /\ n \in 0 .. Len(stack[p])
  BY <1>3
<1>7. \A i \in 1 .. Len(<<f>>) : r[n + i] = <<f>>[i]
  BY <1>3, <1>4, <1>6
<1> QED BY <1>3, <1>4, <1>5, <1>6, <1>7, BecameBy

(* The innermost call returns: Return() removes the top.                   *)
LEMMA ReturnBecame ==
  ASSUME IpiqType, NEW p \in Cpu, stack[p] # <<>>, Return(p)
  PROVE  Became(p, Len(stack[p]) - 1, <<>>)
<1>1. PICK b : b = Below(p)
  OBVIOUS
<1>2. stack[p] \in Seq(Frame)
  BY DEF IpiqType
<1>3. /\ b \in Seq(Frame) /\ Len(b) = Len(stack[p]) - 1 /\ Len(stack[p]) \in Nat
      /\ Len(stack[p]) > 0 /\ \A i \in 1 .. Len(stack[p]) - 1 : b[i] = stack[p][i]
  BY <1>1, <1>2, FramePop DEF Below
<1>4. Len(<<>>) = 0 /\ Len(b) = Len(stack[p]) - 1 + Len(<<>>)
  BY <1>3
<1>5. stack' = [stack EXCEPT ![p] = b]
  BY <1>1 DEF Return
<1>6. PICK n \in 0 .. Len(stack[p]) : n = Len(stack[p]) - 1
  BY <1>3
<1>7. \A i \in 1 .. Len(<<>>) : b[n + i] = <<>>[i]
  BY <1>4
<1> QED BY <1>3, <1>4, <1>5, <1>6, <1>7, BecameBy

(* The innermost call moves on and calls another one.                      *)
LEMMA GotoPushBecame ==
  ASSUME IpiqType, NEW p \in Cpu, stack[p] # <<>>, NEW f \in Frame, NEW g \in Frame,
         GotoPush(p, f, g)
  PROVE  Became(p, Len(stack[p]) - 1, <<f, g>>)
<1>1. PICK b : b = Below(p)
  OBVIOUS
<1>2. stack[p] \in Seq(Frame)
  BY DEF IpiqType
<1>3. /\ b \in Seq(Frame) /\ Len(b) = Len(stack[p]) - 1 /\ Len(stack[p]) \in Nat
      /\ Len(stack[p]) > 0 /\ \A i \in 1 .. Len(stack[p]) - 1 : b[i] = stack[p][i]
  BY <1>1, <1>2, FramePop DEF Below
<1>4. PICK n \in 0 .. Len(stack[p]) : n = Len(stack[p]) - 1
  BY <1>3
<1>5. PICK q : q = Append(b, f)
  OBVIOUS
<1>6. q \in Seq(Frame) /\ Len(q) = n + 1 /\ (\A i \in 1 .. n : q[i] = b[i]) /\ q[n + 1] = f
  BY <1>3, <1>4, <1>5, FramePush
<1>7. PICK r : r = Append(q, g)
  OBVIOUS
<1>8. r \in Seq(Frame) /\ Len(r) = n + 2 /\ (\A i \in 1 .. n : r[i] = b[i])
      /\ r[n + 1] = f /\ r[n + 2] = g
  <2>1. /\ r \in Seq(Frame) /\ Len(r) = Len(q) + 1 /\ \A i \in 1 .. Len(q) : r[i] = q[i]
        /\ r[Len(q) + 1] = g
    BY <1>6, <1>7, FramePush
  <2> QED BY <1>6, <2>1
<1>9. Len(<<f, g>>) = 2 /\ <<f, g>>[1] = f /\ <<f, g>>[2] = g
  OBVIOUS
<1>10. stack' = [stack EXCEPT ![p] = r]
  BY <1>1, <1>5, <1>7 DEF GotoPush
<1>11. \A i \in 1 .. Len(<<f, g>>) : r[n + i] = <<f, g>>[i]
  BY <1>8, <1>9
<1>12. \A i \in 1 .. n : r[i] = stack[p][i]
  BY <1>3, <1>4, <1>8
<1>13. PICK new : new = <<f, g>>
  OBVIOUS
<1>14. Len(new) \in Nat /\ Len(r) = n + Len(new) /\ \A i \in 1 .. Len(new) : r[n + i] = new[i]
  BY <1>8, <1>9, <1>11, <1>13
<1>15. Became(p, n, new)
  BY <1>8, <1>10, <1>12, <1>14, BecameBy
<1> QED BY <1>4, <1>13, <1>15

(* The functions of lwkt_process_ipiq_core() go on top of the stack.       *)
LEMMA CallsBecame ==
  ASSUME IpiqType, NEW p \in Cpu, NEW c \in Seq(Frame),
         stack' = [stack EXCEPT ![p] = @ \o c]
  PROVE  Became(p, Len(stack[p]), c)
<1>1. stack[p] \in Seq(Frame) /\ Len(stack[p]) \in Nat /\ Len(c) \in Nat
  BY DEF IpiqType
<1>2. PICK r : r = stack[p] \o c
  OBVIOUS
<1>3. /\ r \in Seq(Frame) /\ Len(r) = Len(stack[p]) + Len(c)
      /\ \A i \in 1 .. Len(stack[p]) + Len(c) :
           r[i] = IF i <= Len(stack[p]) THEN stack[p][i] ELSE c[i - Len(stack[p])]
  BY <1>1, <1>2, ConcatProperties
<1>4. PICK n \in 0 .. Len(stack[p]) : n = Len(stack[p])
  BY <1>1
<1>5. \A i \in 1 .. n : r[i] = stack[p][i]
  BY <1>1, <1>3, <1>4
<1>6. \A i \in 1 .. Len(c) : r[n + i] = c[i]
  <2> TAKE i \in 1 .. Len(c)
  <2>1. n + i \in 1 .. Len(stack[p]) + Len(c) /\ ~(n + i <= Len(stack[p]))
        /\ n + i - Len(stack[p]) = i
    BY <1>1, <1>4
  <2> QED BY <1>3, <2>1
<1>7. stack' = [stack EXCEPT ![p] = r]
  BY <1>2
<1> QED BY <1>1, <1>3, <1>4, <1>5, <1>6, <1>7, BecameBy

(***************************************************************************)
(* A stack stays well nested when what is new on it is, and when a call    *)
(* that gets another one on top may wait for it.                           *)
(***************************************************************************)
LEMMA StackBecame ==
  ASSUME IpiqType, StackInv, NEW p \in Cpu, NEW n, NEW new, Became(p, n, new),
         \A i \in 1 .. Len(new) : Shape(p, new[i]) /\ Nested(stack'[p], n + i),
         n = Len(stack[p]) /\ n > 0 /\ Len(new) > 0 => Suspended(stack[p][n])
  PROVE  StackInv'
<1>1. /\ stack' \in [Cpu -> Seq(Frame)]
      /\ \A q \in Cpu \ {p} : stack'[q] = stack[q]
      /\ n \in 0 .. Len(stack[p]) /\ Len(stack'[p]) = n + Len(new) /\ Len(new) \in Nat
      /\ \A i \in 1 .. n : stack'[p][i] = stack[p][i]
      /\ \A i \in 1 .. Len(new) : stack'[p][n + i] = new[i]
  BY DEF Became
<1>2. stack[p] \in Seq(Frame) /\ Len(stack[p]) \in Nat
      /\ \A i \in 1 .. Len(stack[p]) : Shape(p, stack[p][i]) /\ Nested(stack[p], i)
  <2>1. StackOK(p, stack[p])
    BY DEF StackInv
  <2> QED BY <2>1 DEF StackOK
<1>3. ASSUME NEW i \in 1 .. n PROVE Shape(p, stack'[p][i]) /\ Nested(stack'[p], i)
  <2>1. i \in 1 .. Len(stack[p]) /\ stack'[p][i] = stack[p][i]
        /\ Shape(p, stack[p][i]) /\ Nested(stack[p], i)
    BY <1>1, <1>2, <1>3
  <2>2. i < Len(stack'[p]) => Suspended(stack[p][i])
    <3>1. CASE i < Len(stack[p])
      BY <2>1, <3>1 DEF Nested
    <3>2. CASE i = Len(stack[p])
      BY <1>1, <1>2, <1>3, <3>2
    <3> QED BY <1>2, <2>1, <3>1, <3>2
  <2>3. stack[p][i].fn = "func" => i > 1 /\ stack'[p][i - 1].fn = "process"
    <3>1. stack[p][i].fn = "func" => i > 1 /\ stack[p][i - 1].fn = "process"
      BY <2>1 DEF Nested
    <3>2. i > 1 => i - 1 \in 1 .. n
      BY <1>1, <1>2, <1>3
    <3> QED BY <1>1, <3>1, <3>2
  <2>4. stack[p][i].fn = "cpusync" => i = 1
    BY <2>1 DEF Nested
  <2>5. stack[p][i].fn = "send" /\ stack[p][i].msg = "remote1" => i = 2 /\ stack'[p][1].fn = "cpusync"
    <3>1. stack[p][i].fn = "send" /\ stack[p][i].msg = "remote1" => i = 2 /\ stack[p][1].fn = "cpusync"
      BY <2>1 DEF Nested
    <3>2. i = 2 => 1 \in 1 .. n
      BY <1>1, <1>2, <1>3
    <3> QED BY <1>1, <3>1, <3>2
  <2> QED BY <2>1, <2>2, <2>3, <2>4, <2>5 DEF Nested
<1>4. ASSUME NEW i \in 1 .. Len(stack'[p]) PROVE Shape(p, stack'[p][i]) /\ Nested(stack'[p], i)
  <2>1. CASE i <= n
    BY <1>1, <1>2, <1>3, <2>1
  <2>2. CASE i > n
    <3>1. PICK j \in 1 .. Len(new) : i = n + j
      <4>1. i - n \in 1 .. Len(new) /\ i = n + (i - n)
        BY <1>1, <1>2, <2>2
      <4> QED BY <4>1
    <3> QED BY <1>1, <3>1
  <2> QED BY <1>1, <1>2, <2>1, <2>2
<1>5. StackOK(p, stack'[p])
  BY <1>1, <1>4 DEF StackOK
<1>6. \A q \in Cpu \ {p} : StackOK(q, stack'[q])
  BY <1>1 DEF StackInv
<1> QED BY <1>5, <1>6 DEF StackInv

-----------------------------------------------------------------------------
(* The FIFOs.                                                              *)

FifoOK == fifo \in [Pair -> Seq(Msg)] /\ FifoBounded

Queued(p, q, m) == fifo' = [fifo EXCEPT ![<<p, q>>] = Append(@, m)]

(* The three tests that let a message in leave room for it.                *)
LEMMA RoomLeft ==
  ASSUME NEW d \in Nat,
         \/ ~(d > MAXCPUFIFO \div 2)
         \/ ~(d >= (MAXCPUFIFO * 2) \div 3)
         \/ ~(d > MAXCPUFIFO \div 4)
  PROVE  d + 1 < MAXCPUFIFO - 1
<1>1. MAXCPUFIFO \in Nat /\ MAXCPUFIFO >= 5
  BY IpiqAssumption
<1> QED BY <1>1

(* A message is queued where there is room, and the FIFO keeps its bound.  *)
LEMMA QueuedOK ==
  ASSUME FifoOK, NEW p \in Cpu, NEW q \in Cpu, p # q, NEW m \in Msg, Queued(p, q, m),
         Depth(p, q) + 1 < MAXCPUFIFO - 1
  PROVE  FifoOK'
<1>1. <<p, q>> \in Pair
  BY DEF Pair
<1>2. fifo[<<p, q>>] \in Seq(Msg)
  BY <1>1 DEF FifoOK
<1>3. PICK r : r = Append(fifo[<<p, q>>], m)
  OBVIOUS
<1>4. r \in Seq(Msg) /\ Len(r) = Len(fifo[<<p, q>>]) + 1
  BY <1>2, <1>3
<1>5. fifo' = [fifo EXCEPT ![<<p, q>>] = r]
  BY <1>3 DEF Queued
<1>6. fifo' \in [Pair -> Seq(Msg)]
  BY <1>4, <1>5 DEF FifoOK
<1>7. \A pq \in Pair : pq # <<p, q>> => fifo'[pq] = fifo[pq]
  BY <1>5 DEF FifoOK
<1>8. fifo'[<<p, q>>] = r
  BY <1>1, <1>5 DEF FifoOK
<1> QED BY <1>4, <1>6, <1>7, <1>8 DEF FifoOK, FifoBounded, Depth

(* A message is taken from a FIFO, which stays in its bound.               *)
LEMMA TakenOK ==
  ASSUME FifoOK, NEW pq \in Pair, fifo[pq] # <<>>,
         fifo' = [fifo EXCEPT ![pq] = Tail(@)]
  PROVE  FifoOK'
<1>2. fifo[pq] \in Seq(Msg)
  BY DEF FifoOK
<1>3. PICK r : r = Tail(fifo[pq])
  OBVIOUS
<1>4. r \in Seq(Msg) /\ Len(r) = Len(fifo[pq]) - 1 /\ Len(fifo[pq]) \in Nat
  BY <1>2, <1>3
<1>5. fifo' = [fifo EXCEPT ![pq] = r]
  BY <1>3
<1>6. fifo' \in [Pair -> Seq(Msg)]
  BY <1>4, <1>5 DEF FifoOK
<1>7. \A x \in Pair : x # pq => fifo'[x] = fifo[x]
  BY <1>5 DEF FifoOK
<1>8. fifo'[pq] = r
  BY <1>5 DEF FifoOK
<1>9. MAXCPUFIFO \in Nat
  BY IpiqAssumption
<1> QED BY <1>4, <1>6, <1>7, <1>8, <1>9 DEF FifoOK, FifoBounded

(* A send whose message is in the FIFO, or waits for room in it.           *)
SentAs(p, f, g) ==
  /\ g \in Frame /\ g.fn = f.fn /\ g.cpu = f.cpu /\ g.msg = f.msg
  /\ \/ g.at = "loop" /\ fifo' = fifo
     \/ g.at = "mask" /\ Queued(p, f.cpu, f.msg)

(* SendQueue() queues the message of f and goes on to set the bit in       *)
(* gd_ipimask.                                                             *)
LEMMA SendQueueTo ==
  ASSUME FifoOK, NEW p \in Cpu, NEW f \in Frame, f.cpu # p, NEW below,
         SendQueue(p, below, f), Depth(p, f.cpu) + 1 < MAXCPUFIFO - 1
  PROVE  /\ FifoOK'
         /\ \E g : SentAs(p, f, g) /\ g.at = "mask" /\ stack' = [stack EXCEPT ![p] = Append(below, g)]
<1>1. PICK g : g = [f EXCEPT !.at = "mask"]
  OBVIOUS
<1>2. g \in Frame /\ g.at = "mask" /\ g.fn = f.fn /\ g.cpu = f.cpu /\ g.msg = f.msg
  <2>1. PICK a \in Place : a = "mask"
    BY DEF Place
  <2>2. g \in Frame /\ g.at = a /\ g.fn = f.fn /\ g.cpu = f.cpu
       /\ g.msg = f.msg /\ g.seq = f.seq /\ g.mask = f.mask
    BY <1>1, <2>1, FrameAt
  <2> QED BY <2>1, <2>2
<1>3. Queued(p, f.cpu, f.msg) /\ stack' = [stack EXCEPT ![p] = Append(below, g)]
  BY <1>1 DEF SendQueue, Queued
<1>4. f.cpu \in Cpu /\ f.msg \in Msg
  BY FrameFields
<1>5. FifoOK'
  BY <1>3, <1>4, QueuedOK
<1> QED BY <1>2, <1>3, <1>5 DEF SentAs

(* SendTest() either queues the message or starts to drain                 *)
(* (lwkt_ipiq.c:193-217).                                                  *)
LEMMA SendTestTo ==
  ASSUME FifoOK, NEW p \in Cpu, NEW f \in Frame, f.cpu # p, NEW below,
         SendTest(p, below, f)
  PROVE  /\ FifoOK'
         /\ \E g : SentAs(p, f, g) /\ stack' = [stack EXCEPT ![p] = Append(below, g)]
<1>1. f.cpu \in Cpu
  BY FrameFields
<1>2. <<p, f.cpu>> \in Pair
  BY <1>1 DEF Pair
<1>3. Depth(p, f.cpu) \in Nat
  BY <1>2 DEF Depth, FifoOK
<1>4. CASE Depth(p, f.cpu) > MAXCPUFIFO \div 2
  <2>1. PICK g : g = [f EXCEPT !.at = "loop"]
    OBVIOUS
  <2>2. g \in Frame /\ g.at = "loop" /\ g.fn = f.fn /\ g.cpu = f.cpu /\ g.msg = f.msg
    <3>1. PICK a \in Place : a = "loop"
      BY DEF Place
    <3>2. g \in Frame /\ g.at = a /\ g.fn = f.fn /\ g.cpu = f.cpu
         /\ g.msg = f.msg /\ g.seq = f.seq /\ g.mask = f.mask
      BY <2>1, <3>1, FrameAt
    <3> QED BY <3>1, <3>2
  <2>3. fifo' = fifo /\ stack' = [stack EXCEPT ![p] = Append(below, g)]
    BY <1>4, <2>1 DEF SendTest
  <2> QED BY <2>2, <2>3 DEF SentAs, FifoOK, FifoBounded
<1>5. CASE ~(Depth(p, f.cpu) > MAXCPUFIFO \div 2)
  BY <1>3, <1>5, RoomLeft, SendQueueTo DEF SendTest
<1> QED BY <1>4, <1>5

-----------------------------------------------------------------------------
(* Steps that have nothing to do with a cpusync.                           *)

(* The stack of p changes in calls that take no part in a cpusync only.    *)
Quiet(p) ==
  \E n, new :
    /\ Became(p, n, new)
    /\ \A i \in n + 1 .. Len(stack[p]) : ~SyncFrame(stack[p][i])
    /\ \A i \in 1 .. Len(new) : ~SyncFrame(new[i]) /\ Passes(p, new[i])
    /\ cpusyncq[p] # <<>> /\ (\E i \in n + 1 .. Len(stack[p]) : Looks(stack[p][i])) =>
         \E i \in 1 .. Len(new) : Looks(new[i])

(* The call that p is in.                                                  *)
LEMMA TopFacts ==
  ASSUME Base, NEW p \in Cpu, stack[p] # <<>>
  PROVE  /\ stack[p] \in Seq(Frame) /\ Len(stack[p]) \in Nat /\ Len(stack[p]) > 0
         /\ Top(p) = stack[p][Len(stack[p])] /\ Top(p) \in Frame
         /\ Shape(p, Top(p)) /\ Nested(stack[p], Len(stack[p]))
<1>1. StackOK(p, stack[p])
  BY DEF Base, StackInv
<1>2. stack[p] \in Seq(Frame) /\ Len(stack[p]) \in Nat /\ Len(stack[p]) > 0
  BY <1>1 DEF StackOK
<1> QED BY <1>1, <1>2 DEF StackOK, Top

(* What the lemmas about the FIFOs need of the invariant.                  *)
LEMMA BaseFifo == ASSUME Base PROVE FifoOK
BY DEF Base, IpiqType, FifoOK

(* The top call of p is replaced by g.                                     *)
LEMMA GotoBase ==
  ASSUME Base, NEW p \in Cpu, stack[p] # <<>>, NEW g \in Frame, Goto(p, g), Shape(p, g),
         g.fn = Top(p).fn \/ g.fn = "process", g.msg = Top(p).msg \/ g.fn # "send"
  PROVE  /\ StackInv' /\ stack' \in [Cpu -> Seq(Frame)]
         /\ Became(p, Len(stack[p]) - 1, <<g>>)
<1>1. Became(p, Len(stack[p]) - 1, <<g>>)
  BY GotoBecame DEF Base
<1>0. Len(stack[p]) \in Nat /\ Len(stack[p]) > 0
  BY TopFacts
<1>a. PICK n \in Nat : n = Len(stack[p]) - 1
  <2>1. Len(stack[p]) - 1 \in Nat
    BY <1>0
  <2> QED BY <2>1
<1>2. n = Len(stack[p]) - 1 /\ n + 1 = Len(stack[p]) /\ n < Len(stack[p])
  BY <1>0, <1>a
<1>3. Len(<<g>>) = 1 /\ <<g>>[1] = g
  OBVIOUS
<1>4. /\ stack' \in [Cpu -> Seq(Frame)] /\ Len(stack'[p]) = n + 1
      /\ (\A i \in 1 .. n : stack'[p][i] = stack[p][i]) /\ stack'[p][n + 1] = g
  BY <1>1, <1>2, <1>3 DEF Became
<1>5. Nested(stack[p], n + 1) /\ Top(p) = stack[p][n + 1]
  BY <1>2, TopFacts
<1>6. Nested(stack'[p], n + 1)
  <2>1. ~(n + 1 < Len(stack'[p]))
    BY <1>2, <1>4
  <2>2. g.fn = "func" => n + 1 > 1 /\ stack'[p][n + 1 - 1].fn = "process"
    <3>1. g.fn = "func" => n + 1 > 1 /\ stack[p][n + 1 - 1].fn = "process"
      BY <1>5 DEF Nested
    <3>2. n + 1 > 1 => n + 1 - 1 \in 1 .. n
      BY <1>2
    <3> QED BY <1>4, <3>1, <3>2
  <2>3. g.fn = "cpusync" => n + 1 = 1
    BY <1>5 DEF Nested
  <2>4. g.fn = "send" /\ g.msg = "remote1" => n + 1 = 2 /\ stack'[p][1].fn = "cpusync"
    <3>1. g.fn = "send" /\ g.msg = "remote1" => n + 1 = 2 /\ stack[p][1].fn = "cpusync"
      BY <1>5 DEF Nested
    <3>2. n + 1 = 2 => 1 \in 1 .. n
      <4>1. n + 1 = 2 => n = 1
        OBVIOUS
      <4> QED BY <4>1
    <3> QED BY <1>4, <3>1, <3>2
  <2> QED BY <1>4, <2>1, <2>2, <2>3, <2>4 DEF Nested
<1>7. \A i \in 1 .. Len(<<g>>) : Shape(p, <<g>>[i]) /\ Nested(stack'[p], n + i)
  BY <1>3, <1>6
<1>8. StackInv'
  BY <1>1, <1>2, <1>7, StackBecame DEF Base
<1> QED BY <1>1, <1>4, <1>8

(* A call g is made, by the thread or by a call that waits for it.         *)
LEMMA PushBase ==
  ASSUME Base, NEW p \in Cpu, NEW g \in Frame, Push(p, g), Shape(p, g),
         stack[p] # <<>> => Suspended(Top(p)),
         g.fn \in {"send", "passive", "process"}, g.fn # "send" \/ g.msg # "remote1"
  PROVE  /\ StackInv' /\ stack' \in [Cpu -> Seq(Frame)]
         /\ Became(p, Len(stack[p]), <<g>>)
<1>1. Became(p, Len(stack[p]), <<g>>)
  BY PushBecame DEF Base
<1>2. stack[p] \in Seq(Frame)
  BY DEF Base, IpiqType
<1>3. PICK n \in Nat : n = Len(stack[p])
  BY <1>2
<1>4. Len(<<g>>) = 1 /\ <<g>>[1] = g
  OBVIOUS
<1>5. /\ stack' \in [Cpu -> Seq(Frame)] /\ Len(stack'[p]) = n + 1 /\ stack'[p][n + 1] = g
  BY <1>1, <1>3, <1>4 DEF Became
<1>6. Nested(stack'[p], n + 1)
  BY <1>3, <1>5 DEF Nested
<1>7. \A i \in 1 .. Len(<<g>>) : Shape(p, <<g>>[i]) /\ Nested(stack'[p], n + i)
  BY <1>4, <1>6
<1>8. n > 0 => Suspended(stack[p][n])
  BY <1>2, <1>3 DEF Top
<1>9. StackInv'
  BY <1>1, <1>3, <1>7, <1>8, StackBecame DEF Base
<1> QED BY <1>1, <1>5, <1>9

(* A return keeps the rest of the stack well formed.                       *)
LEMMA ReturnBase ==
  ASSUME Base, NEW p \in Cpu, stack[p] # <<>>, Return(p)
  PROVE  /\ StackInv' /\ stack' \in [Cpu -> Seq(Frame)]
         /\ Became(p, Len(stack[p]) - 1, <<>>)
<1>1. Became(p, Len(stack[p]) - 1, <<>>)
  BY ReturnBecame DEF Base
<1>2. Len(<<>>) = 0 /\ \A i \in 1 .. 0 : FALSE
  OBVIOUS
<1>3. \A i \in 1 .. Len(<<>>) : Shape(p, <<>>[i]) /\ Nested(stack'[p], Len(stack[p]) - 1 + i)
  BY <1>2
<1>4. StackInv'
  BY <1>1, <1>2, <1>3, StackBecame DEF Base
<1> QED BY <1>1, <1>4 DEF Became
(* The same, of calls that take no part in a cpusync.                      *)
LEMMA GotoQuiet ==
  ASSUME Base, NEW p \in Cpu, stack[p] # <<>>, NEW g \in Frame, Goto(p, g), Shape(p, g),
         g.fn = Top(p).fn, g.msg = Top(p).msg, ~SyncFrame(Top(p)), ~SyncFrame(g),
         Passes(p, g), Looks(Top(p)) => cpusyncq[p] = <<>> \/ Looks(g)
  PROVE  StackInv' /\ stack' \in [Cpu -> Seq(Frame)] /\ Quiet(p)
<1>1. /\ StackInv' /\ stack' \in [Cpu -> Seq(Frame)]
      /\ Became(p, Len(stack[p]) - 1, <<g>>)
  BY GotoBase
<1>2. Len(<<g>>) = 1 /\ <<g>>[1] = g
  OBVIOUS
<1>3. Len(stack[p]) \in Nat /\ Len(stack[p]) > 0 /\ Top(p) = stack[p][Len(stack[p])]
  BY TopFacts
<1>4. PICK n, new : n = Len(stack[p]) - 1 /\ new = <<g>>
  OBVIOUS
<1>5. \A i \in n + 1 .. Len(stack[p]) : stack[p][i] = Top(p)
  BY <1>3, <1>4
<1>6. \A i \in 1 .. Len(new) : new[i] = g
  BY <1>2, <1>4
<1>7. 1 \in 1 .. Len(new)
  BY <1>2, <1>4
<1>8. Became(p, n, new)
  BY <1>1, <1>4
<1>9. \A i \in n + 1 .. Len(stack[p]) : ~SyncFrame(stack[p][i])
  BY <1>5
<1>10. \A i \in 1 .. Len(new) : ~SyncFrame(new[i]) /\ Passes(p, new[i])
  BY <1>6
<1>11. cpusyncq[p] # <<>> /\ (\E i \in n + 1 .. Len(stack[p]) : Looks(stack[p][i])) =>
         \E i \in 1 .. Len(new) : Looks(new[i])
  BY <1>5, <1>6, <1>7
<1>12. Quiet(p)
  BY <1>8, <1>9, <1>10, <1>11 DEF Quiet
<1> QED BY <1>1, <1>12

(* A call that takes no part in a cpusync is made.                         *)
LEMMA PushQuiet ==
  ASSUME Base, NEW p \in Cpu, NEW g \in Frame, Push(p, g), Shape(p, g),
         stack[p] # <<>> => Suspended(Top(p)),
         g.fn \in {"send", "passive", "process"}, g.fn # "send" \/ g.msg # "remote1",
         Passes(p, g)
  PROVE  StackInv' /\ stack' \in [Cpu -> Seq(Frame)] /\ Quiet(p)
<1>1. /\ StackInv' /\ stack' \in [Cpu -> Seq(Frame)]
      /\ Became(p, Len(stack[p]), <<g>>)
  BY PushBase
<1>2. Len(<<g>>) = 1 /\ <<g>>[1] = g /\ ~SyncFrame(g)
  BY DEF SyncFrame
<1>3. Len(stack[p]) \in Nat
  BY DEF Base, IpiqType
<1>4. \A i \in Len(stack[p]) + 1 .. Len(stack[p]) : FALSE
  BY <1>3
<1>5. Quiet(p)
  BY <1>1, <1>2, <1>4 DEF Quiet
<1> QED BY <1>1, <1>5

(* A call that takes no part in a cpusync, and has looked at gd_cpusyncq,  *)
(* returns.                                                                *)
LEMMA ReturnQuiet ==
  ASSUME Base, NEW p \in Cpu, stack[p] # <<>>, Return(p), ~SyncFrame(Top(p)), ~Looks(Top(p))
  PROVE  StackInv' /\ stack' \in [Cpu -> Seq(Frame)] /\ Quiet(p)
<1>1. /\ StackInv' /\ stack' \in [Cpu -> Seq(Frame)]
      /\ Became(p, Len(stack[p]) - 1, <<>>)
  BY ReturnBase
<1>2. \A i \in 1 .. Len(<<>>) : FALSE
  OBVIOUS
<1>3. Len(stack[p]) \in Nat /\ Len(stack[p]) > 0 /\ Top(p) = stack[p][Len(stack[p])]
  BY TopFacts
<1>4. \A i \in Len(stack[p]) - 1 + 1 .. Len(stack[p]) : stack[p][i] = Top(p)
  BY <1>3
<1>5. Quiet(p)
  BY <1>1, <1>2, <1>4 DEF Quiet
<1> QED BY <1>1, <1>5

(* A call of lwkt_process_ipiq().                                          *)
LEMMA ProcessFrame ==
  ASSUME NEW p \in Cpu, NEW g, g = lwkt_process_ipiq(p)
  PROVE  /\ g \in Frame /\ Shape(p, g) /\ Passes(p, g) /\ ~SyncFrame(g)
         /\ g.fn = "process" /\ g.at = "again"
<1>1. PICK at \in Place : at = "again"
  BY DEF Place
<1>2. PICK m \in Msg : m = "plain"
  BY DEF Msg, AllFuncs
<1>3. g = Call("process", at, p, m, 0, {})
  BY <1>1, <1>2 DEF lwkt_process_ipiq
<1>4. /\ g \in Frame /\ g.fn = "process" /\ g.at = at /\ g.cpu = p /\ g.msg = m
      /\ g.seq = 0 /\ g.mask = {}
  BY <1>3, FrameCall
<1> QED BY <1>1, <1>4 DEF Shape, Passes, SyncFrame

(* The messages other than the requests of a cpusync.                      *)
AskSame ==
  \A pq \in Pair :
    /\ (\E i \in 1 .. Len(fifo'[pq]) : fifo'[pq][i] = "remote1") <=>
         \E i \in 1 .. Len(fifo[pq]) : fifo[pq][i] = "remote1"
    /\ (\A i, j \in 1 .. Len(fifo[pq]) :
          fifo[pq][i] = "remote1" /\ fifo[pq][j] = "remote1" => i = j) =>
         \A i, j \in 1 .. Len(fifo'[pq]) :
           fifo'[pq][i] = "remote1" /\ fifo'[pq][j] = "remote1" => i = j

(* A step of p that is nobody's cpusync's business.                        *)
QuietStep(p) == Base' /\ Quiet(p) /\ AskSame /\ UNCHANGED syncVars

(* No cpusync request is queued or taken while the FIFOs stay as they are  *)
(* ...                                                                     *)
LEMMA AskUnchanged == fifo' = fifo => AskSame
BY DEF AskSame

(* ... nor when another message is queued ...                              *)
LEMMA AskQueued ==
  ASSUME FifoOK, NEW p \in Cpu, NEW q \in Cpu, p # q, NEW m \in Msg, Queued(p, q, m),
         m # "remote1"
  PROVE  AskSame
<1>1. <<p, q>> \in Pair
  BY DEF Pair
<1>2. fifo[<<p, q>>] \in Seq(Msg)
  BY <1>1 DEF FifoOK
<1>3. PICK r : r = Append(fifo[<<p, q>>], m)
  OBVIOUS
<1>4. /\ Len(r) = Len(fifo[<<p, q>>]) + 1 /\ Len(fifo[<<p, q>>]) \in Nat
      /\ r[Len(fifo[<<p, q>>]) + 1] = m
      /\ \A i \in 1 .. Len(fifo[<<p, q>>]) : r[i] = fifo[<<p, q>>][i]
  BY <1>2, <1>3
<1>5. fifo' = [fifo EXCEPT ![<<p, q>>] = r]
  BY <1>3 DEF Queued
<1>6. \A pq \in Pair : pq # <<p, q>> => fifo'[pq] = fifo[pq]
  BY <1>5 DEF FifoOK
<1>7. fifo'[<<p, q>>] = r
  BY <1>1, <1>5 DEF FifoOK
<1>8. \A i \in 1 .. Len(r) : i \in 1 .. Len(fifo[<<p, q>>]) \/ i = Len(fifo[<<p, q>>]) + 1
  BY <1>4
<1>9. \A i \in 1 .. Len(r) : r[i] = "remote1" =>
        i \in 1 .. Len(fifo[<<p, q>>]) /\ fifo[<<p, q>>][i] = "remote1"
  BY <1>4, <1>8
<1>10. \A i \in 1 .. Len(fifo[<<p, q>>]) : i \in 1 .. Len(r)
  BY <1>4
<1>11. (\E i \in 1 .. Len(r) : r[i] = "remote1") <=>
        \E i \in 1 .. Len(fifo[<<p, q>>]) : fifo[<<p, q>>][i] = "remote1"
  BY <1>4, <1>9, <1>10
<1>12. (\A i, j \in 1 .. Len(fifo[<<p, q>>]) :
          fifo[<<p, q>>][i] = "remote1" /\ fifo[<<p, q>>][j] = "remote1" => i = j) =>
         \A i, j \in 1 .. Len(r) : r[i] = "remote1" /\ r[j] = "remote1" => i = j
  BY <1>9
<1> QED
  <2> SUFFICES ASSUME NEW pq \in Pair
               PROVE  /\ (\E i \in 1 .. Len(fifo'[pq]) : fifo'[pq][i] = "remote1") <=>
                           \E i \in 1 .. Len(fifo[pq]) : fifo[pq][i] = "remote1"
                      /\ (\A i, j \in 1 .. Len(fifo[pq]) :
                            fifo[pq][i] = "remote1" /\ fifo[pq][j] = "remote1" => i = j) =>
                           \A i, j \in 1 .. Len(fifo'[pq]) :
                             fifo'[pq][i] = "remote1" /\ fifo'[pq][j] = "remote1" => i = j
    BY DEF AskSame
  <2>1. CASE pq # <<p, q>>
    <3>1. fifo'[pq] = fifo[pq]
      BY <1>6, <2>1
    <3> QED BY <3>1
  <2>2. CASE pq = <<p, q>>
    <3>1. fifo'[pq] = r
      BY <1>7, <2>2
    <3> QED BY <1>11, <1>12, <2>2, <3>1
  <2> QED BY <2>1, <2>2

(* ... nor when another message is taken.                                  *)
LEMMA AskTaken ==
  ASSUME FifoOK, NEW pq \in Pair, fifo[pq] # <<>>, Head(fifo[pq]) # "remote1",
         fifo' = [fifo EXCEPT ![pq] = Tail(@)]
  PROVE  AskSame
<1>2. fifo[pq] \in Seq(Msg)
  BY DEF FifoOK
<1>3. PICK r : r = Tail(fifo[pq])
  OBVIOUS
<1>4. /\ Len(r) = Len(fifo[pq]) - 1 /\ Len(fifo[pq]) \in Nat /\ Len(fifo[pq]) > 0
      /\ fifo[pq][1] # "remote1"
      /\ \A i \in 1 .. Len(fifo[pq]) - 1 : r[i] = fifo[pq][i + 1]
  BY <1>2, <1>3
<1>5. \A x \in Pair : x # pq => fifo'[x] = fifo[x]
  BY DEF FifoOK
<1>6. fifo'[pq] = r
  BY <1>3 DEF FifoOK
<1>7. \A i \in 1 .. Len(r) : i + 1 \in 1 .. Len(fifo[pq]) /\ r[i] = fifo[pq][i + 1]
  BY <1>4
<1>8. \A i \in 1 .. Len(fifo[pq]) : fifo[pq][i] = "remote1" =>
        i - 1 \in 1 .. Len(r) /\ r[i - 1] = fifo[pq][i]
  <2> TAKE i \in 1 .. Len(fifo[pq])
  <2> HAVE fifo[pq][i] = "remote1"
  <2>1. i # 1
    BY <1>4
  <2>2. i - 1 \in 1 .. Len(r) /\ i - 1 + 1 = i
    BY <1>4, <2>1
  <2> QED BY <1>7, <2>2
<1>9. (\E i \in 1 .. Len(r) : r[i] = "remote1") <=> \E i \in 1 .. Len(fifo[pq]) : fifo[pq][i] = "remote1"
  BY <1>7, <1>8
<1>10. (\A i, j \in 1 .. Len(fifo[pq]) :
          fifo[pq][i] = "remote1" /\ fifo[pq][j] = "remote1" => i = j) =>
         \A i, j \in 1 .. Len(r) : r[i] = "remote1" /\ r[j] = "remote1" => i = j
  <2> HAVE \A i, j \in 1 .. Len(fifo[pq]) :
             fifo[pq][i] = "remote1" /\ fifo[pq][j] = "remote1" => i = j
  <2> TAKE i, j \in 1 .. Len(r)
  <2> HAVE r[i] = "remote1" /\ r[j] = "remote1"
  <2>1. i + 1 = j + 1
    BY <1>7
  <2> QED BY <2>1
<1> QED
  <2> SUFFICES ASSUME NEW x \in Pair
               PROVE  /\ (\E i \in 1 .. Len(fifo'[x]) : fifo'[x][i] = "remote1") <=>
                           \E i \in 1 .. Len(fifo[x]) : fifo[x][i] = "remote1"
                      /\ (\A i, j \in 1 .. Len(fifo[x]) :
                            fifo[x][i] = "remote1" /\ fifo[x][j] = "remote1" => i = j) =>
                           \A i, j \in 1 .. Len(fifo'[x]) :
                             fifo'[x][i] = "remote1" /\ fifo'[x][j] = "remote1" => i = j
    BY DEF AskSame
  <2>1. CASE x # pq
    <3>1. fifo'[x] = fifo[x]
      BY <1>5, <2>1
    <3>2. PICK a : a = fifo[x]
      OBVIOUS
    <3>3. PICK b : b = fifo'[x]
      OBVIOUS
    <3>4. a = b
      BY <3>1, <3>2, <3>3
    <3>5. /\ (\E i \in 1 .. Len(b) : b[i] = "remote1") <=>
               \E i \in 1 .. Len(a) : a[i] = "remote1"
          /\ (\A i, j \in 1 .. Len(a) : a[i] = "remote1" /\ a[j] = "remote1" => i = j) =>
               \A i, j \in 1 .. Len(b) : b[i] = "remote1" /\ b[j] = "remote1" => i = j
      BY <3>4, Zenon
    <3> QED BY <3>2, <3>3, <3>5
  <2>2. CASE x = pq
    <3>1. fifo'[x] = r
      BY <1>6, <2>2
    <3> QED BY <1>9, <1>10, <2>2, <3>1
  <2> QED BY <2>1, <2>2

(* A step that leaves the FIFOs alone.                                     *)
LEMMA BaseNoFifo ==
  ASSUME Base, fifo' = fifo, StackInv', stack' \in [Cpu -> Seq(Frame)],
         rindex' \in [Pair -> Nat], xindex' \in [Pair -> Nat],
         ipimask' \in [Cpu -> SUBSET Cpu], \A p \in Cpu : p \notin ipimask'[p],
         npoll' \in [Cpu -> BOOLEAN], hwipi' \in [Cpu -> BOOLEAN],
         calls' \in [Cpu -> 0 .. MaxCalls]
  PROVE  Base'
<1>1. fifo' \in [Pair -> Seq(Msg)]
  BY DEF Base, IpiqType
<1>2. FifoBounded'
  BY DEF Base, FifoBounded
<1> QED BY <1>1, <1>2 DEF Base, IpiqType

(* A step that changes a stack only.                                       *)
LEMMA BaseStackOnly ==
  ASSUME Base, StackInv', stack' \in [Cpu -> Seq(Frame)],
         UNCHANGED <<queueVars, signalVars, calls>>
  PROVE  Base' /\ AskSame
<1>1. /\ fifo' = fifo /\ rindex' = rindex /\ xindex' = xindex /\ ipimask' = ipimask
      /\ npoll' = npoll /\ hwipi' = hwipi /\ calls' = calls
  BY DEF queueVars, signalVars
<1>2. /\ rindex' \in [Pair -> Nat] /\ xindex' \in [Pair -> Nat]
      /\ ipimask' \in [Cpu -> SUBSET Cpu] /\ npoll' \in [Cpu -> BOOLEAN]
      /\ hwipi' \in [Cpu -> BOOLEAN] /\ calls' \in [Cpu -> 0 .. MaxCalls]
  BY <1>1 DEF Base, IpiqType
<1>3. \A p \in Cpu : p \notin ipimask'[p]
  BY <1>1 DEF Base, IpiqType
<1> QED BY <1>1, <1>2, <1>3, BaseNoFifo, AskUnchanged

(* The top call is where In says it is.                                    *)
LEMMA InTop ==
  ASSUME NEW p, NEW fn, NEW at, In(p, fn, at)
  PROVE  stack[p] # <<>> /\ Top(p).fn = fn /\ Top(p).at = at
BY DEF In

(* The innermost call of p, at another place.                              *)
LEMMA AtFrame ==
  ASSUME Base, NEW p \in Cpu, stack[p] # <<>>, NEW a \in Place, NEW g, g = At(p, a)
  PROVE  /\ g \in Frame /\ g.at = a /\ g.fn = Top(p).fn /\ g.cpu = Top(p).cpu
         /\ g.msg = Top(p).msg /\ g.seq = Top(p).seq /\ g.mask = Top(p).mask
BY TopFacts, FrameAt DEF At

(* The arrival of the hardware IPI is no step of a cpusync.                *)
LEMMA XipiqQuiet ==
  ASSUME Base, NEW p \in Cpu, Xipiq(p)
  PROVE  QuietStep(p)
<1>1. PICK g : g = lwkt_process_ipiq(p)
  OBVIOUS
<1>2. /\ g \in Frame /\ Shape(p, g) /\ Passes(p, g) /\ ~SyncFrame(g)
      /\ g.fn = "process" /\ g.at = "again"
  BY <1>1, ProcessFrame
<1>3. stack[p] = <<>> /\ Push(p, g) /\ hwipi' = [hwipi EXCEPT ![p] = FALSE]
      /\ UNCHANGED <<queueVars, ipimask, npoll, syncVars, calls>>
  BY <1>1 DEF Xipiq
<1>4. StackInv' /\ stack' \in [Cpu -> Seq(Frame)] /\ Quiet(p)
  BY <1>2, <1>3, PushQuiet
<1>5. hwipi' \in [Cpu -> BOOLEAN]
  BY <1>3 DEF Base, IpiqType
<1>6. /\ rindex' \in [Pair -> Nat] /\ xindex' \in [Pair -> Nat] /\ fifo' = fifo
      /\ ipimask' \in [Cpu -> SUBSET Cpu] /\ npoll' \in [Cpu -> BOOLEAN]
      /\ calls' \in [Cpu -> 0 .. MaxCalls] /\ \A q \in Cpu : q \notin ipimask'[q]
  BY <1>3 DEF Base, IpiqType, queueVars
<1>7. Base'
  BY <1>4, <1>5, <1>6, BaseNoFifo
<1> QED BY <1>3, <1>4, <1>6, <1>7, AskUnchanged DEF QuietStep

(* A call of lwkt_process_ipiq() by a call that waits.                     *)
LEMMA PushProcess ==
  ASSUME Base, NEW p \in Cpu, stack[p] # <<>>, Suspended(Top(p)), Push(p, lwkt_process_ipiq(p))
  PROVE  StackInv' /\ stack' \in [Cpu -> Seq(Frame)] /\ Quiet(p)
<1>1. PICK g : g = lwkt_process_ipiq(p)
  OBVIOUS
<1>2. /\ g \in Frame /\ Shape(p, g) /\ Passes(p, g) /\ ~SyncFrame(g)
      /\ g.fn = "process" /\ g.at = "again"
  BY <1>1, ProcessFrame
<1> QED BY <1>1, <1>2, PushQuiet

(* lwkt_wait_ipiq() takes no part in a cpusync.                            *)
LEMMA WaitQuiet ==
  ASSUME Base, NEW p \in Cpu, lwkt_wait_ipiq(p)
  PROVE  QuietStep(p)
<1>1. stack[p] # <<>> /\ Top(p).fn = "wait" /\ Top(p).at = "loop"
  BY InTop DEF lwkt_wait_ipiq
<1>2. UNCHANGED <<queueVars, signalVars, syncVars, calls>>
  BY DEF lwkt_wait_ipiq
<1>3. Suspended(Top(p)) /\ ~SyncFrame(Top(p)) /\ ~Looks(Top(p))
  BY <1>1 DEF Suspended, SyncFrame, Looks
<1>4. StackInv' /\ stack' \in [Cpu -> Seq(Frame)] /\ Quiet(p)
  <2>1. CASE Push(p, lwkt_process_ipiq(p))
    BY <1>1, <1>3, <2>1, PushProcess
  <2>2. CASE Return(p)
    BY <1>1, <1>3, <2>2, ReturnQuiet
  <2> QED BY <2>1, <2>2 DEF lwkt_wait_ipiq
<1>5. Base' /\ AskSame
  BY <1>2, <1>4, BaseStackOnly
<1> QED BY <1>2, <1>4, <1>5 DEF QuietStep

(* Going on to another place of lwkt_process_ipiq().                       *)
LEMMA GotoProcess ==
  ASSUME Base, NEW p \in Cpu, stack[p] # <<>>, Top(p).fn = "process",
         NEW a \in {"again", "release", "recheck"}, Goto(p, At(p, a)),
         Looks(Top(p)) => cpusyncq[p] = <<>> \/ a = "again"
  PROVE  StackInv' /\ stack' \in [Cpu -> Seq(Frame)] /\ Quiet(p)
<1>1. a \in Place
  BY DEF Place
<1>2. PICK g : g = At(p, a)
  OBVIOUS
<1>3. /\ g \in Frame /\ g.at = a /\ g.fn = Top(p).fn /\ g.cpu = Top(p).cpu
      /\ g.msg = Top(p).msg /\ g.seq = Top(p).seq /\ g.mask = Top(p).mask
  BY <1>1, <1>2, AtFrame
<1>4. Shape(p, Top(p))
  BY TopFacts
<1>5. Shape(p, g)
  BY <1>3, <1>4 DEF Shape
<1>6. ~SyncFrame(g) /\ ~SyncFrame(Top(p)) /\ Passes(p, g) /\ (Looks(Top(p)) => cpusyncq[p] = <<>> \/ Looks(g))
  BY <1>3 DEF SyncFrame, Passes, Looks
<1> QED BY <1>2, <1>3, <1>5, <1>6, GotoQuiet

(* So is another look at gd_ipimask at the end of lwkt_process_ipiq().     *)
LEMMA TestQuiet ==
  ASSUME Base, NEW p \in Cpu, ProcessTest(p)
  PROVE  QuietStep(p)
<1>1. stack[p] # <<>> /\ Top(p).fn = "process" /\ Top(p).at \in {"test", "recheck"}
  BY InTop DEF ProcessTest
<1>2. UNCHANGED <<queueVars, signalVars, syncVars, calls>>
  BY DEF ProcessTest
<1>3. ~SyncFrame(Top(p)) /\ ~Looks(Top(p))
  BY <1>1 DEF SyncFrame, Looks
<1>4. StackInv' /\ stack' \in [Cpu -> Seq(Frame)] /\ Quiet(p)
  <2>1. CASE Goto(p, At(p, "again"))
    BY <1>1, <1>3, <2>1, GotoProcess
  <2>2. CASE Goto(p, At(p, "release"))
    BY <1>1, <1>3, <2>2, GotoProcess
  <2>3. CASE Return(p)
    BY <1>1, <1>3, <2>3, ReturnQuiet
  <2> QED BY <2>1, <2>2, <2>3 DEF ProcessTest
<1>5. Base' /\ AskSame
  BY <1>2, <1>4, BaseStackOnly
<1> QED BY <1>2, <1>4, <1>5 DEF QuietStep

(* So is the release of gd_npoll.                                          *)
LEMMA ReleaseQuiet ==
  ASSUME Base, NEW p \in Cpu, ProcessRelease(p)
  PROVE  QuietStep(p)
<1>1. stack[p] # <<>> /\ Top(p).fn = "process" /\ Top(p).at = "release"
  BY InTop DEF ProcessRelease
<1>2. UNCHANGED <<queueVars, ipimask, hwipi, syncVars, calls>> /\ npoll' = [npoll EXCEPT ![p] = FALSE]
  BY DEF ProcessRelease
<1>3. ~SyncFrame(Top(p)) /\ ~Looks(Top(p))
  BY <1>1 DEF SyncFrame, Looks
<1>4. StackInv' /\ stack' \in [Cpu -> Seq(Frame)] /\ Quiet(p)
  BY <1>1, <1>3, GotoProcess DEF ProcessRelease
<1>5. npoll' \in [Cpu -> BOOLEAN]
  BY <1>2 DEF Base, IpiqType
<1>6. /\ rindex' \in [Pair -> Nat] /\ xindex' \in [Pair -> Nat] /\ fifo' = fifo
      /\ ipimask' \in [Cpu -> SUBSET Cpu] /\ hwipi' \in [Cpu -> BOOLEAN]
      /\ calls' \in [Cpu -> 0 .. MaxCalls] /\ \A q \in Cpu : q \notin ipimask'[q]
  BY <1>2 DEF Base, IpiqType, queueVars
<1>7. Base'
  BY <1>4, <1>5, <1>6, BaseNoFifo
<1> QED BY <1>2, <1>4, <1>6, <1>7, AskUnchanged DEF QuietStep

(* So is the update of ip_xindex after the function has run.               *)
LEMMA FuncDoneQuiet ==
  ASSUME Base, NEW p \in Cpu, FuncDone(p)
  PROVE  QuietStep(p)
<1>1. stack[p] # <<>> /\ Top(p).fn = "func" /\ Top(p).at = "done"
  BY InTop DEF FuncDone
<1>2. Top(p) \in Frame /\ Shape(p, Top(p))
  BY <1>1, TopFacts
<1>3. PICK pq : pq = <<Top(p).cpu, p>>
  OBVIOUS
<1>4. pq \in Pair
  BY <1>1, <1>2, <1>3, FrameFields DEF Pair, Shape
<1>5. xindex' = [xindex EXCEPT ![pq] = rindex[pq]] /\ Return(p)
      /\ UNCHANGED <<fifo, rindex, signalVars, syncVars, calls>>
  BY <1>3 DEF FuncDone
<1>6. ~SyncFrame(Top(p)) /\ ~Looks(Top(p))
  BY <1>1 DEF SyncFrame, Looks
<1>7. StackInv' /\ stack' \in [Cpu -> Seq(Frame)] /\ Quiet(p)
  BY <1>1, <1>5, <1>6, ReturnQuiet
<1>8. xindex' \in [Pair -> Nat]
  BY <1>4, <1>5 DEF Base, IpiqType
<1>9. /\ rindex' \in [Pair -> Nat] /\ fifo' = fifo
      /\ ipimask' \in [Cpu -> SUBSET Cpu] /\ hwipi' \in [Cpu -> BOOLEAN]
      /\ npoll' \in [Cpu -> BOOLEAN]
      /\ calls' \in [Cpu -> 0 .. MaxCalls] /\ \A q \in Cpu : q \notin ipimask'[q]
  BY <1>5 DEF Base, IpiqType, signalVars
<1>10. Base'
  BY <1>7, <1>8, <1>9, BaseNoFifo
<1> QED BY <1>5, <1>7, <1>9, <1>10, AskUnchanged DEF QuietStep

(* Where a pass over a mask goes on.                                       *)
LEMMA ScanFrame ==
  ASSUME Base, SyncType, NEW p \in Cpu, stack[p] # <<>>, Top(p).fn = "process",
         NEW mask \in SUBSET Cpu, p \notin mask, NEW g, g = Scan(p, mask)
  PROVE  /\ g \in Frame /\ Shape(p, g) /\ g.fn = "process" /\ g.msg = Top(p).msg
         /\ Passes(p, g) /\ (cpusyncq[p] = <<>> \/ Looks(g))
<1> DEFINE f == Top(p)
<1>1. f \in Frame
  BY TopFacts
<1>2. cpusyncq[p] \in Seq(Cpu) /\ Len(cpusyncq[p]) \in Nat
  BY DEF SyncType
<1>3. CASE mask = {}
  <2>1. PICK a \in Place : a = IF cpusyncq[p] = <<>> THEN "test" ELSE "sync"
    BY DEF Place
  <2>2. PICK n \in Nat : n = Len(cpusyncq[p])
    BY <1>2
  <2>3. g = [f EXCEPT !.at = a, !.cpu = p, !.mask = {}, !.seq = n]
    BY <1>3, <2>1, <2>2 DEF Scan
  <2> HIDE DEF f
  <2>4. /\ g \in Frame /\ g.fn = f.fn /\ g.msg = f.msg /\ g.at = a /\ g.cpu = p
        /\ g.mask = {} /\ g.seq = n
    BY <1>1, <2>3 DEF Frame
  <2>5. g.fn = "process" /\ g.msg = Top(p).msg
    BY <2>4 DEF f
  <2>6. Shape(p, g)
    BY <2>1, <2>4, <2>5 DEF Shape
  <2>7. cpusyncq[p] # <<>> => n \in 1 .. n
    BY <1>2, <2>2
  <2>8. Passes(p, g) /\ (cpusyncq[p] = <<>> \/ Looks(g))
    BY <2>1, <2>2, <2>4, <2>5, <2>7 DEF Passes, Looks
  <2> QED BY <2>4, <2>5, <2>6, <2>8
<1>4. CASE mask # {}
  <2>1. PICK a \in Place : a = "core"
    BY DEF Place
  <2>2. PICK q \in mask : q = CHOOSE x \in mask : \A r \in mask : x <= r
    BY <1>4, LowestCpu
  <2>3. g = [f EXCEPT !.at = a, !.mask = mask, !.cpu = q]
    BY <1>4, <2>1, <2>2 DEF Scan
  <2> HIDE DEF f
  <2>4. /\ g \in Frame /\ g.fn = f.fn /\ g.msg = f.msg /\ g.at = a /\ g.cpu = q
        /\ g.mask = mask
    BY <1>1, <2>3 DEF Frame
  <2>5. g.fn = "process" /\ g.msg = Top(p).msg
    BY <2>4 DEF f
  <2>6. Shape(p, g) /\ Passes(p, g) /\ Looks(g)
    BY <2>1, <2>4, <2>5 DEF Shape, Passes, Looks
  <2> QED BY <2>4, <2>5, <2>6
<1> QED BY <1>3, <1>4

(* lwkt_process_ipiq() goes on to the next cpu of the mask it took.        *)
LEMMA GotoScan ==
  ASSUME Base, SyncType, NEW p \in Cpu, stack[p] # <<>>, Top(p).fn = "process",
         NEW mask \in SUBSET Cpu, p \notin mask, Goto(p, Scan(p, mask))
  PROVE  StackInv' /\ stack' \in [Cpu -> Seq(Frame)] /\ Quiet(p)
<1>1. PICK g : g = Scan(p, mask)
  OBVIOUS
<1>2. /\ g \in Frame /\ Shape(p, g) /\ g.fn = "process" /\ g.msg = Top(p).msg
      /\ Passes(p, g) /\ (cpusyncq[p] = <<>> \/ Looks(g))
  BY <1>1, ScanFrame
<1>3. ~SyncFrame(g) /\ ~SyncFrame(Top(p))
  BY <1>2 DEF SyncFrame
<1>4. Goto(p, g)
  BY <1>1
<1> QED BY <1>2, <1>3, <1>4, GotoQuiet

(* lwkt_process_ipiq() starts its scan again.                              *)
LEMMA AgainQuiet ==
  ASSUME Base, NEW p \in Cpu, ProcessAgain(p)
  PROVE  QuietStep(p)
<1>1. stack[p] # <<>> /\ Top(p).fn = "process" /\ Top(p).at = "again"
  BY InTop DEF ProcessAgain
<1>2. UNCHANGED <<queueVars, signalVars, syncVars, calls>>
  BY DEF ProcessAgain
<1>3. PICK a \in Place : a = "clear"
  BY DEF Place
<1>4. PICK h : h = At(p, a)
  OBVIOUS
<1>5. /\ h \in Frame /\ h.at = a /\ h.fn = Top(p).fn /\ h.cpu = Top(p).cpu
      /\ h.msg = Top(p).msg /\ h.seq = Top(p).seq /\ h.mask = Top(p).mask
  BY <1>1, <1>4, AtFrame
<1>6. PICK mask \in SUBSET Cpu : mask = ipimask[p] /\ p \notin mask
  BY DEF Base, IpiqType
<1>7. PICK g : g = [h EXCEPT !.mask = mask]
  OBVIOUS
<1>8. g \in Frame /\ g.at = h.at /\ g.fn = h.fn /\ g.msg = h.msg /\ g.mask = mask
  BY <1>5, <1>7 DEF Frame
<1>9. Goto(p, g)
  BY <1>3, <1>4, <1>6, <1>7 DEF ProcessAgain
<1>10. Shape(p, g) /\ ~SyncFrame(g) /\ ~SyncFrame(Top(p)) /\ Passes(p, g) /\ Looks(g)
  BY <1>1, <1>3, <1>5, <1>6, <1>8 DEF Shape, SyncFrame, Passes, Looks
<1>11. StackInv' /\ stack' \in [Cpu -> Seq(Frame)] /\ Quiet(p)
  BY <1>1, <1>5, <1>8, <1>9, <1>10, GotoQuiet
<1>12. Base' /\ AskSame
  BY <1>2, <1>11, BaseStackOnly
<1> QED BY <1>2, <1>11, <1>12 DEF QuietStep

(* The bits of gd_ipimask are cleared before the FIFOs are looked at.      *)
LEMMA ClearQuiet ==
  ASSUME Base, SyncType, NEW p \in Cpu, ProcessClear(p)
  PROVE  QuietStep(p)
<1>1. stack[p] # <<>> /\ Top(p).fn = "process" /\ Top(p).at = "clear"
  BY InTop DEF ProcessClear
<1>2. UNCHANGED <<queueVars, npoll, hwipi, syncVars, calls>>
      /\ ipimask' = [ipimask EXCEPT ![p] = @ \ Top(p).mask]
  BY DEF ProcessClear
<1>3. Top(p) \in Frame /\ Shape(p, Top(p))
  BY <1>1, TopFacts
<1>4. Top(p).mask \in SUBSET Cpu /\ p \notin Top(p).mask
  BY <1>1, <1>3, FrameFields DEF Shape
<1>5. StackInv' /\ stack' \in [Cpu -> Seq(Frame)] /\ Quiet(p)
  BY <1>1, <1>4, GotoScan DEF ProcessClear
<1>6. ipimask' \in [Cpu -> SUBSET Cpu] /\ \A q \in Cpu : q \notin ipimask'[q]
  BY <1>2 DEF Base, IpiqType
<1>7. /\ rindex' \in [Pair -> Nat] /\ xindex' \in [Pair -> Nat] /\ fifo' = fifo
      /\ npoll' \in [Cpu -> BOOLEAN] /\ hwipi' \in [Cpu -> BOOLEAN]
      /\ calls' \in [Cpu -> 0 .. MaxCalls]
  BY <1>2 DEF Base, IpiqType, queueVars
<1>8. Base'
  BY <1>5, <1>6, <1>7, BaseNoFifo
<1> QED BY <1>2, <1>5, <1>7, <1>8, AskUnchanged DEF QuietStep

(* A send to another cpu begins.                                           *)
LEMMA SendFrame ==
  ASSUME NEW p \in Cpu, NEW q \in Cpu, q # p, NEW m \in Msg, NEW g, g = SendCall(q, m)
  PROVE  /\ g \in Frame /\ Shape(p, g) /\ g.fn = "send" /\ g.at = "test" /\ g.cpu = q
         /\ g.msg = m
<1>1. PICK a \in Place : a = "test"
  BY DEF Place
<1>2. g = Call("send", a, q, m, 0, {})
  BY <1>1 DEF SendCall
<1>3. /\ g \in Frame /\ g.fn = "send" /\ g.at = a /\ g.cpu = q /\ g.msg = m
      /\ g.seq = 0 /\ g.mask = {}
  BY <1>2, FrameCall
<1> QED BY <1>1, <1>3 DEF Shape

(* p has called the function of a message m from q.                        *)
CalledFunc(p, q, m) ==
  /\ m # "remote1" => Quiet(p)
  /\ m = "remote1" =>
       \E func \in Frame :
         /\ func.fn = "func" /\ func.at = "remote1" /\ func.cpu = q
         /\ Became(p, Len(stack[p]), <<func>>)

(* The function that is called from the processing of a FIFO.              *)
LEMMA NestedFunc ==
  ASSUME NEW s, NEW n \in Nat, n > 0, Len(s) = n + 1,
         s[n + 1].fn = "func", s[n].fn = "process"
  PROVE  Nested(s, n + 1)
<1>1. n + 1 > 1 /\ n + 1 - 1 = n /\ ~(n + 1 < n + 1)
  OBVIOUS
<1> QED BY <1>1 DEF Nested

(* The function of a message is called, and may call a send.               *)
LEMMA CoreFrames ==
  ASSUME Base, NEW p \in Cpu, stack[p] # <<>>, Top(p).fn = "process", Top(p).at = "core",
         NEW q \in Cpu, q # p, NEW m \in Msg, NEW seq \in Nat,
         stack' = [stack EXCEPT ![p] = @ \o FuncCalls(q, m, seq)]
  PROVE  StackInv' /\ stack' \in [Cpu -> Seq(Frame)] /\ CalledFunc(p, q, m)
<1>1. PICK a \in Place : a = IF m = "remote1" THEN "remote1" ELSE "done"
  BY DEF Place
<1>2. PICK func : func = Call("func", a, q, m, seq, {})
  OBVIOUS
<1>3. func \in Frame /\ func.fn = "func" /\ func.at = a /\ func.cpu = q /\ func.msg = m
      /\ func.seq = seq /\ func.mask = {}
  BY <1>2, FrameCall
<1>4. Shape(p, func)
  BY <1>1, <1>3 DEF Shape
<1>5. PICK n \in Nat : n = Len(stack[p])
  BY TopFacts
<1>6. n > 0 /\ Top(p) = stack[p][n]
  BY <1>5, TopFacts
<1>7. Suspended(stack[p][n])
  BY <1>6 DEF Suspended
<1>8. \A i \in n + 1 .. Len(stack[p]) : FALSE
  BY <1>5
<1>9. CASE m # "relay"
  <2>1. <<func>> \in Seq(Frame) /\ Len(<<func>>) = 1 /\ <<func>>[1] = func
    BY <1>3
  <2>2. stack' = [stack EXCEPT ![p] = @ \o <<func>>]
    BY <1>1, <1>2, <1>9 DEF FuncCalls
  <2>3. Became(p, n, <<func>>)
    BY <1>5, <2>1, <2>2, CallsBecame DEF Base
  <2>4. /\ Len(stack'[p]) = n + 1 /\ stack'[p][n + 1] = func /\ stack'[p][n] = stack[p][n]
        /\ stack' \in [Cpu -> Seq(Frame)]
    BY <1>6, <2>1, <2>3 DEF Became
  <2>5. Nested(stack'[p], n + 1)
    <3>1. stack'[p][n + 1].fn = "func" /\ stack'[p][n].fn = "process"
      BY <1>3, <1>6, <2>4
    <3> QED BY <1>6, <2>4, <3>1, NestedFunc
  <2>6. \A i \in 1 .. Len(<<func>>) : Shape(p, <<func>>[i]) /\ Nested(stack'[p], n + i)
    BY <1>4, <2>1, <2>5
  <2>7. StackInv'
    BY <1>7, <2>3, <2>6, StackBecame DEF Base
  <2>8. m # "remote1" => Quiet(p)
    <3> HAVE m # "remote1"
    <3>1. ~SyncFrame(func) /\ Passes(p, func)
      BY <1>1, <1>3 DEF SyncFrame, Passes
    <3> QED BY <1>8, <2>1, <2>3, <3>1 DEF Quiet
  <2>9. CalledFunc(p, q, m)
    BY <1>1, <1>3, <1>5, <2>3, <2>8 DEF CalledFunc
  <2> QED BY <2>4, <2>7, <2>9
<1>10. CASE m = "relay"
  <2>1. PICK k \in Msg : k = "plain"
    BY DEF Msg, AllFuncs
  <2>2. PICK g : g = SendCall(q, k)
    OBVIOUS
  <2>3. /\ g \in Frame /\ Shape(p, g) /\ g.fn = "send" /\ g.at = "test" /\ g.cpu = q
        /\ g.msg = k
    BY <2>2, SendFrame
  <2>4. /\ <<func, g>> \in Seq(Frame) /\ Len(<<func, g>>) = 2 /\ <<func, g>>[1] = func
        /\ <<func, g>>[2] = g
    BY <1>3, <2>3
  <2>5. stack' = [stack EXCEPT ![p] = @ \o <<func, g>>]
    BY <1>1, <1>2, <1>10, <2>1, <2>2 DEF FuncCalls
  <2>6. Became(p, n, <<func, g>>)
    BY <1>5, <2>4, <2>5, CallsBecame DEF Base
  <2>7. /\ Len(stack'[p]) = n + 2 /\ stack'[p][n + 1] = func /\ stack'[p][n + 2] = g
        /\ stack'[p][n] = stack[p][n] /\ stack' \in [Cpu -> Seq(Frame)]
    <3>1. PICK new : new = <<func, g>>
      OBVIOUS
    <3>2. Len(new) = 2 /\ new[1] = func /\ new[2] = g /\ 1 \in 1 .. Len(new) /\ 2 \in 1 .. Len(new)
      BY <2>4, <3>1
    <3>3. /\ stack' \in [Cpu -> Seq(Frame)] /\ Len(stack'[p]) = n + Len(new)
          /\ \A i \in 1 .. n : stack'[p][i] = stack[p][i]
          /\ \A i \in 1 .. Len(new) : stack'[p][n + i] = new[i]
      BY <2>6, <3>1 DEF Became
    <3>4. n \in 1 .. n
      BY <1>6
    <3> QED BY <3>2, <3>3, <3>4
  <2>8. Nested(stack'[p], n + 1)
    <3>1. n + 1 > 1 /\ n + 1 - 1 = n
      BY <1>6
    <3>2. Suspended(func)
      BY <1>1, <1>3, <1>10 DEF Suspended
    <3> QED BY <1>3, <1>6, <2>7, <3>1, <3>2 DEF Nested
  <2>9. Nested(stack'[p], n + 2)
    BY <2>1, <2>3, <2>7 DEF Nested
  <2>10. \A i \in 1 .. 2 : i = 1 \/ i = 2
    OBVIOUS
  <2>11. \A i \in 1 .. Len(<<func, g>>) : Shape(p, <<func, g>>[i]) /\ Nested(stack'[p], n + i)
    BY <1>4, <2>3, <2>4, <2>8, <2>9, <2>10
  <2>12. StackInv'
    BY <1>7, <2>6, <2>11, StackBecame DEF Base
  <2>13. ~SyncFrame(func) /\ Passes(p, func) /\ ~SyncFrame(g) /\ Passes(p, g)
    BY <1>1, <1>3, <1>10, <2>1, <2>3 DEF SyncFrame, Passes
  <2>14. \A i \in 1 .. Len(<<func, g>>) :
           ~SyncFrame(<<func, g>>[i]) /\ Passes(p, <<func, g>>[i])
    BY <2>4, <2>10, <2>13
  <2>15. Quiet(p)
    BY <1>8, <2>6, <2>14 DEF Quiet
  <2> QED BY <1>10, <2>7, <2>12, <2>15 DEF CalledFunc
<1> QED BY <1>9, <1>10

(* lwkt_process_ipiq_core() takes a message, the request of a cpusync or   *)
(* another one, or goes on.                                                *)
LEMMA CoreStep ==
  ASSUME Base, SyncType, NEW p \in Cpu, lwkt_process_ipiq_core(p)
  PROVE  \/ QuietStep(p)
         \/ /\ Base' /\ UNCHANGED syncVars
            /\ \E q \in Cpu \ {p}, func \in Frame :
                 /\ func.fn = "func" /\ func.at = "remote1" /\ func.cpu = q
                 /\ Became(p, Len(stack[p]), <<func>>)
                 /\ fifo[<<q, p>>] # <<>> /\ Head(fifo[<<q, p>>]) = "remote1"
                 /\ fifo' = [fifo EXCEPT ![<<q, p>>] = Tail(@)]
<1>1. stack[p] # <<>> /\ Top(p).fn = "process" /\ Top(p).at = "core"
  BY InTop DEF lwkt_process_ipiq_core
<1>2. Top(p) \in Frame /\ Shape(p, Top(p))
  BY <1>1, TopFacts
<1>3. Top(p).mask \in SUBSET Cpu /\ p \notin Top(p).mask /\ Top(p).cpu \in Top(p).mask
  BY <1>1, <1>2, FrameFields DEF Shape
<1>4. PICK q \in Cpu \ {p} : q = Top(p).cpu
  BY <1>3
<1>5. PICK pq \in Pair : pq = <<q, p>>
  BY DEF Pair
<1>6. UNCHANGED <<xindex, signalVars, syncVars, calls>>
  BY DEF lwkt_process_ipiq_core
<1>7. CASE fifo[pq] = <<>>
  <2>1. Goto(p, Scan(p, Top(p).mask \ {Top(p).cpu})) /\ UNCHANGED <<rindex, fifo>>
    BY <1>4, <1>5, <1>7 DEF lwkt_process_ipiq_core
  <2>2. StackInv' /\ stack' \in [Cpu -> Seq(Frame)] /\ Quiet(p)
    <3>1. PICK mask \in SUBSET Cpu : mask = Top(p).mask \ {Top(p).cpu}
      BY <1>3
    <3> QED BY <1>1, <1>3, <2>1, <3>1, GotoScan
  <2>3. UNCHANGED <<queueVars, signalVars, calls>>
    BY <1>6, <2>1 DEF queueVars
  <2>4. Base' /\ AskSame
    BY <2>2, <2>3, BaseStackOnly
  <2> QED BY <1>6, <2>2, <2>4 DEF QuietStep
<1>8. CASE fifo[pq] # <<>>
  <2>1. /\ rindex' = [rindex EXCEPT ![pq] = @ + 1]
        /\ fifo' = [fifo EXCEPT ![pq] = Tail(@)]
        /\ stack' = [stack EXCEPT ![p] = @ \o FuncCalls(q, Head(fifo[pq]), rindex[pq] + 1)]
    BY <1>4, <1>5, <1>8 DEF lwkt_process_ipiq_core
  <2>2. fifo[pq] \in Seq(Msg) /\ rindex[pq] \in Nat
    BY DEF Base, IpiqType
  <2>3. PICK m \in Msg : m = Head(fifo[pq])
    BY <1>8, <2>2
  <2>4. PICK seq \in Nat : seq = rindex[pq] + 1
    BY <2>2
  <2>5. stack' = [stack EXCEPT ![p] = @ \o FuncCalls(q, m, seq)]
    BY <2>1, <2>3, <2>4
  <2>6. StackInv' /\ stack' \in [Cpu -> Seq(Frame)] /\ CalledFunc(p, q, m)
    <3>1. q \in Cpu /\ q # p
      OBVIOUS
    <3> QED BY <1>1, <2>5, <3>1, CoreFrames
  <2>7. FifoOK /\ FifoOK'
    BY <1>8, <2>1, BaseFifo, TakenOK
  <2>8. rindex' \in [Pair -> Nat]
    BY <2>1, <2>2 DEF Base, IpiqType
  <2>9. Base'
    <3>1. /\ xindex' \in [Pair -> Nat]
          /\ ipimask' \in [Cpu -> SUBSET Cpu] /\ npoll' \in [Cpu -> BOOLEAN]
          /\ hwipi' \in [Cpu -> BOOLEAN] /\ calls' \in [Cpu -> 0 .. MaxCalls]
          /\ \A x \in Cpu : x \notin ipimask'[x]
      BY <1>6 DEF Base, IpiqType, signalVars
    <3> QED BY <2>6, <2>7, <2>8, <3>1 DEF Base, IpiqType, FifoOK
  <2>10. CASE m # "remote1"
    <3>1. AskSame
      BY <1>8, <2>1, <2>3, <2>7, <2>10, AskTaken
    <3> QED BY <1>6, <2>6, <2>9, <2>10, <3>1 DEF QuietStep, CalledFunc
  <2>11. CASE m = "remote1"
    <3>1. PICK func \in Frame :
            /\ func.fn = "func" /\ func.at = "remote1" /\ func.cpu = q
            /\ Became(p, Len(stack[p]), <<func>>)
      BY <2>6, <2>11 DEF CalledFunc
    <3>2. fifo[<<q, p>>] # <<>> /\ Head(fifo[<<q, p>>]) = "remote1"
          /\ fifo' = [fifo EXCEPT ![<<q, p>>] = Tail(@)]
      BY <1>5, <1>8, <2>1, <2>3, <2>11
    <3>3. UNCHANGED syncVars
      BY <1>6
    <3> QED BY <2>9, <3>1, <3>2, <3>3
  <2> QED BY <2>10, <2>11
<1> QED BY <1>7, <1>8

(* A step that changes FIFOs and stacks.                                   *)
LEMMA BaseFifoStack ==
  ASSUME Base, FifoOK', StackInv', stack' \in [Cpu -> Seq(Frame)],
         UNCHANGED <<rindex, xindex, signalVars>>, calls' \in [Cpu -> 0 .. MaxCalls]
  PROVE  Base'
<1>1. /\ rindex' = rindex /\ xindex' = xindex /\ ipimask' = ipimask
      /\ npoll' = npoll /\ hwipi' = hwipi
  BY DEF signalVars
<1>2. /\ rindex' \in [Pair -> Nat] /\ xindex' \in [Pair -> Nat]
      /\ ipimask' \in [Cpu -> SUBSET Cpu] /\ npoll' \in [Cpu -> BOOLEAN]
      /\ hwipi' \in [Cpu -> BOOLEAN]
  BY <1>1 DEF Base, IpiqType
<1>3. \A p \in Cpu : p \notin ipimask'[p]
  BY <1>1 DEF Base, IpiqType
<1> QED BY <1>2, <1>3 DEF Base, IpiqType, FifoOK

(* The shape of a send that has its message in the FIFO, or waits.         *)
LEMMA SentShape ==
  ASSUME NEW p \in Cpu, NEW f \in Frame, Shape(p, f), f.fn \in {"send", "passive"},
         NEW g, SentAs(p, f, g)
  PROVE  /\ g \in Frame /\ Shape(p, g) /\ g.fn = f.fn /\ g.cpu = f.cpu /\ g.msg = f.msg
         /\ Passes(p, g) /\ (f.fn = "passive" \/ f.msg # "remote1" => ~SyncFrame(g) /\ ~SyncFrame(f))
<1>1. g \in Frame /\ g.fn = f.fn /\ g.cpu = f.cpu /\ g.msg = f.msg /\ g.at \in {"loop", "mask"}
  BY DEF SentAs
<1>2. Shape(p, g)
  BY <1>1 DEF Shape
<1> QED BY <1>1, <1>2 DEF Passes, SyncFrame

(* A message other than a cpusync request changes no cpusync request.      *)
LEMMA SentAsk ==
  ASSUME FifoOK, NEW p \in Cpu, NEW f \in Frame, f.cpu # p, f.msg # "remote1",
         NEW g, SentAs(p, f, g)
  PROVE  AskSame
<1>1. f.cpu \in Cpu /\ f.msg \in Msg
  BY FrameFields
<1>2. CASE fifo' = fifo
  BY <1>2, AskUnchanged
<1>3. CASE Queued(p, f.cpu, f.msg)
  BY <1>1, <1>3, AskQueued
<1> QED BY <1>2, <1>3 DEF SentAs

(* The request of a cpusync is in the FIFO, or waits for room in it.       *)
RequestSent(p) ==
  /\ Base' /\ UNCHANGED syncVars
  /\ stack[p] # <<>> /\ Top(p).fn = "send" /\ Top(p).msg = "remote1"
  /\ Top(p).at \in {"test", "loop"}
  /\ \E g : SentAs(p, Top(p), g) /\ Became(p, Len(stack[p]) - 1, <<g>>)

(* A send goes on: a quiet step, unless the message is a cpusync request   *)
(* and is queued now.                                                      *)
LEMMA SentGoto ==
  ASSUME Base, NEW p \in Cpu, stack[p] # <<>>, Top(p).fn \in {"send", "passive"},
         Top(p).at \in {"test", "loop"}, FifoOK', NEW g, SentAs(p, Top(p), g),
         stack' = [stack EXCEPT ![p] = Append(Below(p), g)],
         UNCHANGED <<rindex, xindex, signalVars, syncVars, calls>>
  PROVE  QuietStep(p) \/ RequestSent(p)
<1>1. Top(p) \in Frame /\ Shape(p, Top(p))
  BY TopFacts
<1>2. /\ g \in Frame /\ Shape(p, g) /\ g.fn = Top(p).fn /\ g.cpu = Top(p).cpu
      /\ g.msg = Top(p).msg /\ Passes(p, g)
      /\ (Top(p).fn = "passive" \/ Top(p).msg # "remote1" => ~SyncFrame(g) /\ ~SyncFrame(Top(p)))
  BY <1>1, SentShape
<1>3. Goto(p, g)
  BY DEF Goto
<1>4. /\ StackInv' /\ stack' \in [Cpu -> Seq(Frame)]
      /\ Became(p, Len(stack[p]) - 1, <<g>>)
  BY <1>2, <1>3, GotoBase
<1>5. calls' \in [Cpu -> 0 .. MaxCalls] /\ UNCHANGED <<rindex, xindex, signalVars>>
  BY DEF Base, IpiqType
<1>6. Base' /\ UNCHANGED syncVars
  BY <1>4, <1>5, BaseFifoStack
<1>7. CASE Top(p).msg # "remote1"
  <2>1. AskSame
    BY <1>1, <1>7, BaseFifo, SentAsk DEF Shape
  <2>2. Looks(Top(p)) => cpusyncq[p] = <<>> \/ Looks(g)
    BY DEF Looks
  <2>3. Quiet(p)
    BY <1>2, <1>3, <1>7, <2>2, GotoQuiet
  <2> QED BY <1>6, <2>1, <2>3 DEF QuietStep
<1>8. CASE Top(p).msg = "remote1"
  <2>1. Top(p).fn = "send"
    BY <1>1, <1>8 DEF Shape
  <2> QED BY <1>4, <1>6, <1>8, <2>1 DEF RequestSent
<1> QED BY <1>7, <1>8

(* The same of the first test for room in lwkt_send_ipiq3() ...            *)
LEMMA BeginStep ==
  ASSUME Base, NEW p \in Cpu, SendBegin(p)
  PROVE  QuietStep(p) \/ RequestSent(p)
<1>1. stack[p] # <<>> /\ Top(p).fn = "send" /\ Top(p).at = "test"
  BY InTop DEF SendBegin
<1>2. UNCHANGED <<rindex, xindex, signalVars, syncVars, calls>> /\ SendTest(p, Below(p), Top(p))
  BY DEF SendBegin
<1>3. Top(p) \in Frame /\ Top(p).cpu # p
  BY <1>1, TopFacts DEF Shape
<1>4. /\ FifoOK'
      /\ \E g : SentAs(p, Top(p), g) /\ stack' = [stack EXCEPT ![p] = Append(Below(p), g)]
  BY <1>2, <1>3, BaseFifo, SendTestTo
<1> QED BY <1>1, <1>2, <1>4, SentGoto

(* ... and of the loop that drains the own FIFOs until there is room.      *)
LEMMA LoopStep ==
  ASSUME Base, NEW p \in Cpu, SendLoop(p)
  PROVE  QuietStep(p) \/ RequestSent(p)
<1>1. stack[p] # <<>> /\ Top(p).fn \in {"send", "passive"} /\ Top(p).at = "loop"
  BY InTop DEF SendLoop, Sending
<1>2. UNCHANGED <<syncVars, calls>>
  BY DEF SendLoop
<1>3. Top(p) \in Frame /\ Top(p).cpu # p /\ Top(p).cpu \in Cpu
  BY <1>1, TopFacts, FrameFields DEF Shape
<1>4. PICK q \in Cpu : q = Top(p).cpu
  BY <1>3
<1>5. CASE Depth(p, q) > MAXCPUFIFO \div 4
  <2>1. Signal(q) /\ Push(p, lwkt_process_ipiq(p)) /\ UNCHANGED <<queueVars, ipimask>>
    BY <1>4, <1>5 DEF SendLoop
  <2>2. Suspended(Top(p))
    BY <1>1 DEF Suspended
  <2>3. StackInv' /\ stack' \in [Cpu -> Seq(Frame)] /\ Quiet(p)
    BY <1>1, <2>1, <2>2, PushProcess
  <2>4. npoll' \in [Cpu -> BOOLEAN] /\ hwipi' \in [Cpu -> BOOLEAN]
    BY <2>1 DEF Base, IpiqType, Signal
  <2>5. /\ rindex' \in [Pair -> Nat] /\ xindex' \in [Pair -> Nat] /\ fifo' = fifo
        /\ ipimask' \in [Cpu -> SUBSET Cpu]
        /\ calls' \in [Cpu -> 0 .. MaxCalls] /\ \A x \in Cpu : x \notin ipimask'[x]
    BY <1>2, <2>1 DEF Base, IpiqType, queueVars
  <2>6. Base'
    BY <2>3, <2>4, <2>5, BaseNoFifo
  <2> QED BY <1>2, <2>3, <2>5, <2>6, AskUnchanged DEF QuietStep
<1>6. CASE ~(Depth(p, q) > MAXCPUFIFO \div 4)
  <2>1. SendQueue(p, Below(p), Top(p)) /\ UNCHANGED <<rindex, xindex, signalVars>>
    BY <1>4, <1>6 DEF SendLoop
  <2>2. <<p, q>> \in Pair
    BY <1>3, <1>4 DEF Pair
  <2>3. Depth(p, q) \in Nat
    BY <2>2, BaseFifo DEF Depth, FifoOK
  <2>4. Depth(p, q) + 1 < MAXCPUFIFO - 1
    BY <1>6, <2>3, RoomLeft
  <2>5. /\ FifoOK'
        /\ \E g : SentAs(p, Top(p), g) /\ g.at = "mask" /\ stack' = [stack EXCEPT ![p] = Append(Below(p), g)]
    BY <1>3, <1>4, <2>1, <2>4, BaseFifo, SendQueueTo
  <2> QED BY <1>1, <1>2, <2>1, <2>5, SentGoto
<1> QED BY <1>5, <1>6

(* A send returns, to a wait for it or to another call.                    *)
LEMMA SendReturnQuiet ==
  ASSUME Base, NEW p \in Cpu, stack[p] # <<>>, Top(p).fn \in {"send", "passive"},
         ~SyncFrame(Top(p)), SendReturn(p)
  PROVE  StackInv' /\ stack' \in [Cpu -> Seq(Frame)] /\ Quiet(p)
<1>1. ~Looks(Top(p))
  BY DEF Looks
<1>2. PICK s : s = Below(p)
  OBVIOUS
<1>3. stack[p] \in Seq(Frame)
  BY DEF Base, IpiqType
<1>4. /\ s \in Seq(Frame) /\ Len(s) = Len(stack[p]) - 1 /\ Len(stack[p]) \in Nat
      /\ Len(stack[p]) > 0 /\ \A i \in 1 .. Len(stack[p]) - 1 : s[i] = stack[p][i]
  BY <1>2, <1>3, FramePop DEF Below
<1>5. PICK n \in Nat : n = Len(s)
  BY <1>4
<1>6. CASE ~(n > 0 /\ s[n].fn = "wait")
  <2>1. Return(p)
    BY <1>2, <1>5, <1>6 DEF SendReturn, Return
  <2> QED BY <1>1, <2>1, ReturnQuiet
<1>7. CASE n > 0 /\ s[n].fn = "wait"
  <2>1. Top(p) \in Frame /\ Top(p).cpu # p /\ Top(p).cpu \in Cpu
    BY TopFacts, FrameFields DEF Shape
  <2>2. <<p, Top(p).cpu>> \in Pair
    BY <2>1 DEF Pair
  <2>3. PICK v \in Nat : v = windex(p, Top(p).cpu)
    BY <2>2 DEF windex, Base, IpiqType
  <2>4. PICK a \in Place : a = "loop"
    BY DEF Place
  <2>5. PICK w \in Frame : w = s[n]
    BY <1>4, <1>5, <1>7
  <2>6. PICK u : u = [w EXCEPT !.at = a, !.seq = v]
    OBVIOUS
  <2>7. /\ u \in Frame /\ u.fn = w.fn /\ u.cpu = w.cpu /\ u.msg = w.msg /\ u.at = a
        /\ u.mask = w.mask
    BY <2>6 DEF Frame
  <2>8. PICK r : r = [s EXCEPT ![n] = u]
    OBVIOUS
  <2>9. r \in Seq(Frame) /\ Len(r) = n /\ r[n] = u /\ \A i \in 1 .. n - 1 : r[i] = s[i]
    BY <1>4, <1>5, <1>7, <2>7, <2>8
  <2>10. stack' = [stack EXCEPT ![p] = r]
    <3>1. [s EXCEPT ![n].at = "loop", ![n].seq = windex(p, Top(p).cpu)] = r
      <4>1. n \in DOMAIN s
        BY <1>4, <1>5, <1>7
      <4>2. [s EXCEPT ![n].at = a, ![n].seq = v] = [s EXCEPT ![n] = [s[n] EXCEPT !.at = a, !.seq = v]]
        BY <4>1
      <4> QED BY <2>3, <2>4, <2>5, <2>6, <2>8, <4>2
    <3> QED BY <1>2, <1>5, <1>7, <3>1 DEF SendReturn
  <2>11. PICK k \in Nat : k = n - 1
    BY <1>7
  <2>12. k + 1 = n /\ k \in 0 .. Len(stack[p]) /\ Len(stack[p]) = k + 2
    BY <1>4, <1>5, <1>7, <2>11
  <2>13. Len(<<u>>) = 1 /\ <<u>>[1] = u
    OBVIOUS
  <2>14. \A i \in 1 .. k : r[i] = stack[p][i]
    <3> TAKE i \in 1 .. k
    <3>1. i \in 1 .. n - 1 /\ i \in 1 .. Len(stack[p]) - 1
      BY <1>4, <1>5, <2>11
    <3> QED BY <1>4, <2>9, <3>1
  <2>15. \A i \in 1 .. Len(<<u>>) : r[k + i] = <<u>>[i]
    BY <2>9, <2>12, <2>13
  <2>16. Became(p, k, <<u>>)
    BY <2>9, <2>10, <2>12, <2>13, <2>14, <2>15, BecameBy DEF Base
  <2>17. stack' \in [Cpu -> Seq(Frame)] /\ Len(stack'[p]) = k + 1 /\ stack'[p][k + 1] = u
    BY <2>13, <2>16 DEF Became
  <2>18. stack[p][k + 1] = w
    BY <1>4, <1>5, <2>5, <2>12
  <2>19. Shape(p, w)
    <3>1. StackOK(p, stack[p]) /\ k + 1 \in 1 .. Len(stack[p])
      BY <1>4, <2>12 DEF Base, StackInv
    <3> QED BY <2>18, <3>1 DEF StackOK
  <2>20. Shape(p, u) /\ Nested(stack'[p], k + 1)
    <3>1. ~(k + 1 < k + 1)
      OBVIOUS
    <3> QED BY <1>7, <2>5, <2>7, <2>17, <2>19, <3>1 DEF Shape, Nested
  <2>21. \A i \in 1 .. Len(<<u>>) : Shape(p, <<u>>[i]) /\ Nested(stack'[p], k + i)
    BY <2>13, <2>20
  <2>22. k # Len(stack[p])
    BY <2>12
  <2>23. StackInv'
    BY <2>16, <2>21, <2>22, StackBecame DEF Base
  <2>24. ~SyncFrame(u) /\ Passes(p, u) /\ ~SyncFrame(w) /\ ~Looks(w)
    BY <1>7, <2>5, <2>7 DEF SyncFrame, Passes, Looks
  <2>25. \A i \in k + 1 .. Len(stack[p]) : stack[p][i] = w \/ stack[p][i] = Top(p)
    <3> TAKE i \in k + 1 .. Len(stack[p])
    <3>1. i = k + 1 \/ i = Len(stack[p])
      BY <2>12
    <3> QED BY <2>18, <3>1 DEF Top
  <2>26. \A i \in k + 1 .. Len(stack[p]) : ~SyncFrame(stack[p][i]) /\ ~Looks(stack[p][i])
    BY <1>1, <2>24, <2>25
  <2>27. \A i \in 1 .. Len(<<u>>) : ~SyncFrame(<<u>>[i]) /\ Passes(p, <<u>>[i])
    BY <2>13, <2>24
  <2>28. Quiet(p)
    BY <2>16, <2>26, <2>27 DEF Quiet
  <2> QED BY <2>17, <2>23, <2>28
<1> QED BY <1>6, <1>7

(* Setting the bit in the target's gd_ipimask is quiet.                    *)
LEMMA MaskQuiet ==
  ASSUME Base, NEW p \in Cpu, SendMask(p)
  PROVE  QuietStep(p)
<1>1. stack[p] # <<>> /\ Top(p).fn \in {"send", "passive"} /\ Top(p).at = "mask"
  BY InTop DEF SendMask, Sending
<1>2. UNCHANGED <<queueVars, npoll, hwipi, syncVars, calls>>
      /\ ipimask' = [ipimask EXCEPT ![Top(p).cpu] = @ \cup {p}]
  BY DEF SendMask
<1>3. Top(p) \in Frame /\ Shape(p, Top(p)) /\ Top(p).cpu # p /\ Top(p).cpu \in Cpu
  BY <1>1, TopFacts, FrameFields DEF Shape
<1>4. ~SyncFrame(Top(p)) /\ ~Looks(Top(p))
  BY <1>1 DEF SyncFrame, Looks
<1>5. StackInv' /\ stack' \in [Cpu -> Seq(Frame)] /\ Quiet(p)
  <2>1. CASE Top(p).fn = "send"
    <3>1. PICK a \in Place : a = "signal"
      BY DEF Place
    <3>2. PICK g : g = At(p, a)
      OBVIOUS
    <3>3. /\ g \in Frame /\ g.at = a /\ g.fn = Top(p).fn /\ g.cpu = Top(p).cpu
          /\ g.msg = Top(p).msg /\ g.seq = Top(p).seq /\ g.mask = Top(p).mask
      BY <1>1, <3>2, AtFrame
    <3>4. Shape(p, g) /\ ~SyncFrame(g) /\ Passes(p, g)
      BY <1>1, <1>3, <2>1, <3>1, <3>3 DEF Shape, SyncFrame, Passes
    <3>5. Goto(p, g)
      BY <2>1, <3>1, <3>2 DEF SendMask
    <3> QED BY <1>1, <1>4, <3>3, <3>4, <3>5, GotoQuiet
  <2>2. CASE Top(p).fn # "send"
    <3>1. SendReturn(p)
      BY <2>2 DEF SendMask
    <3> QED BY <1>1, <1>4, <3>1, SendReturnQuiet
  <2> QED BY <2>1, <2>2
<1>6. ipimask' \in [Cpu -> SUBSET Cpu] /\ \A q \in Cpu : q \notin ipimask'[q]
  BY <1>2, <1>3 DEF Base, IpiqType
<1>7. /\ rindex' \in [Pair -> Nat] /\ xindex' \in [Pair -> Nat] /\ fifo' = fifo
      /\ npoll' \in [Cpu -> BOOLEAN] /\ hwipi' \in [Cpu -> BOOLEAN]
      /\ calls' \in [Cpu -> 0 .. MaxCalls]
  BY <1>2 DEF Base, IpiqType, queueVars
<1>8. Base'
  BY <1>5, <1>6, <1>7, BaseNoFifo
<1> QED BY <1>2, <1>5, <1>7, <1>8, AskUnchanged DEF QuietStep

(* So is the test and set of the target's gd_npoll, with the IPI.          *)
LEMMA SignalQuiet ==
  ASSUME Base, NEW p \in Cpu, SendSignal(p)
  PROVE  QuietStep(p)
<1>1. stack[p] # <<>> /\ Top(p).fn = "send" /\ Top(p).at = "signal"
  BY InTop DEF SendSignal
<1>2. UNCHANGED <<queueVars, ipimask, syncVars, calls>> /\ Signal(Top(p).cpu) /\ SendReturn(p)
  BY DEF SendSignal
<1>3. Top(p).cpu \in Cpu
  BY <1>1, TopFacts, FrameFields
<1>4. ~SyncFrame(Top(p))
  BY <1>1 DEF SyncFrame
<1>5. StackInv' /\ stack' \in [Cpu -> Seq(Frame)] /\ Quiet(p)
  BY <1>1, <1>2, <1>4, SendReturnQuiet
<1>6. npoll' \in [Cpu -> BOOLEAN] /\ hwipi' \in [Cpu -> BOOLEAN]
  BY <1>2, <1>3 DEF Base, IpiqType, Signal
<1>7. /\ rindex' \in [Pair -> Nat] /\ xindex' \in [Pair -> Nat] /\ fifo' = fifo
      /\ ipimask' \in [Cpu -> SUBSET Cpu]
      /\ calls' \in [Cpu -> 0 .. MaxCalls] /\ \A x \in Cpu : x \notin ipimask'[x]
  BY <1>2 DEF Base, IpiqType, queueVars
<1>8. Base'
  BY <1>5, <1>6, <1>7, BaseNoFifo
<1> QED BY <1>2, <1>5, <1>7, <1>8, AskUnchanged DEF QuietStep

(* The thread of p makes a call.                                           *)
LEMMA EnterCalls ==
  ASSUME Base, NEW p \in Cpu, NEW op, Enter(p, op)
  PROVE  stack[p] = <<>> /\ calls' \in [Cpu -> 0 .. MaxCalls]
<1>1. calls \in [Cpu -> 0 .. MaxCalls] /\ calls[p] < MaxCalls /\ MaxCalls \in Nat
  BY IpiqAssumption DEF Enter, Base, IpiqType
<1>2. calls[p] + 1 \in 0 .. MaxCalls
  BY <1>1
<1> QED BY <1>1, <1>2 DEF Enter

(* What a thread sends is not a request of a cpusync.                      *)
LEMMA ThreadMsg ==
  ASSUME NEW p \in Cpu, NEW m \in Funcs[p]
  PROVE  m \in Msg /\ m # "remote1"
<1>1. m \in AllFuncs
  BY IpiqAssumption
<1> QED BY <1>1 DEF AllFuncs, Msg

(* A thread that is in no call starts a send of its own.                   *)
LEMMA ThreadSend ==
  ASSUME Base, NEW p \in Cpu, stack[p] = <<>>, NEW f \in Frame, Shape(p, f),
         f.fn \in {"send", "passive"}, f.msg # "remote1", FifoOK', NEW g, SentAs(p, f, g),
         stack' = [stack EXCEPT ![p] = Append(<<>>, g)],
         calls' \in [Cpu -> 0 .. MaxCalls], UNCHANGED <<rindex, xindex, signalVars, syncVars>>
  PROVE  QuietStep(p)
<1>1. /\ g \in Frame /\ Shape(p, g) /\ g.fn = f.fn /\ g.cpu = f.cpu /\ g.msg = f.msg
      /\ Passes(p, g) /\ (f.fn = "passive" \/ f.msg # "remote1" => ~SyncFrame(g) /\ ~SyncFrame(f))
  BY SentShape
<1>2. Push(p, g)
  BY DEF Push
<1>3. StackInv' /\ stack' \in [Cpu -> Seq(Frame)] /\ Quiet(p)
  BY <1>1, <1>2, PushQuiet
<1>4. UNCHANGED <<rindex, xindex, signalVars>> /\ UNCHANGED syncVars
  OBVIOUS
<1>5. Base'
  BY <1>3, <1>4, BaseFifoStack
<1>6. AskSame
  BY BaseFifo, SentAsk DEF Shape
<1> QED BY <1>3, <1>4, <1>5, <1>6 DEF QuietStep

(* lwkt_send_ipiq3(), called by a thread, takes no part in a cpusync.      *)
LEMMA Ipiq3Quiet ==
  ASSUME Base, NEW p \in Cpu, NEW q \in Cpu, q # p, NEW m \in Funcs[p], lwkt_send_ipiq3(p, q, m)
  PROVE  QuietStep(p)
<1>1. m \in Msg /\ m # "remote1"
  BY ThreadMsg
<1>2. PICK f : f = SendCall(q, m)
  OBVIOUS
<1>3. /\ f \in Frame /\ Shape(p, f) /\ f.fn = "send" /\ f.at = "test" /\ f.cpu = q
      /\ f.msg = m
  BY <1>1, <1>2, SendFrame
<1>4. Enter(p, "send") /\ SendTest(p, <<>>, f) /\ UNCHANGED <<rindex, xindex, signalVars, syncVars>>
  BY <1>2 DEF lwkt_send_ipiq3
<1>5. stack[p] = <<>> /\ calls' \in [Cpu -> 0 .. MaxCalls]
  BY <1>4, EnterCalls
<1>6. /\ FifoOK'
      /\ \E g : SentAs(p, f, g) /\ stack' = [stack EXCEPT ![p] = Append(<<>>, g)]
  <2>1. PICK b : b = <<>>
    OBVIOUS
  <2>2. f.cpu # p /\ SendTest(p, b, f) /\ FifoOK
    BY <1>3, <1>4, <2>1, BaseFifo
  <2>3. FifoOK' /\ \E g : SentAs(p, f, g) /\ stack' = [stack EXCEPT ![p] = Append(b, g)]
    BY <1>3, <2>2, SendTestTo
  <2> QED BY <2>1, <2>3
<1> QED BY <1>1, <1>3, <1>4, <1>5, <1>6, ThreadSend

(* Neither does lwkt_send_ipiq3_passive() ...                              *)
LEMMA PassiveQuiet ==
  ASSUME Base, NEW p \in Cpu, NEW q \in Cpu, q # p, lwkt_send_ipiq3_passive(p, q)
  PROVE  QuietStep(p)
<1>1. PICK m \in Msg : m = "free"
  BY DEF Msg
<1>2. PICK h : h = SendCall(q, m)
  OBVIOUS
<1>3. /\ h \in Frame /\ Shape(p, h) /\ h.fn = "send" /\ h.at = "test" /\ h.cpu = q
      /\ h.msg = m
  BY <1>1, <1>2, SendFrame
<1>4. PICK f : f = [h EXCEPT !.fn = "passive"]
  OBVIOUS
<1>5. f \in Frame /\ f.fn = "passive" /\ f.at = "test" /\ f.cpu = q /\ f.msg = m
  BY <1>3, <1>4 DEF Frame
<1>6. Shape(p, f) /\ f.msg # "remote1"
  BY <1>1, <1>5 DEF Shape
<1>7. Enter(p, "passive") /\ SendTest(p, <<>>, f) /\ UNCHANGED <<rindex, xindex, signalVars, syncVars>>
  BY <1>1, <1>2, <1>4 DEF lwkt_send_ipiq3_passive
<1>8. stack[p] = <<>> /\ calls' \in [Cpu -> 0 .. MaxCalls]
  BY <1>7, EnterCalls
<1>9. /\ FifoOK'
      /\ \E g : SentAs(p, f, g) /\ stack' = [stack EXCEPT ![p] = Append(<<>>, g)]
  <2>1. PICK b : b = <<>>
    OBVIOUS
  <2>2. f.cpu # p /\ SendTest(p, b, f) /\ FifoOK
    BY <1>5, <1>7, <2>1, BaseFifo
  <2>3. FifoOK' /\ \E g : SentAs(p, f, g) /\ stack' = [stack EXCEPT ![p] = Append(b, g)]
    BY <1>5, <2>2, SendTestTo
  <2> QED BY <2>1, <2>3
<1> QED BY <1>5, <1>6, <1>7, <1>8, <1>9, ThreadSend

(* ... nor lwkt_send_ipiq3_nowait() ...                                    *)
LEMMA NowaitQuiet ==
  ASSUME Base, NEW p \in Cpu, NEW q \in Cpu, q # p, NEW m \in Funcs[p],
         lwkt_send_ipiq3_nowait(p, q, m)
  PROVE  QuietStep(p)
<1>1. m \in Msg /\ m # "remote1"
  BY ThreadMsg
<1>2. PICK f : f = SendCall(q, m)
  OBVIOUS
<1>3. /\ f \in Frame /\ Shape(p, f) /\ f.fn = "send" /\ f.at = "test" /\ f.cpu = q
      /\ f.msg = m
  BY <1>1, <1>2, SendFrame
<1>4. Enter(p, "nowait") /\ UNCHANGED <<rindex, xindex, signalVars, syncVars>>
  BY DEF lwkt_send_ipiq3_nowait
<1>5. stack[p] = <<>> /\ calls' \in [Cpu -> 0 .. MaxCalls]
  BY <1>4, EnterCalls
<1>6. CASE Depth(p, q) >= (MAXCPUFIFO * 2) \div 3
  <2>1. fifo' = fifo /\ stack' = stack
    BY <1>6 DEF lwkt_send_ipiq3_nowait
  <2>2. Quiet(p)
    <3>1. stack[p] \in Seq(Frame) /\ stack \in [Cpu -> Seq(Frame)]
      BY DEF Base, IpiqType
    <3>2. PICK n \in 0 .. Len(stack[p]) : n = Len(stack[p])
      BY <3>1
    <3>3. Len(<<>>) = 0 /\ n + 0 = n /\ \A i \in 1 .. 0 : FALSE
      BY <3>1, <3>2
    <3>4. Became(p, n, <<>>)
      BY <2>1, <3>1, <3>2, <3>3 DEF Became
    <3>5. \A i \in n + 1 .. Len(stack[p]) : FALSE
      BY <3>1, <3>2
    <3> QED BY <3>3, <3>4, <3>5 DEF Quiet
  <2>3. StackInv' /\ stack' \in [Cpu -> Seq(Frame)]
    BY <2>1 DEF Base, IpiqType, StackInv
  <2>4. FifoOK'
    BY <2>1, BaseFifo DEF FifoOK, FifoBounded
  <2>5. UNCHANGED <<rindex, xindex, signalVars>> /\ UNCHANGED syncVars
    BY <1>4
  <2>6. Base'
    BY <1>5, <2>3, <2>4, <2>5, BaseFifoStack
  <2> QED BY <2>1, <2>2, <2>5, <2>6, AskUnchanged DEF QuietStep
<1>7. CASE ~(Depth(p, q) >= (MAXCPUFIFO * 2) \div 3)
  <2>1. SendQueue(p, <<>>, f)
    BY <1>2, <1>7 DEF lwkt_send_ipiq3_nowait
  <2>2. <<p, q>> \in Pair
    BY DEF Pair
  <2>3. Depth(p, q) \in Nat
    BY <2>2, BaseFifo DEF Depth, FifoOK
  <2>4. Depth(p, q) + 1 < MAXCPUFIFO - 1
    BY <1>7, <2>3, RoomLeft
  <2>5. /\ FifoOK'
        /\ \E g : SentAs(p, f, g) /\ g.at = "mask" /\ stack' = [stack EXCEPT ![p] = Append(<<>>, g)]
    <3>1. PICK b : b = <<>>
      OBVIOUS
    <3>2. f.cpu # p /\ SendQueue(p, b, f) /\ FifoOK /\ Depth(p, f.cpu) + 1 < MAXCPUFIFO - 1
      BY <1>3, <2>1, <2>4, <3>1, BaseFifo
    <3>3. /\ FifoOK'
          /\ \E g : SentAs(p, f, g) /\ g.at = "mask" /\ stack' = [stack EXCEPT ![p] = Append(b, g)]
      BY <1>3, <3>2, SendQueueTo
    <3> QED BY <3>1, <3>3
  <2> QED BY <1>1, <1>3, <1>4, <1>5, <2>5, ThreadSend
<1> QED BY <1>6, <1>7

(* ... nor a send followed by lwkt_wait_ipiq().                            *)
LEMMA SendAndWaitQuiet ==
  ASSUME Base, NEW p \in Cpu, NEW q \in Cpu, q # p, NEW m \in Funcs[p], SendAndWait(p, q, m)
  PROVE  QuietStep(p)
<1>1. m \in Msg /\ m # "remote1"
  BY ThreadMsg
<1>2. PICK f : f = SendCall(q, m)
  OBVIOUS
<1>3. /\ f \in Frame /\ Shape(p, f) /\ f.fn = "send" /\ f.at = "test" /\ f.cpu = q
      /\ f.msg = m
  BY <1>1, <1>2, SendFrame
<1>4. PICK a \in Place : a = "call"
  BY DEF Place
<1>5. PICK k \in Msg : k = "plain"
  BY DEF Msg, AllFuncs
<1>6. PICK w : w = Call("wait", a, q, k, 0, {})
  OBVIOUS
<1>7. /\ w \in Frame /\ w.fn = "wait" /\ w.at = a /\ w.cpu = q /\ w.msg = k
      /\ w.seq = 0 /\ w.mask = {}
  BY <1>6, FrameCall
<1>8. Enter(p, "send_wait") /\ SendTest(p, <<w>>, f) /\ UNCHANGED <<rindex, xindex, signalVars, syncVars>>
  BY <1>2, <1>4, <1>5, <1>6 DEF SendAndWait
<1>9. stack[p] = <<>> /\ calls' \in [Cpu -> 0 .. MaxCalls]
  BY <1>8, EnterCalls
<1>10. PICK b : b = <<w>>
  OBVIOUS
<1>11. FifoOK' /\ \E g : SentAs(p, f, g) /\ stack' = [stack EXCEPT ![p] = Append(b, g)]
  <2>1. f.cpu # p /\ SendTest(p, b, f) /\ FifoOK
    BY <1>3, <1>8, <1>10, BaseFifo
  <2> QED BY <1>3, <2>1, SendTestTo
<1>12. PICK g : SentAs(p, f, g) /\ stack' = [stack EXCEPT ![p] = Append(b, g)]
  BY <1>11
<1>13. /\ g \in Frame /\ Shape(p, g) /\ g.fn = f.fn /\ g.cpu = f.cpu /\ g.msg = f.msg
       /\ Passes(p, g) /\ (f.fn = "passive" \/ f.msg # "remote1" => ~SyncFrame(g) /\ ~SyncFrame(f))
  BY <1>3, <1>12, SentShape
<1>14. /\ <<w, g>> \in Seq(Frame) /\ Len(<<w, g>>) = 2 /\ <<w, g>>[1] = w /\ <<w, g>>[2] = g
  BY <1>7, <1>13
<1>15. PICK r : r = Append(b, g)
  OBVIOUS
<1>a. r \in Seq(Frame) /\ Len(r) = 2 /\ r[1] = w /\ r[2] = g
  <2>1. b \in Seq(Frame) /\ Len(b) = 1 /\ b[1] = w
    BY <1>7, <1>10
  <2>2. /\ r \in Seq(Frame) /\ Len(r) = Len(b) + 1 /\ (\A i \in 1 .. Len(b) : r[i] = b[i])
        /\ r[Len(b) + 1] = g
    BY <1>13, <1>15, <2>1, FramePush
  <2> QED BY <2>1, <2>2
<1>16. PICK n \in 0 .. Len(stack[p]) : n = 0
  BY <1>9
<1>17. Became(p, n, <<w, g>>)
  <2>1. \A i \in 1 .. n : r[i] = stack[p][i]
    BY <1>16
  <2>2. \A i \in 1 .. Len(<<w, g>>) : r[n + i] = <<w, g>>[i]
    <3>1. \A i \in 1 .. 2 : (i = 1 /\ n + i = 1) \/ (i = 2 /\ n + i = 2)
      BY <1>16
    <3> QED BY <1>14, <1>a, <3>1
  <2>3. Len(r) = n + Len(<<w, g>>) /\ Len(<<w, g>>) \in Nat
    BY <1>14, <1>16, <1>a
  <2>4. stack' = [stack EXCEPT ![p] = r]
    BY <1>12, <1>15
  <2>5. PICK c : c = <<w, g>>
    OBVIOUS
  <2> QED BY <1>a, <2>1, <2>2, <2>3, <2>4, <2>5, BecameBy DEF Base
<1>18. /\ Len(stack'[p]) = 2 /\ stack'[p][1] = w /\ stack'[p][2] = g
       /\ stack' \in [Cpu -> Seq(Frame)]
  BY <1>14, <1>16, <1>17 DEF Became
<1>19. Nested(stack'[p], 1) /\ Nested(stack'[p], 2)
  BY <1>1, <1>3, <1>7, <1>13, <1>18 DEF Nested, Suspended
<1>20. Shape(p, w)
  BY <1>7 DEF Shape
<1>21. \A i \in 1 .. Len(<<w, g>>) : Shape(p, <<w, g>>[i]) /\ Nested(stack'[p], n + i)
  <2>1. \A i \in 1 .. 2 : (i = 1 /\ n + i = 1) \/ (i = 2 /\ n + i = 2)
    BY <1>16
  <2> QED BY <1>13, <1>14, <1>19, <1>20, <2>1
<1>22. StackInv'
  <2>1. ~(n > 0)
    BY <1>16
  <2> QED BY <1>17, <1>21, <2>1, StackBecame DEF Base
<1>23. Quiet(p)
  <2>1. ~SyncFrame(w) /\ Passes(p, w) /\ ~SyncFrame(g)
    BY <1>1, <1>3, <1>7, <1>13 DEF SyncFrame, Passes
  <2>2. \A i \in 1 .. 2 : i = 1 \/ i = 2
    OBVIOUS
  <2>3. \A i \in 1 .. Len(<<w, g>>) : ~SyncFrame(<<w, g>>[i]) /\ Passes(p, <<w, g>>[i])
    BY <1>13, <1>14, <2>1, <2>2
  <2>4. \A i \in n + 1 .. Len(stack[p]) : FALSE
    BY <1>9, <1>16
  <2> QED BY <1>17, <2>3, <2>4 DEF Quiet
<1>24. UNCHANGED <<rindex, xindex, signalVars>> /\ UNCHANGED syncVars
  BY <1>8
<1>25. Base'
  BY <1>9, <1>11, <1>18, <1>22, <1>24, BaseFifoStack
<1>26. AskSame
  BY <1>1, <1>3, <1>12, BaseFifo, SentAsk
<1> QED BY <1>23, <1>24, <1>25, <1>26 DEF QuietStep

-----------------------------------------------------------------------------
(* The calls that take part in cpusyncs.                                   *)

(* What a change of p's stack leaves of them.                              *)
LEMMA SyncBecame ==
  ASSUME Base, NEW p \in Cpu, NEW n, NEW new, Became(p, n, new)
  PROVE  /\ \A q \in Cpu \ {p} : Sync(q)' = Sync(q)
         /\ \A f : f \in Sync(p)' <=>
              /\ SyncFrame(f)
              /\ \/ \E i \in 1 .. n : f = stack[p][i]
                 \/ \E i \in 1 .. Len(new) : f = new[i]
<1>1. /\ \A q \in Cpu \ {p} : stack'[q] = stack[q]
      /\ n \in 0 .. Len(stack[p]) /\ Len(stack'[p]) = n + Len(new) /\ Len(new) \in Nat
      /\ \A i \in 1 .. n : stack'[p][i] = stack[p][i]
      /\ \A i \in 1 .. Len(new) : stack'[p][n + i] = new[i]
  BY DEF Became
<1>2. Len(stack[p]) \in Nat
  BY DEF Base, IpiqType
<1>3. \A q \in Cpu \ {p} : Sync(q)' = Sync(q)
  <2> TAKE q \in Cpu \ {p}
  <2>1. CallsOf(q)' = CallsOf(q)
    BY <1>1 DEF CallsOf
  <2> QED BY <2>1 DEF Sync, SyncFrame
<1>4. ASSUME NEW f
      PROVE  f \in CallsOf(p)' <=>
               \/ \E i \in 1 .. n : f = stack[p][i]
               \/ \E i \in 1 .. Len(new) : f = new[i]
  <2>1. f \in CallsOf(p)' <=> \E i \in 1 .. Len(stack'[p]) : f = stack'[p][i]
    BY DEF CallsOf
  <2>2. ASSUME NEW i \in 1 .. Len(stack'[p])
        PROVE  \/ \E j \in 1 .. n : stack'[p][i] = stack[p][j]
               \/ \E j \in 1 .. Len(new) : stack'[p][i] = new[j]
    <3>1. CASE i <= n
      <4>1. i \in 1 .. n
        BY <1>1, <1>2, <3>1
      <4> QED BY <1>1, <4>1
    <3>2. CASE i > n
      <4>1. PICK j \in 1 .. Len(new) : i = n + j
        <5>1. i - n \in 1 .. Len(new) /\ i = n + (i - n)
          BY <1>1, <1>2, <3>2
        <5> QED BY <5>1
      <4> QED BY <1>1, <4>1
    <3> QED BY <1>1, <1>2, <3>1, <3>2
  <2>3. \A i \in 1 .. n : i \in 1 .. Len(stack'[p])
    BY <1>1, <1>2
  <2>4. \A i \in 1 .. Len(new) : n + i \in 1 .. Len(stack'[p])
    BY <1>1, <1>2
  <2>5. ASSUME NEW i \in 1 .. n, f = stack[p][i] PROVE f \in CallsOf(p)'
    <3>1. i \in 1 .. Len(stack'[p]) /\ f = stack'[p][i]
      BY <1>1, <2>3, <2>5
    <3> QED BY <2>1, <3>1
  <2>6. ASSUME NEW i \in 1 .. Len(new), f = new[i] PROVE f \in CallsOf(p)'
    <3>1. n + i \in 1 .. Len(stack'[p]) /\ f = stack'[p][n + i]
      BY <1>1, <2>4, <2>6
    <3> QED BY <2>1, <3>1
  <2> QED BY <2>1, <2>2, <2>5, <2>6
<1>5. ASSUME NEW f PROVE f \in Sync(p)' <=> f \in CallsOf(p)' /\ SyncFrame(f)
  BY DEF Sync, SyncFrame
<1> QED BY <1>3, <1>4, <1>5

SyncBelow(p) == {f \in Sync(p) : \E i \in 1 .. Len(stack[p]) - 1 : f = stack[p][i]}

(* They are p's own cpusync and the send of a request of it, which wait    *)
(* for what p is in, and that itself.                                      *)
LEMMA SyncParts ==
  ASSUME Base, NEW p \in Cpu, stack[p] # <<>>
  PROVE  /\ \A f : f \in Sync(p) <=> f \in SyncBelow(p) \/ (f = Top(p) /\ SyncFrame(f))
         /\ \A f \in SyncBelow(p) : f.fn \in {"cpusync", "send"}
         /\ Top(p).fn = "cpusync" => SyncBelow(p) = {} /\ Len(stack[p]) = 1
         /\ Top(p).fn = "send" /\ Top(p).msg = "remote1" =>
              \E c : SyncBelow(p) = {c} /\ c.fn = "cpusync"
<1>1. /\ stack[p] \in Seq(Frame) /\ Len(stack[p]) \in Nat /\ Len(stack[p]) > 0
      /\ Top(p) = stack[p][Len(stack[p])] /\ Top(p) \in Frame
      /\ Shape(p, Top(p)) /\ Nested(stack[p], Len(stack[p]))
  BY TopFacts
<1>2. \A i \in 1 .. Len(stack[p]) : Shape(p, stack[p][i]) /\ Nested(stack[p], i)
  BY DEF Base, StackInv, StackOK
<1>3. \A i \in 1 .. Len(stack[p]) : i = Len(stack[p]) \/ i \in 1 .. Len(stack[p]) - 1
  BY <1>1
<1>4. \A i \in 1 .. Len(stack[p]) - 1 : i \in 1 .. Len(stack[p]) /\ i < Len(stack[p])
  BY <1>1
<1>5. Len(stack[p]) \in 1 .. Len(stack[p])
  BY <1>1
<1>6. ASSUME NEW f PROVE f \in Sync(p) <=> SyncFrame(f) /\ \E i \in 1 .. Len(stack[p]) : f = stack[p][i]
  BY DEF Sync, CallsOf
<1>7. ASSUME NEW f PROVE f \in SyncBelow(p) <=> SyncFrame(f) /\ \E i \in 1 .. Len(stack[p]) - 1 : f = stack[p][i]
  BY <1>4, <1>6 DEF SyncBelow
<1>8. ASSUME NEW f PROVE f \in Sync(p) <=> f \in SyncBelow(p) \/ (f = Top(p) /\ SyncFrame(f))
  BY <1>1, <1>3, <1>4, <1>5, <1>6, <1>7
<1>9. ASSUME NEW f \in SyncBelow(p) PROVE f.fn \in {"cpusync", "send"}
  <2>1. PICK i \in 1 .. Len(stack[p]) - 1 : f = stack[p][i]
    BY <1>7
  <2>2. Suspended(f)
    BY <1>2, <1>4, <2>1 DEF Nested
  <2> QED BY <1>7, <2>2 DEF Suspended, SyncFrame
<1>10. ASSUME Top(p).fn = "cpusync" PROVE SyncBelow(p) = {} /\ Len(stack[p]) = 1
  <2>1. Len(stack[p]) = 1
    BY <1>1, <1>10 DEF Nested
  <2>2. \A i \in 1 .. 1 - 1 : FALSE
    OBVIOUS
  <2> QED BY <1>7, <2>1, <2>2
<1>11. ASSUME Top(p).fn = "send", Top(p).msg = "remote1"
       PROVE  \E c : SyncBelow(p) = {c} /\ c.fn = "cpusync"
  <2>1. Len(stack[p]) = 2 /\ stack[p][1].fn = "cpusync"
    BY <1>1, <1>11 DEF Nested
  <2>2. \A i \in 1 .. 2 - 1 : i = 1
    OBVIOUS
  <2>3. 1 \in 1 .. 2 - 1
    OBVIOUS
  <2>4. SyncFrame(stack[p][1])
    BY <2>1 DEF SyncFrame
  <2>5. \A f : f \in SyncBelow(p) <=> f = stack[p][1]
    BY <1>7, <2>1, <2>2, <2>3, <2>4
  <2>6. SyncBelow(p) = {stack[p][1]}
    BY <2>5
  <2> QED BY <2>1, <2>6
<1> QED BY <1>8, <1>9, <1>10, <1>11

(* The top call goes on as g, or returns.                                  *)
LEMMA SyncGoto ==
  ASSUME Base, NEW p \in Cpu, stack[p] # <<>>, NEW g, Became(p, Len(stack[p]) - 1, <<g>>)
  PROVE  /\ \A q \in Cpu \ {p} : Sync(q)' = Sync(q)
         /\ \A f : f \in Sync(p)' <=> f \in SyncBelow(p) \/ (f = g /\ SyncFrame(f))
<1>1. PICK n : n = Len(stack[p]) - 1
  OBVIOUS
<1>2. /\ \A q \in Cpu \ {p} : Sync(q)' = Sync(q)
      /\ \A f : f \in Sync(p)' <=>
           /\ SyncFrame(f)
           /\ \/ \E i \in 1 .. n : f = stack[p][i]
              \/ \E i \in 1 .. Len(<<g>>) : f = <<g>>[i]
  BY <1>1, SyncBecame
<1>3. \A f : (\E i \in 1 .. Len(<<g>>) : f = <<g>>[i]) <=> f = g
  OBVIOUS
<1>4. \A i \in 1 .. Len(stack[p]) - 1 : i \in 1 .. Len(stack[p])
  BY TopFacts
<1>5. ASSUME NEW f PROVE f \in SyncBelow(p) <=> SyncFrame(f) /\ \E i \in 1 .. Len(stack[p]) - 1 : f = stack[p][i]
  BY <1>4 DEF SyncBelow, Sync, CallsOf
<1> QED BY <1>1, <1>2, <1>3, <1>5

(* A quiet step leaves them all as they are.                               *)
LEMMA SyncQuiet ==
  ASSUME Base, NEW p \in Cpu, Quiet(p)
  PROVE  \A q \in Cpu : Sync(q)' = Sync(q)
<1>1. PICK n, new :
    /\ Became(p, n, new)
    /\ \A i \in n + 1 .. Len(stack[p]) : ~SyncFrame(stack[p][i])
    /\ \A i \in 1 .. Len(new) : ~SyncFrame(new[i]) /\ Passes(p, new[i])
  BY DEF Quiet
<1>2. /\ \A q \in Cpu \ {p} : Sync(q)' = Sync(q)
      /\ \A f : f \in Sync(p)' <=>
           /\ SyncFrame(f)
           /\ \/ \E i \in 1 .. n : f = stack[p][i]
              \/ \E i \in 1 .. Len(new) : f = new[i]
  BY <1>1, SyncBecame
<1>3. n \in 0 .. Len(stack[p]) /\ Len(stack[p]) \in Nat
  BY <1>1 DEF Became, Base, IpiqType
<1>4. \A i \in 1 .. Len(stack[p]) : i \in 1 .. n \/ i \in n + 1 .. Len(stack[p])
  BY <1>3
<1>5. \A i \in 1 .. n : i \in 1 .. Len(stack[p])
  BY <1>3
<1>6. ASSUME NEW f PROVE f \in Sync(p) <=> SyncFrame(f) /\ \E i \in 1 .. Len(stack[p]) : f = stack[p][i]
  BY DEF Sync, CallsOf
<1>7. ASSUME NEW f PROVE f \in Sync(p)' <=> f \in Sync(p)
  BY <1>1, <1>2, <1>4, <1>5, <1>6
<1>8. Sync(p)' = Sync(p)
  BY <1>7
<1> QED BY <1>2, <1>8

-----------------------------------------------------------------------------
(* What a step keeps of the cpusyncs.                                      *)

StageKept(p) ==
  /\ Interlocking(p)' <=> Interlocking(p)
  /\ Held(p)' <=> Held(p)
  /\ Releasing(p)' <=> Releasing(p)
  /\ Syncing(p)' <=> Syncing(p)

FromKept(p, q) == (ToAsk(p, q)' <=> ToAsk(p, q)) /\ (Asking(p, q)' <=> Asking(p, q))

ToKept(p, q) == (Answering(p, q)' <=> Answering(p, q)) /\ (Checking(p, q)' <=> Checking(p, q))

ListsKept(p, q) ==
  /\ Asked(p, q)' <=> Asked(p, q)
  /\ Polling(p, q)' <=> Polling(p, q)
  /\ Once(p, q)'

CountsKept(p, q) ==
  /\ q \in cs_mack'[p] <=> q \in cs_mack[p]
  /\ ran'[p][q] = ran[p][q]
  /\ ran'[p][p] = ran[p][p]

(* A cpu whose cpusync calls stay as they are keeps its stage and its      *)
(* requests.                                                               *)
LEMMA SyncKept ==
  ASSUME NEW p, NEW q, Sync(p)' = Sync(p)
  PROVE  StageKept(p) /\ FromKept(p, q) /\ ToKept(q, p)
<1>1. StageKept(p)
  BY DEF StageKept, Interlocking, Held, Releasing, Syncing, Stage
<1>2. FromKept(p, q)
  BY DEF FromKept, ToAsk, Asking
<1>3. ToKept(q, p)
  BY DEF ToKept, Answering, Checking
<1> QED BY <1>1, <1>2, <1>3

(* What a request depends on: the stages, its place, the list and the      *)
(* counts.                                                                 *)
LEMMA RequestKept ==
  ASSUME NEW p, NEW q, RequestInv(p, q), StageKept(p), FromKept(p, q), ToKept(p, q),
         ListsKept(p, q), CountsKept(p, q)
  PROVE  RequestInv(p, q)'
<1>1. /\ Unanswered(p, q)' <=> Unanswered(p, q)
      /\ Answered(p, q)' <=> Answered(p, q)
  BY DEF FromKept, ToKept, ListsKept, Unanswered, Answered
<1>2. OnePlace(p, q)'
  BY DEF RequestInv, OnePlace, FromKept, ToKept, ListsKept, Answered
<1>3. /\ Interlocking(p)' <=> Interlocking(p)
      /\ Held(p)' <=> Held(p)
      /\ Releasing(p)' <=> Releasing(p)
      /\ Syncing(p)' <=> Syncing(p)
  BY DEF StageKept
<1>4. /\ q \in cs_mack'[p] <=> q \in cs_mack[p]
      /\ ran'[p][q] = ran[p][q]
      /\ ran'[p][p] = ran[p][p]
      /\ Once(p, q)'
  BY DEF CountsKept, ListsKept
<1> QED BY <1>1, <1>2, <1>3, <1>4 DEF RequestInv

(* What the master's part of the invariant depends on.                     *)
LEMMA MasterKept ==
  ASSUME NEW p, MasterInv(p), StageKept(p), td_cscount'[p] = td_cscount[p],
         ran'[p][p] = ran[p][p], p \notin cs_mack'[p]
  PROVE  MasterInv(p)'
BY DEF MasterInv, StageKept

(* What other cpus poll does not change.                                   *)
LEMMA PollKept ==
  ASSUME NEW q, PollInv(q), cpusyncq'[q] = cpusyncq[q], stack'[q] = stack[q], Sync(q)' = Sync(q)
  PROVE  PollInv(q)'
<1>1. Syncing(q)' <=> Syncing(q)
  BY DEF Syncing
<1> QED BY <1>1 DEF PollInv, Passes, Looks

(* A list that stays as it is polls the same masters.                      *)
LEMMA PollingKept ==
  ASSUME NEW p, NEW q, cpusyncq'[q] = cpusyncq[q]
  PROVE  Polling(p, q)' <=> Polling(p, q)
BY DEF Polling

(* The request of p to q is not touched in the FIFO.                       *)
LEMMA AskKept ==
  ASSUME NEW p \in Cpu, NEW q \in Cpu, p # q, AskSame, Once(p, q)
  PROVE  (Asked(p, q)' <=> Asked(p, q)) /\ Once(p, q)'
<1>1. PICK pq \in Pair : pq = <<p, q>>
  BY DEF Pair
<1>2. /\ (\E i \in 1 .. Len(fifo'[pq]) : fifo'[pq][i] = "remote1") <=>
           \E i \in 1 .. Len(fifo[pq]) : fifo[pq][i] = "remote1"
      /\ (\A i, j \in 1 .. Len(fifo[pq]) :
            fifo[pq][i] = "remote1" /\ fifo[pq][j] = "remote1" => i = j) =>
           \A i, j \in 1 .. Len(fifo'[pq]) :
             fifo'[pq][i] = "remote1" /\ fifo'[pq][j] = "remote1" => i = j
  BY DEF AskSame
<1>3. Asked(p, q)' <=> Asked(p, q)
  BY <1>1, <1>2 DEF Asked
<1>4. Once(p, q)'
  BY <1>1, <1>2 DEF Once
<1> QED BY <1>3, <1>4

(* A step that keeps the calls of the cpusyncs, their requests and counts  *)
(* keeps their invariant, if p still looks at what it polls.               *)
LEMMA QuietInv ==
  ASSUME Inv, NEW p \in Cpu, QuietStep(p)
  PROVE  Inv'
<1>1. /\ Base /\ SyncInv /\ SyncType
      /\ \A x \in Cpu : MasterInv(x) /\ PollInv(x)
      /\ \A x, y \in Cpu : x # y => RequestInv(x, y)
  BY DEF Inv, SyncInv
<1>2. Base' /\ AskSame /\ Quiet(p)
  BY DEF QuietStep
<1>3. cpusyncq' = cpusyncq /\ cs_mack' = cs_mack /\ td_cscount' = td_cscount /\ ran' = ran
  BY DEF QuietStep, syncVars
<1>4. \A x \in Cpu : Sync(x)' = Sync(x)
  BY <1>1, <1>2, SyncQuiet
<1>5. SyncType'
  BY <1>1, <1>3 DEF SyncType
<1>6. ASSUME NEW x \in Cpu, NEW y \in Cpu, x # y PROVE RequestInv(x, y)'
  <2>1. StageKept(x) /\ FromKept(x, y) /\ ToKept(x, y)
    BY <1>4, SyncKept
  <2>2. Once(x, y)
    BY <1>1, <1>6 DEF RequestInv
  <2>3. (Asked(x, y)' <=> Asked(x, y)) /\ Once(x, y)'
    BY <1>2, <1>6, <2>2, AskKept
  <2>4. ListsKept(x, y)
    BY <1>3, <2>3, PollingKept DEF ListsKept
  <2>5. CountsKept(x, y)
    BY <1>3 DEF CountsKept
  <2> QED BY <1>1, <1>6, <2>1, <2>4, <2>5, RequestKept
<1>7. ASSUME NEW x \in Cpu PROVE MasterInv(x)'
  <2>1. StageKept(x)
    BY <1>4, SyncKept
  <2>2. p \in Cpu /\ x \notin cs_mack'[x]
    BY <1>1, <1>3 DEF MasterInv
  <2> QED BY <1>1, <1>3, <2>1, <2>2, MasterKept
<1>8. ASSUME NEW x \in Cpu PROVE PollInv(x)'
  <2>1. PICK n, new :
      /\ Became(p, n, new)
      /\ \A i \in 1 .. Len(new) : ~SyncFrame(new[i]) /\ Passes(p, new[i])
      /\ cpusyncq[p] # <<>> /\ (\E i \in n + 1 .. Len(stack[p]) : Looks(stack[p][i])) =>
           \E i \in 1 .. Len(new) : Looks(new[i])
    BY <1>2 DEF Quiet
  <2>2. CASE x # p
    <3>1. stack'[x] = stack[x]
      BY <2>1, <2>2 DEF Became
    <3> QED BY <1>1, <1>3, <1>4, <3>1, PollKept
  <2>3. CASE x = p
    <3>1. /\ n \in 0 .. Len(stack[p]) /\ Len(stack'[p]) = n + Len(new) /\ Len(new) \in Nat
          /\ \A i \in 1 .. n : stack'[p][i] = stack[p][i]
          /\ \A i \in 1 .. Len(new) : stack'[p][n + i] = new[i]
      BY <2>1 DEF Became
    <3>2. Len(stack[p]) \in Nat
      BY <1>1 DEF Base, IpiqType
    <3>3. PollInv(p) /\ (Syncing(p)' <=> Syncing(p))
      BY <1>1, <1>4 DEF Syncing
    <3>4. ASSUME NEW i \in 1 .. Len(stack'[p]) PROVE Passes(p, stack'[p][i])
      <4>1. CASE i <= n
        <5>1. i \in 1 .. n /\ i \in 1 .. Len(stack[p])
          BY <3>1, <3>2, <4>1
        <5> QED BY <3>1, <3>3, <5>1 DEF PollInv
      <4>2. CASE i > n
        <5>1. PICK j \in 1 .. Len(new) : i = n + j
          <6>1. i - n \in 1 .. Len(new) /\ i = n + (i - n)
            BY <3>1, <3>2, <4>2
          <6> QED BY <6>1
        <5> QED BY <2>1, <3>1, <5>1
      <4> QED BY <3>1, <3>2, <4>1, <4>2
    <3>5. ASSUME cpusyncq[p] # <<>>, ~Syncing(p)
          PROVE  \E i \in 1 .. Len(stack'[p]) : Looks(stack'[p][i])
      <4>1. PICK i \in 1 .. Len(stack[p]) : Looks(stack[p][i])
        BY <3>3, <3>5 DEF PollInv
      <4>2. CASE i <= n
        <5>1. i \in 1 .. n /\ i \in 1 .. Len(stack'[p])
          BY <3>1, <3>2, <4>2
        <5> QED BY <3>1, <4>1, <5>1
      <4>3. CASE i > n
        <5>1. i \in n + 1 .. Len(stack[p])
          BY <3>1, <3>2, <4>3
        <5>2. PICK j \in 1 .. Len(new) : Looks(new[j])
          BY <2>1, <3>5, <4>1, <5>1
        <5>3. n + j \in 1 .. Len(stack'[p])
          BY <3>1, <3>2
        <5> QED BY <3>1, <5>2, <5>3
      <4> QED BY <3>1, <3>2, <4>2, <4>3
    <3>6. PollInv(p)'
      BY <1>3, <3>3, <3>4, <3>5 DEF PollInv, Passes, Looks
    <3> QED BY <2>3, <3>6
  <2> QED BY <2>2, <2>3
<1>9. SyncInv'
  BY <1>5, <1>6, <1>7, <1>8 DEF SyncInv
<1> QED BY <1>2, <1>9 DEF Inv

-----------------------------------------------------------------------------
(* The cpu that synchronizes the others.                                   *)

(* The parts of the invariant, for one cpu and for one pair of cpus.       *)
LEMMA InvParts ==
  ASSUME Inv
  PROVE  /\ Base /\ SyncType
         /\ \A x \in Cpu : MasterInv(x) /\ PollInv(x)
         /\ \A x, y \in Cpu : x # y => RequestInv(x, y)
BY DEF Inv, SyncInv

(* A pair of cpus that a step does not concern.                            *)
LEMMA PairKept ==
  ASSUME Inv, NEW x \in Cpu, NEW y \in Cpu, x # y, Sync(x)' = Sync(x), Sync(y)' = Sync(y),
         AskSame, cpusyncq'[y] = cpusyncq[y], CountsKept(x, y)
  PROVE  RequestInv(x, y)'
<1>1. RequestInv(x, y)
  BY InvParts
<1>2. StageKept(x) /\ FromKept(x, y) /\ ToKept(x, y)
  BY SyncKept
<1>3. Once(x, y)
  BY <1>1 DEF RequestInv
<1>4. (Asked(x, y)' <=> Asked(x, y)) /\ Once(x, y)'
  BY <1>3, AskKept
<1>5. ListsKept(x, y)
  BY <1>4, PollingKept DEF ListsKept
<1> QED BY <1>1, <1>2, <1>5, RequestKept

(* The calls of p that answer others are the same, or none.                *)
LEMMA PairTo ==
  ASSUME Inv, NEW p \in Cpu, NEW x \in Cpu, x # p, Sync(x)' = Sync(x), ToKept(x, p),
         AskSame, cpusyncq' = cpusyncq, CountsKept(x, p)
  PROVE  RequestInv(x, p)'
<1>1. RequestInv(x, p)
  BY InvParts
<1>2. StageKept(x) /\ FromKept(x, p)
  BY SyncKept
<1>3. Once(x, p)
  BY <1>1 DEF RequestInv
<1>4. (Asked(x, p)' <=> Asked(x, p)) /\ Once(x, p)'
  BY <1>3, AskKept
<1>5. ListsKept(x, p)
  BY <1>4, PollingKept DEF ListsKept
<1> QED BY <1>1, <1>2, <1>5, RequestKept

(* lwkt_cpusync_interlock() starts a cpusync with every other cpu still to *)
(* be asked.                                                               *)
LEMMA InterlockInv ==
  ASSUME Inv, NEW p \in Cpu, lwkt_cpusync_interlock(p)
  PROVE  Inv'
<1>1. /\ Base /\ SyncType
      /\ \A x \in Cpu : MasterInv(x) /\ PollInv(x)
      /\ \A x, y \in Cpu : x # y => RequestInv(x, y)
  BY InvParts
<1>2. PICK a \in Place : a = "send"
  BY DEF Place
<1>3. PICK m \in Msg : m = "remote1"
  BY DEF Msg
<1>4. PICK mask \in SUBSET Cpu : mask = Others(p)
  BY DEF Others
<1>5. PICK c : c = Call("cpusync", a, p, m, 0, mask)
  OBVIOUS
<1>6. c \in Frame /\ c.fn = "cpusync" /\ c.at = a /\ c.cpu = p /\ c.msg = m
      /\ c.seq = 0 /\ c.mask = mask
  BY <1>5, FrameCall
<1>7. /\ Enter(p, "cpusync") /\ Push(p, c)
      /\ cs_mack' = [cs_mack EXCEPT ![p] = {}]
      /\ td_cscount' = [td_cscount EXCEPT ![p] = @ + 1]
      /\ ran' = [ran EXCEPT ![p] = [q \in Cpu |-> 0]]
      /\ UNCHANGED <<queueVars, signalVars, cpusyncq>>
  BY <1>2, <1>3, <1>4, <1>5 DEF lwkt_cpusync_interlock
<1>8. stack[p] = <<>> /\ calls' \in [Cpu -> 0 .. MaxCalls]
  BY <1>1, <1>7, EnterCalls
<1>9. mask # {} /\ p \notin mask
  <2>1. 0 \in Cpu /\ 1 \in Cpu /\ 0 # 1
    BY IpiqAssumption DEF Cpu
  <2> QED BY <1>4, <2>1 DEF Others
<1>10. Shape(p, c) /\ SyncFrame(c)
  BY <1>2, <1>6, <1>9 DEF Shape, SyncFrame
<1>11. PICK n \in Nat : n = Len(stack[p])
  BY <1>1 DEF Base, IpiqType
<1>12. n = 0
  BY <1>8, <1>11
<1>13. Len(<<c>>) = 1 /\ <<c>>[1] = c
  OBVIOUS
<1>14. Became(p, n, <<c>>)
  BY <1>1, <1>6, <1>7, <1>11, PushBecame DEF Base
<1>15. /\ stack' \in [Cpu -> Seq(Frame)] /\ Len(stack'[p]) = 1 /\ stack'[p][1] = c
       /\ \A x \in Cpu \ {p} : stack'[x] = stack[x]
  BY <1>12, <1>13, <1>14 DEF Became
<1>16. StackInv'
  <2>1. Nested(stack'[p], 1)
    BY <1>6, <1>15 DEF Nested
  <2>2. \A i \in 1 .. Len(<<c>>) : Shape(p, <<c>>[i]) /\ Nested(stack'[p], n + i)
    BY <1>10, <1>12, <1>13, <2>1
  <2>3. ~(n > 0)
    BY <1>12
  <2> QED BY <1>1, <1>14, <2>2, <2>3, StackBecame DEF Base
<1>17. Base' /\ fifo' = fifo /\ AskSame
  <2>1. fifo' = fifo /\ UNCHANGED <<rindex, xindex, signalVars>>
    BY <1>7 DEF queueVars
  <2>2. FifoOK'
    BY <1>1, <2>1, BaseFifo DEF FifoOK, FifoBounded
  <2> QED BY <1>1, <1>8, <1>15, <1>16, <2>1, <2>2, BaseFifoStack, AskUnchanged
<1>18. /\ \A q \in Cpu \ {p} : Sync(q)' = Sync(q)
       /\ \A f : f \in Sync(p)' <=> f = c
  <2>1. /\ \A q \in Cpu \ {p} : Sync(q)' = Sync(q)
        /\ \A f : f \in Sync(p)' <=>
              /\ SyncFrame(f)
              /\ \/ \E i \in 1 .. n : f = stack[p][i]
                 \/ \E i \in 1 .. Len(<<c>>) : f = <<c>>[i]
    BY <1>1, <1>14, SyncBecame
  <2>2. \A f : (\E i \in 1 .. Len(<<c>>) : f = <<c>>[i]) <=> f = c
    OBVIOUS
  <2>3. \A i \in 1 .. n : FALSE
    BY <1>12
  <2> QED BY <1>10, <2>1, <2>2, <2>3
<1>19. \A f : f \notin Sync(p)
  BY <1>8 DEF Sync, CallsOf
<1>20. ~Syncing(p)
  BY <1>19 DEF Syncing
<1>21. Interlocking(p)' /\ ~Held(p)' /\ ~Releasing(p)' /\ Syncing(p)'
  BY <1>2, <1>6, <1>18 DEF Interlocking, Held, Releasing, Syncing, Stage
<1>22. SyncType'
  <2>1. td_cscount[p] = 0
    BY <1>1, <1>20 DEF MasterInv
  <2>2. td_cscount' \in [Cpu -> 0 .. 1]
    BY <1>1, <1>7, <2>1 DEF SyncType
  <2>3. ran' \in [Cpu -> [Cpu -> 0 .. 2]]
    <3>1. [q \in Cpu |-> 0] \in [Cpu -> 0 .. 2]
      OBVIOUS
    <3> QED BY <1>1, <1>7, <3>1 DEF SyncType
  <2>4. cs_mack' \in [Cpu -> SUBSET Cpu] /\ cpusyncq' \in [Cpu -> Seq(Cpu)]
    BY <1>1, <1>7 DEF SyncType
  <2> QED BY <2>2, <2>3, <2>4 DEF SyncType
<1>23. /\ cs_mack'[p] = {} /\ td_cscount'[p] = td_cscount[p] + 1 /\ (\A q \in Cpu : ran'[p][q] = 0)
       /\ cpusyncq' = cpusyncq
       /\ \A x \in Cpu \ {p} : cs_mack'[x] = cs_mack[x] /\ td_cscount'[x] = td_cscount[x]
                               /\ ran'[x] = ran[x]
  BY <1>1, <1>7 DEF SyncType
<1>24. ASSUME NEW x \in Cpu PROVE MasterInv(x)'
  <2>1. CASE x # p
    <3>1. StageKept(x)
      BY <1>18, <2>1, SyncKept
    <3>2. x \notin cs_mack'[x] /\ td_cscount'[x] = td_cscount[x] /\ ran'[x][x] = ran[x][x]
      BY <1>1, <1>23, <2>1 DEF MasterInv
    <3> QED BY <1>1, <3>1, <3>2, MasterKept
  <2>2. CASE x = p
    <3>1. td_cscount'[p] = 1
      BY <1>1, <1>20, <1>23 DEF MasterInv
    <3>2. MasterInv(p)'
      BY <1>21, <1>23, <3>1 DEF MasterInv
    <3> QED BY <2>2, <3>2
  <2> QED BY <2>1, <2>2
<1>25. ASSUME NEW x \in Cpu PROVE PollInv(x)'
  <2>1. CASE x # p
    BY <1>1, <1>15, <1>18, <1>23, <2>1, PollKept
  <2>2. CASE x = p
    <3>1. Passes(p, c)
      BY <1>6 DEF Passes
    <3>2. \A i \in 1 .. Len(stack'[p]) : Passes(p, stack'[p][i])
      BY <1>15, <3>1
    <3>3. PollInv(p) /\ cpusyncq'[p] = cpusyncq[p]
      BY <1>1, <1>23
    <3>4. PollInv(p)'
      BY <1>21, <3>2, <3>3 DEF PollInv, Passes
    <3> QED BY <2>2, <3>4
  <2> QED BY <2>1, <2>2
<1>26. ASSUME NEW x \in Cpu, NEW y \in Cpu, x # y PROVE RequestInv(x, y)'
  <2>1. CASE x # p /\ y # p
    <3>1. CountsKept(x, y)
      BY <1>23, <2>1 DEF CountsKept
    <3> QED BY <1>17, <1>18, <1>23, <1>26, <2>1, <3>1, PairKept
  <2>2. CASE y = p
    <3>1. ToKept(x, p)
      BY <1>6, <1>18, <1>19 DEF ToKept, Answering, Checking
    <3>2. CountsKept(x, p)
      BY <1>23, <1>26, <2>2 DEF CountsKept
    <3> QED BY <1>17, <1>18, <1>23, <1>26, <2>2, <3>1, <3>2, PairTo
  <2>3. CASE x = p
    <3>1. RequestInv(p, y) /\ y \in mask
      BY <1>1, <1>4, <1>26, <2>3 DEF Others
    <3>2. ToAsk(p, y)' /\ ~Asking(p, y)'
      BY <1>6, <1>18, <3>1 DEF ToAsk, Asking
    <3>3. ~Unanswered(p, y) /\ ~Answered(p, y) /\ Once(p, y)
      BY <1>20, <3>1 DEF RequestInv
    <3>4. ~Asked(p, y)' /\ Once(p, y)'
      BY <1>17, <3>3 DEF Unanswered, Asked, Once
    <3>5. ~Answering(p, y)' /\ ~Checking(p, y)'
      BY <1>18, <1>26, <2>3, <3>3 DEF Unanswered, Answered, Answering, Checking
    <3>6. ~Polling(p, y)'
      BY <1>23, <3>3, PollingKept DEF Answered
    <3>7. Unanswered(p, y)' /\ ~Answered(p, y)' /\ OnePlace(p, y)'
      BY <3>2, <3>4, <3>5, <3>6 DEF Unanswered, Answered, OnePlace
    <3>8. RequestInv(p, y)'
      BY <1>21, <1>23, <3>4, <3>7 DEF RequestInv
    <3> QED BY <2>3, <3>8
  <2> QED BY <2>1, <2>2, <2>3
<1> QED BY <1>17, <1>22, <1>24, <1>25, <1>26 DEF Inv, SyncInv

(* The passes of p over what it polls.                                     *)
LEMMA BecamePasses ==
  ASSUME Base, NEW p \in Cpu, PollInv(p), NEW n, NEW new, Became(p, n, new),
         \A i \in 1 .. Len(new) : Passes(p, new[i])
  PROVE  \A i \in 1 .. Len(stack'[p]) : Passes(p, stack'[p][i])
<1>1. /\ n \in 0 .. Len(stack[p]) /\ Len(stack'[p]) = n + Len(new) /\ Len(new) \in Nat
      /\ \A i \in 1 .. n : stack'[p][i] = stack[p][i]
      /\ \A i \in 1 .. Len(new) : stack'[p][n + i] = new[i]
  BY DEF Became
<1>2. Len(stack[p]) \in Nat
  BY DEF Base, IpiqType
<1> TAKE i \in 1 .. Len(stack'[p])
<1>3. CASE i <= n
  <2>1. i \in 1 .. n /\ i \in 1 .. Len(stack[p])
    BY <1>1, <1>2, <1>3
  <2> QED BY <1>1, <2>1 DEF PollInv
<1>4. CASE i > n
  <2>1. PICK j \in 1 .. Len(new) : i = n + j
    <3>1. i - n \in 1 .. Len(new) /\ i = n + (i - n)
      BY <1>1, <1>2, <1>4
    <3> QED BY <3>1
  <2> QED BY <1>1, <2>1
<1> QED BY <1>1, <1>2, <1>3, <1>4

(* A step that leaves gd_cpusyncq alone and somebody to look at it.        *)
LEMMA PollStep ==
  ASSUME NEW p, PollInv(p), cpusyncq'[p] = cpusyncq[p],
         \A i \in 1 .. Len(stack'[p]) : Passes(p, stack'[p][i]),
         cpusyncq[p] # <<>> =>
           Syncing(p)' \/ \E i \in 1 .. Len(stack'[p]) : Looks(stack'[p][i])
  PROVE  PollInv(p)'
BY DEF PollInv, Passes, Looks

(* A step of p on its own cpusync keeps what the others have to do with    *)
(* each other and with p.                                                  *)
LEMMA MasterStep ==
  ASSUME Inv, Base', SyncType', NEW p \in Cpu,
         \A x \in Cpu \ {p} : Sync(x)' = Sync(x),
         \A x \in Cpu \ {p} : stack'[x] = stack[x],
         \A x \in Cpu \ {p} : ToKept(x, p),
         \A pq \in Pair : pq[1] # p => fifo'[pq] = fifo[pq],
         cpusyncq' = cpusyncq,
         \A x \in Cpu \ {p} : cs_mack'[x] = cs_mack[x] /\ td_cscount'[x] = td_cscount[x]
                              /\ ran'[x] = ran[x],
         MasterInv(p)', PollInv(p)',
         \A y \in Cpu \ {p} : RequestInv(p, y)'
  PROVE  Inv'
<1>1. /\ Base /\ SyncType
      /\ \A x \in Cpu : MasterInv(x) /\ PollInv(x)
      /\ \A x, y \in Cpu : x # y => RequestInv(x, y)
  BY InvParts
<1>2. ASSUME NEW x \in Cpu PROVE MasterInv(x)' /\ PollInv(x)'
  <2>1. CASE x # p
    <3>1. StageKept(x)
      BY <2>1, SyncKept
    <3>2. x \notin cs_mack'[x] /\ td_cscount'[x] = td_cscount[x] /\ ran'[x][x] = ran[x][x]
      BY <1>1, <2>1 DEF MasterInv
    <3>3. MasterInv(x)'
      BY <1>1, <3>1, <3>2, MasterKept
    <3>4. PollInv(x)'
      BY <1>1, <2>1, PollKept
    <3> QED BY <3>3, <3>4
  <2> QED BY <2>1
<1>3. ASSUME NEW x \in Cpu, NEW y \in Cpu, x # y PROVE RequestInv(x, y)'
  <2>1. CASE x = p
    BY <1>3, <2>1
  <2>2. CASE x # p
    <3>1. RequestInv(x, y)
      BY <1>1, <1>3
    <3>2. StageKept(x) /\ FromKept(x, y)
      BY <2>2, SyncKept
    <3>3. ToKept(x, y)
      <4>1. CASE y = p
        BY <2>2, <4>1
      <4>2. CASE y # p
        BY <4>2, SyncKept
      <4> QED BY <4>1, <4>2
    <3>4. <<x, y>> \in Pair /\ <<x, y>>[1] = x
      BY <1>3 DEF Pair
    <3>5. fifo'[<<x, y>>] = fifo[<<x, y>>]
      BY <2>2, <3>4
    <3>6. Once(x, y)' /\ (Asked(x, y)' <=> Asked(x, y))
      BY <3>1, <3>5 DEF RequestInv, Once, Asked
    <3>7. ListsKept(x, y)
      BY <3>6, PollingKept DEF ListsKept
    <3>8. CountsKept(x, y)
      BY <2>2 DEF CountsKept
    <3> QED BY <3>1, <3>2, <3>3, <3>7, <3>8, RequestKept
  <2> QED BY <2>1, <2>2
<1> QED BY <1>2, <1>3 DEF Inv, SyncInv

(* The stages of a cpusync, by the call that is in it.                     *)
LEMMA StageOf ==
  ASSUME NEW p, NEW c, c \in Sync(p), c.fn = "cpusync",
         \A f \in Sync(p) : f.fn = "cpusync" => f = c
  PROVE  /\ Syncing(p)
         /\ Interlocking(p) <=> c.at \in {"send", "interlock"}
         /\ Held(p) <=> c.at = "held"
         /\ Releasing(p) <=> c.at = "deinterlock"
         /\ \A q : ToAsk(p, q) <=> q \in c.mask
BY DEF Syncing, Interlocking, Held, Releasing, Stage, ToAsk

(* The stage of a cpu is the one of its only lwkt_cpusync_simple() call.   *)
LEMMA StageOfNext ==
  ASSUME NEW p, NEW c, c \in Sync(p)', c.fn = "cpusync",
         \A f \in Sync(p)' : f.fn = "cpusync" => f = c
  PROVE  /\ Syncing(p)'
         /\ Interlocking(p)' <=> c.at \in {"send", "interlock"}
         /\ Held(p)' <=> c.at = "held"
         /\ Releasing(p)' <=> c.at = "deinterlock"
         /\ \A q : ToAsk(p, q)' <=> q \in c.mask
BY DEF Syncing, Interlocking, Held, Releasing, Stage, ToAsk

(* A step of a cpusync that only moves its call leaves the rest alone.     *)
LEMMA UnchangedSync ==
  ASSUME Inv, UNCHANGED syncVars
  PROVE  /\ SyncType' /\ cpusyncq' = cpusyncq /\ cs_mack' = cs_mack
         /\ td_cscount' = td_cscount /\ ran' = ran
<1>1. /\ cpusyncq' = cpusyncq /\ cs_mack' = cs_mack
      /\ td_cscount' = td_cscount /\ ran' = ran
  BY DEF syncVars
<1> QED BY <1>1, InvParts DEF SyncType

(* The master calls lwkt_send_ipiq() for the next cpu of the mask.         *)
LEMMA CpusyncSendInv ==
  ASSUME Inv, NEW p \in Cpu, CpusyncSend(p)
  PROVE  Inv'
<1>1. /\ Base /\ SyncType
      /\ \A x \in Cpu : MasterInv(x) /\ PollInv(x)
      /\ \A x, y \in Cpu : x # y => RequestInv(x, y)
  BY InvParts
<1>2. stack[p] # <<>> /\ Top(p).fn = "cpusync" /\ Top(p).at = "send"
  BY InTop DEF CpusyncSend
<1>3. PICK f \in Frame : f = Top(p)
  BY <1>1, <1>2, TopFacts
<1>4. Shape(p, f) /\ Len(stack[p]) \in Nat
  BY <1>1, <1>2, <1>3, TopFacts
<1>5. f.mask \in SUBSET Cpu /\ f.mask # {} /\ p \notin f.mask
  BY <1>2, <1>3, <1>4, FrameFields DEF Shape
<1>6. PICK t \in f.mask : t = CHOOSE q \in f.mask : \A r \in f.mask : q <= r
  BY <1>5, LowestCpu
<1>7. t \in Cpu /\ t # p
  BY <1>5, <1>6
<1>8. PICK a \in Place : a = IF f.mask = {t} THEN "interlock" ELSE "send"
  BY DEF Place
<1>9. PICK c : c = [f EXCEPT !.mask = f.mask \ {t}, !.at = a]
  OBVIOUS
<1>10. c \in Frame /\ c.fn = f.fn /\ c.at = a /\ c.mask = f.mask \ {t} /\ c.cpu = f.cpu
  BY <1>5, <1>9 DEF Frame
<1>11. PICK m \in Msg : m = "remote1"
  BY DEF Msg
<1>12. PICK g : g = SendCall(t, m)
  OBVIOUS
<1>13. /\ g \in Frame /\ Shape(p, g) /\ g.fn = "send" /\ g.at = "test" /\ g.cpu = t
       /\ g.msg = m
  BY <1>7, <1>12, SendFrame
<1>14. GotoPush(p, c, g) /\ UNCHANGED <<queueVars, signalVars, syncVars, calls>>
  <2>1. c = [f EXCEPT !.mask = @ \ {t}, !.at = IF f.mask = {t} THEN "interlock" ELSE "send"]
    BY <1>8, <1>9
  <2> QED BY <1>3, <1>6, <1>11, <1>12, <2>1 DEF CpusyncSend
<1>15. Shape(p, c) /\ Suspended(c) /\ SyncFrame(c) /\ SyncFrame(g)
  <2>1. c.at = "send" <=> c.mask # {}
    BY <1>6, <1>8, <1>10
  <2>2. c.fn = "cpusync" /\ p \notin c.mask /\ c.at \in {"send", "interlock"}
    BY <1>2, <1>3, <1>5, <1>8, <1>10
  <2> QED BY <1>10, <1>11, <1>13, <2>1, <2>2 DEF Shape, Suspended, SyncFrame
<1>16. Len(stack[p]) = 1 /\ SyncBelow(p) = {}
       /\ \A h : h \in Sync(p) <=> h \in SyncBelow(p) \/ (h = Top(p) /\ SyncFrame(h))
  BY <1>1, <1>2, SyncParts
<1>17. PICK n \in Nat : n = Len(stack[p]) - 1
  BY <1>16
<1>18. n = 0 /\ n # Len(stack[p])
  BY <1>16, <1>17
<1>19. Len(<<c, g>>) = 2 /\ <<c, g>>[1] = c /\ <<c, g>>[2] = g
  OBVIOUS
<1>20. Became(p, n, <<c, g>>)
  BY <1>1, <1>2, <1>10, <1>13, <1>14, <1>17, GotoPushBecame DEF Base
<1>21. /\ Len(stack'[p]) = 2 /\ stack'[p][1] = c /\ stack'[p][2] = g
       /\ stack' \in [Cpu -> Seq(Frame)] /\ \A x \in Cpu \ {p} : stack'[x] = stack[x]
  BY <1>18, <1>19, <1>20 DEF Became
<1>22. \A i \in 1 .. 2 : (i = 1 /\ n + i = 1) \/ (i = 2 /\ n + i = 2)
  BY <1>18
<1>23. StackInv'
  <2>1. c.fn = "cpusync"
    BY <1>2, <1>3, <1>10
  <2>2. Nested(stack'[p], 1) /\ Nested(stack'[p], 2)
    BY <1>13, <1>15, <1>21, <2>1 DEF Nested
  <2>3. \A i \in 1 .. Len(<<c, g>>) : Shape(p, <<c, g>>[i]) /\ Nested(stack'[p], n + i)
    BY <1>13, <1>15, <1>19, <1>22, <2>2
  <2> QED BY <1>1, <1>18, <1>20, <2>3, StackBecame DEF Base
<1>24. Base' /\ fifo' = fifo /\ UNCHANGED syncVars
  BY <1>1, <1>14, <1>21, <1>23, BaseStackOnly DEF queueVars
<1>25. /\ SyncType' /\ cpusyncq' = cpusyncq /\ cs_mack' = cs_mack
       /\ td_cscount' = td_cscount /\ ran' = ran
  BY <1>24, UnchangedSync
<1>26. /\ \A x \in Cpu \ {p} : Sync(x)' = Sync(x)
       /\ \A h : h \in Sync(p)' <=> h = c \/ h = g
  <2>1. /\ \A x \in Cpu \ {p} : Sync(x)' = Sync(x)
        /\ \A h : h \in Sync(p)' <=>
              /\ SyncFrame(h)
              /\ \/ \E i \in 1 .. n : h = stack[p][i]
                 \/ \E i \in 1 .. Len(<<c, g>>) : h = <<c, g>>[i]
    BY <1>1, <1>20, SyncBecame
  <2>2. \A h : (\E i \in 1 .. Len(<<c, g>>) : h = <<c, g>>[i]) <=> h = c \/ h = g
    BY <1>19, <1>22
  <2>3. \A i \in 1 .. n : FALSE
    BY <1>18
  <2> QED BY <1>15, <2>1, <2>2, <2>3
<1>27. \A h : h \in Sync(p) <=> h = f
  BY <1>2, <1>3, <1>16 DEF SyncFrame
<1>28. f.fn = "cpusync" /\ f.at = "send" /\ c.fn = "cpusync" /\ c.at \in {"send", "interlock"}
  BY <1>2, <1>3, <1>8, <1>10
<1>29. /\ Syncing(p) /\ Interlocking(p) /\ ~Held(p) /\ ~Releasing(p)
       /\ \A q : ToAsk(p, q) <=> q \in f.mask
  BY <1>27, <1>28, StageOf
<1>30. /\ Syncing(p)' /\ Interlocking(p)' /\ ~Held(p)' /\ ~Releasing(p)'
       /\ \A q : ToAsk(p, q)' <=> q \in c.mask
  <2>1. c \in Sync(p)' /\ \A h \in Sync(p)' : h.fn = "cpusync" => h = c
    BY <1>13, <1>26
  <2> QED BY <1>28, <2>1, StageOfNext
<1>31. \A x \in Cpu \ {p} : ToKept(x, p)
  BY <1>13, <1>26, <1>27, <1>28 DEF ToKept, Answering, Checking
<1>32. \A q : ~Asking(p, q) /\ (Asking(p, q)' <=> q = t)
  BY <1>13, <1>26, <1>27, <1>28 DEF Asking
<1>33. MasterInv(p)'
  <2>1. StageKept(p)
    BY <1>29, <1>30 DEF StageKept
  <2>2. p \notin cs_mack'[p]
    BY <1>1, <1>25 DEF MasterInv
  <2> QED BY <1>1, <1>25, <2>1, <2>2, MasterKept
<1>34. PollInv(p)'
  <2>1. Passes(p, c) /\ Passes(p, g)
    BY <1>13, <1>28 DEF Passes
  <2>2. \A i \in 1 .. Len(<<c, g>>) : Passes(p, <<c, g>>[i])
    BY <1>19, <1>22, <2>1
  <2>3. \A i \in 1 .. Len(stack'[p]) : Passes(p, stack'[p][i])
    BY <1>1, <1>20, <2>2, BecamePasses
  <2> QED BY <1>1, <1>25, <1>30, <2>3, PollStep
<1>35. ASSUME NEW y \in Cpu \ {p} PROVE RequestInv(p, y)'
  <2>1. RequestInv(p, y)
    BY <1>1
  <2>2. ToKept(p, y)
    BY <1>26, SyncKept
  <2>3. Once(p, y)' /\ (Asked(p, y)' <=> Asked(p, y))
    BY <1>24, <2>1 DEF RequestInv, Once, Asked
  <2>4. Polling(p, y)' <=> Polling(p, y)
    BY <1>25, PollingKept
  <2>5. ToAsk(p, y)' <=> ToAsk(p, y) /\ y # t
    BY <1>10, <1>29, <1>30
  <2>6. (Asking(p, y)' <=> y = t) /\ ~Asking(p, y) /\ (y = t => ToAsk(p, y))
    BY <1>6, <1>29, <1>32
  <2>7. OnePlace(p, y)
    BY <2>1 DEF RequestInv
  <2>8. OnePlace(p, y)'
    BY <2>2, <2>3, <2>4, <2>5, <2>6, <2>7 DEF OnePlace, ToKept, Answered
  <2>9. (Unanswered(p, y)' <=> Unanswered(p, y)) /\ (Answered(p, y)' <=> Answered(p, y))
    BY <2>2, <2>3, <2>4, <2>5, <2>6 DEF Unanswered, Answered, ToKept
  <2> QED BY <1>25, <1>29, <1>30, <2>1, <2>3, <2>8, <2>9 DEF RequestInv
<1>36. \A pq \in Pair : pq[1] # p => fifo'[pq] = fifo[pq]
  BY <1>24
<1>37. \A x \in Cpu \ {p} : cs_mack'[x] = cs_mack[x] /\ td_cscount'[x] = td_cscount[x]
                              /\ ran'[x] = ran[x]
  BY <1>25
<1>38. \A x \in Cpu \ {p} : Sync(x)' = Sync(x)
  BY <1>26
<1>39. \A x \in Cpu \ {p} : stack'[x] = stack[x]
  BY <1>21
<1> QED BY <1>24, <1>25, <1>31, <1>33, <1>34, <1>35, <1>36, <1>37, <1>38, <1>39, MasterStep

(* A request goes into the FIFO, or waits for room in it.                  *)
LEMMA RequestSentInv ==
  ASSUME Inv, NEW p \in Cpu, RequestSent(p)
  PROVE  Inv'
<1>1. /\ Base /\ SyncType
      /\ \A x \in Cpu : MasterInv(x) /\ PollInv(x)
      /\ \A x, y \in Cpu : x # y => RequestInv(x, y)
  BY InvParts
<1>2. /\ Base' /\ UNCHANGED syncVars
      /\ stack[p] # <<>> /\ Top(p).fn = "send" /\ Top(p).msg = "remote1"
      /\ Top(p).at \in {"test", "loop"}
  BY DEF RequestSent
<1>3. PICK g : SentAs(p, Top(p), g) /\ Became(p, Len(stack[p]) - 1, <<g>>)
  BY DEF RequestSent
<1>4. PICK t \in Frame : t = Top(p) /\ Shape(p, t)
  BY <1>1, <1>2, TopFacts
<1>5. PICK q \in Cpu : q = t.cpu
  BY FrameFields
<1>6. q # p /\ t.fn = "send" /\ t.msg = "remote1" /\ t.at \in {"test", "loop"} /\ SyncFrame(t)
  BY <1>2, <1>4, <1>5 DEF Shape, SyncFrame
<1>7. g \in Frame /\ g.fn = "send" /\ g.cpu = q /\ g.msg = "remote1"
      /\ ((g.at = "loop" /\ fifo' = fifo) \/ (g.at = "mask" /\ Queued(p, q, "remote1")))
  BY <1>3, <1>4, <1>5, <1>6 DEF SentAs
<1>8. PICK c : SyncBelow(p) = {c} /\ c.fn = "cpusync"
  BY <1>1, <1>2, SyncParts
<1>9. \A f : f \in Sync(p) <=> f = c \/ f = t
  <2>1. \A f : f \in Sync(p) <=> f \in SyncBelow(p) \/ (f = Top(p) /\ SyncFrame(f))
    BY <1>1, <1>2, SyncParts
  <2> QED BY <1>4, <1>6, <1>8, <2>1
<1>10. /\ \A x \in Cpu \ {p} : Sync(x)' = Sync(x)
       /\ \A f : f \in Sync(p)' <=> f \in SyncBelow(p) \/ (f = g /\ SyncFrame(f))
  BY <1>1, <1>2, <1>3, SyncGoto
<1>11. \A f : f \in Sync(p)' <=> f = c \/ (f = g /\ g.at = "loop")
  <2>1. SyncFrame(g) <=> g.at = "loop"
    BY <1>7 DEF SyncFrame
  <2> QED BY <1>8, <1>10, <2>1
<1>12. /\ SyncType' /\ cpusyncq' = cpusyncq /\ cs_mack' = cs_mack
       /\ td_cscount' = td_cscount /\ ran' = ran
  BY <1>2, UnchangedSync
<1>13. /\ Syncing(p)
       /\ Interlocking(p) <=> c.at \in {"send", "interlock"}
       /\ Held(p) <=> c.at = "held"
       /\ Releasing(p) <=> c.at = "deinterlock"
       /\ \A x : ToAsk(p, x) <=> x \in c.mask
  <2>1. c \in Sync(p) /\ \A f \in Sync(p) : f.fn = "cpusync" => f = c
    BY <1>6, <1>9
  <2> QED BY <1>8, <2>1, StageOf
<1>14. /\ Syncing(p)'
       /\ Interlocking(p)' <=> c.at \in {"send", "interlock"}
       /\ Held(p)' <=> c.at = "held"
       /\ Releasing(p)' <=> c.at = "deinterlock"
       /\ \A x : ToAsk(p, x)' <=> x \in c.mask
  <2>1. c \in Sync(p)' /\ \A f \in Sync(p)' : f.fn = "cpusync" => f = c
    BY <1>7, <1>11
  <2> QED BY <1>8, <2>1, StageOfNext
<1>15. StageKept(p)
  BY <1>13, <1>14 DEF StageKept
<1>16. \A x \in Cpu \ {p} : ToKept(x, p)
  BY <1>6, <1>7, <1>8, <1>9, <1>11 DEF ToKept, Answering, Checking
<1>17. \A x : (Asking(p, x) <=> x = q) /\ (Asking(p, x)' <=> x = q /\ g.at = "loop")
  BY <1>5, <1>6, <1>7, <1>8, <1>9, <1>11 DEF Asking
<1>18. /\ stack' \in [Cpu -> Seq(Frame)] /\ \A x \in Cpu \ {p} : stack'[x] = stack[x]
  BY <1>3 DEF Became
<1>19. MasterInv(p)'
  <2>1. p \notin cs_mack'[p]
    BY <1>1, <1>12 DEF MasterInv
  <2> QED BY <1>1, <1>12, <1>15, <2>1, MasterKept
<1>20. PollInv(p)'
  <2>1. Passes(p, g) /\ Len(<<g>>) = 1 /\ <<g>>[1] = g
    BY <1>7 DEF Passes
  <2>2. \A i \in 1 .. Len(<<g>>) : Passes(p, <<g>>[i])
    BY <2>1
  <2>3. PICK n : n = Len(stack[p]) - 1
    OBVIOUS
  <2>4. \A i \in 1 .. Len(stack'[p]) : Passes(p, stack'[p][i])
    BY <1>1, <1>3, <2>2, <2>3, BecamePasses
  <2> QED BY <1>1, <1>12, <1>14, <2>4, PollStep
<1>21. fifo \in [Pair -> Seq(Msg)] /\ <<p, q>> \in Pair /\ fifo[<<p, q>>] \in Seq(Msg)
  BY <1>1, <1>6 DEF Base, IpiqType, Pair
<1>22. \A pq \in Pair : pq # <<p, q>> => fifo'[pq] = fifo[pq]
  BY <1>7, <1>21 DEF Queued
<1>23. \A pq \in Pair : pq[1] # p => fifo'[pq] = fifo[pq]
  <2>1. <<p, q>>[1] = p
    OBVIOUS
  <2> QED BY <1>22, <2>1
<1>24. ASSUME NEW y \in Cpu \ {p} PROVE RequestInv(p, y)'
  <2>1. RequestInv(p, y)
    BY <1>1
  <2>2. ToKept(p, y)
    BY <1>10, SyncKept
  <2>3. Polling(p, y)' <=> Polling(p, y)
    BY <1>12, PollingKept
  <2>4. CountsKept(p, y)
    BY <1>12 DEF CountsKept
  <2>5. CASE y # q \/ g.at = "loop"
    <3>1. <<p, y>> \in Pair
      BY DEF Pair
    <3>2. fifo'[<<p, y>>] = fifo[<<p, y>>]
      <4>1. y # q => <<p, y>> # <<p, q>>
        OBVIOUS
      <4> QED BY <1>7, <1>22, <2>5, <3>1, <4>1
    <3>3. Once(p, y)' /\ (Asked(p, y)' <=> Asked(p, y))
      BY <2>1, <3>2 DEF RequestInv, Once, Asked
    <3>4. ListsKept(p, y)
      BY <2>3, <3>3 DEF ListsKept
    <3>5. FromKept(p, y)
      BY <1>13, <1>14, <1>17, <2>5 DEF FromKept
    <3> QED BY <1>15, <2>1, <2>2, <2>4, <3>4, <3>5, RequestKept
  <2>6. CASE y = q /\ g.at = "mask"
    <3>1. Asking(p, y) /\ ~Asking(p, y)'
      BY <1>17, <2>6
    <3>2. OnePlace(p, y)
      BY <2>1 DEF RequestInv
    <3>3. ~ToAsk(p, y) /\ ~Asked(p, y) /\ ~Answering(p, y) /\ ~Answered(p, y)
      BY <3>1, <3>2 DEF OnePlace
    <3>4. Queued(p, q, "remote1")
      BY <1>7, <2>6
    <3>5. PICK r : r = Append(fifo[<<p, q>>], "remote1")
      OBVIOUS
    <3>6. /\ Len(r) = Len(fifo[<<p, q>>]) + 1 /\ Len(fifo[<<p, q>>]) \in Nat
          /\ r[Len(fifo[<<p, q>>]) + 1] = "remote1"
          /\ \A i \in 1 .. Len(fifo[<<p, q>>]) : r[i] = fifo[<<p, q>>][i]
      BY <1>21, <3>5
    <3>7. fifo'[<<p, q>>] = r
      BY <1>21, <3>4, <3>5 DEF Queued
    <3>8. \A i \in 1 .. Len(fifo[<<p, q>>]) : fifo[<<p, q>>][i] # "remote1"
      BY <2>6, <3>3 DEF Asked
    <3>9. \A i \in 1 .. Len(r) : r[i] = "remote1" => i = Len(fifo[<<p, q>>]) + 1
      <4>1. \A i \in 1 .. Len(r) : i \in 1 .. Len(fifo[<<p, q>>]) \/ i = Len(fifo[<<p, q>>]) + 1
        BY <3>6
      <4> QED BY <3>6, <3>8, <4>1
    <3>10. Len(fifo[<<p, q>>]) + 1 \in 1 .. Len(r)
      BY <3>6
    <3>11. Asked(p, y)'
      BY <2>6, <3>6, <3>7, <3>10 DEF Asked
    <3>12. Once(p, y)'
      BY <2>6, <3>7, <3>9 DEF Once
    <3>13. ToAsk(p, y)' <=> ToAsk(p, y)
      BY <1>13, <1>14
    <3>14. OnePlace(p, y)' /\ Unanswered(p, y)' /\ Unanswered(p, y) /\ ~Answered(p, y)'
      BY <2>2, <2>3, <3>1, <3>3, <3>11, <3>13 DEF OnePlace, Unanswered, Answered, ToKept
    <3> QED BY <1>12, <1>15, <2>1, <3>3, <3>12, <3>14 DEF RequestInv, StageKept
  <2> QED BY <1>7, <2>5, <2>6
<1>25. \A x \in Cpu \ {p} : cs_mack'[x] = cs_mack[x] /\ td_cscount'[x] = td_cscount[x]
                              /\ ran'[x] = ran[x]
  BY <1>12
<1>26. \A x \in Cpu \ {p} : Sync(x)' = Sync(x)
  BY <1>10
<1>27. \A x \in Cpu \ {p} : stack'[x] = stack[x]
  BY <1>18
<1> QED BY <1>2, <1>12, <1>16, <1>19, <1>20, <1>23, <1>24, <1>25, <1>26, <1>27, MasterStep

(* p's innermost call is its cpusync and goes on at another stage.         *)
LEMMA StageMoved ==
  ASSUME Inv, NEW p \in Cpu, stack[p] # <<>>, Top(p).fn = "cpusync", Top(p).at # "send",
         NEW a \in {"held", "deinterlock"}, Goto(p, At(p, a)),
         UNCHANGED <<queueVars, signalVars, calls>>
  PROVE  /\ Base' /\ fifo' = fifo
         /\ \A x \in Cpu \ {p} : Sync(x)' = Sync(x)
         /\ \A x \in Cpu \ {p} : stack'[x] = stack[x]
         /\ \A x \in Cpu \ {p} : ToKept(x, p)
         /\ Syncing(p) /\ Syncing(p)'
         /\ Interlocking(p) <=> Top(p).at \in {"send", "interlock"}
         /\ Held(p) <=> Top(p).at = "held"
         /\ Releasing(p) <=> Top(p).at = "deinterlock"
         /\ ~Interlocking(p)'
         /\ Held(p)' <=> a = "held"
         /\ Releasing(p)' <=> a = "deinterlock"
         /\ \A q : FromKept(p, q)
         /\ \A i \in 1 .. Len(stack'[p]) : Passes(p, stack'[p][i])
<1>1. /\ Base /\ SyncType /\ PollInv(p)
  BY InvParts
<1>2. a \in Place
  BY DEF Place
<1>3. PICK f \in Frame : f = Top(p) /\ Shape(p, f)
  BY <1>1, TopFacts
<1>4. PICK g : g = At(p, a)
  OBVIOUS
<1>5. /\ g \in Frame /\ g.at = a /\ g.fn = Top(p).fn /\ g.cpu = Top(p).cpu
      /\ g.msg = Top(p).msg /\ g.seq = Top(p).seq /\ g.mask = Top(p).mask
  BY <1>1, <1>2, <1>4, AtFrame
<1>6. f.mask = {} /\ f.fn = "cpusync"
  BY <1>3 DEF Shape
<1>7. g.mask = {} /\ g.fn = "cpusync" /\ Shape(p, g) /\ Passes(p, g)
  BY <1>3, <1>5, <1>6 DEF Shape, Passes
<1>8. Goto(p, g)
  BY <1>4
<1>9. /\ StackInv' /\ stack' \in [Cpu -> Seq(Frame)]
      /\ Became(p, Len(stack[p]) - 1, <<g>>)
  BY <1>1, <1>5, <1>7, <1>8, GotoBase
<1>10. Base' /\ fifo' = fifo
  BY <1>1, <1>9, BaseStackOnly DEF queueVars
<1>11. \A x \in Cpu \ {p} : stack'[x] = stack[x]
  BY <1>9 DEF Became
<1>12. /\ SyncBelow(p) = {}
       /\ \A h : h \in Sync(p) <=> h \in SyncBelow(p) \/ (h = Top(p) /\ SyncFrame(h))
  BY <1>1, SyncParts
<1>13. /\ \A x \in Cpu \ {p} : Sync(x)' = Sync(x)
       /\ \A h : h \in Sync(p)' <=> h \in SyncBelow(p) \/ (h = g /\ SyncFrame(h))
  BY <1>1, <1>9, SyncGoto
<1>14. SyncFrame(g) /\ SyncFrame(f)
  BY <1>6, <1>7 DEF SyncFrame
<1>15. \A h : (h \in Sync(p) <=> h = f) /\ (h \in Sync(p)' <=> h = g)
  BY <1>3, <1>12, <1>13, <1>14
<1>16. /\ Syncing(p)
       /\ Interlocking(p) <=> f.at \in {"send", "interlock"}
       /\ Held(p) <=> f.at = "held"
       /\ Releasing(p) <=> f.at = "deinterlock"
       /\ \A q : ToAsk(p, q) <=> q \in f.mask
  BY <1>6, <1>15, StageOf
<1>17. /\ Syncing(p)'
       /\ Interlocking(p)' <=> g.at \in {"send", "interlock"}
       /\ Held(p)' <=> g.at = "held"
       /\ Releasing(p)' <=> g.at = "deinterlock"
       /\ \A q : ToAsk(p, q)' <=> q \in g.mask
  BY <1>7, <1>15, StageOfNext
<1>18. \A q : FromKept(p, q)
  BY <1>6, <1>7, <1>15, <1>16, <1>17 DEF FromKept, Asking
<1>19. \A x \in Cpu \ {p} : ToKept(x, p)
  BY <1>6, <1>7, <1>15 DEF ToKept, Answering, Checking
<1>20. \A i \in 1 .. Len(stack'[p]) : Passes(p, stack'[p][i])
  <2>1. Len(<<g>>) = 1 /\ <<g>>[1] = g
    OBVIOUS
  <2>2. \A i \in 1 .. Len(<<g>>) : Passes(p, <<g>>[i])
    BY <1>7, <2>1
  <2>3. PICK n : n = Len(stack[p]) - 1
    OBVIOUS
  <2> QED BY <1>1, <1>9, <2>2, <2>3, BecamePasses
<1>21. ~Interlocking(p)' /\ (Held(p)' <=> a = "held") /\ (Releasing(p)' <=> a = "deinterlock")
  BY <1>5, <1>17
<1>22. /\ Interlocking(p) <=> Top(p).at \in {"send", "interlock"}
       /\ Held(p) <=> Top(p).at = "held"
       /\ Releasing(p) <=> Top(p).at = "deinterlock"
  BY <1>3, <1>16
<1> QED BY <1>10, <1>11, <1>13, <1>16, <1>17, <1>18, <1>19, <1>20, <1>21, <1>22

(* All have answered, and p holds them.                                    *)
LEMMA InterlockedInv ==
  ASSUME Inv, NEW p \in Cpu, CpusyncInterlocked(p)
  PROVE  Inv'
<1>1. /\ Base /\ SyncType
      /\ \A x \in Cpu : MasterInv(x) /\ PollInv(x)
      /\ \A x, y \in Cpu : x # y => RequestInv(x, y)
  BY InvParts
<1>2. stack[p] # <<>> /\ Top(p).fn = "cpusync" /\ Top(p).at = "interlock"
      /\ UNCHANGED <<queueVars, signalVars, calls>> /\ UNCHANGED syncVars
  BY InTop DEF CpusyncInterlocked
<1>3. CASE cs_mack[p] # Others(p)
  <2>1. Push(p, lwkt_process_ipiq(p))
    BY <1>3 DEF CpusyncInterlocked
  <2>2. Suspended(Top(p))
    BY <1>2 DEF Suspended
  <2>3. StackInv' /\ stack' \in [Cpu -> Seq(Frame)] /\ Quiet(p)
    BY <1>1, <1>2, <2>1, <2>2, PushProcess
  <2>4. Base' /\ AskSame
    BY <1>1, <1>2, <2>3, BaseStackOnly
  <2>5. QuietStep(p)
    BY <1>2, <2>3, <2>4 DEF QuietStep
  <2> QED BY <2>5, QuietInv
<1>4. CASE cs_mack[p] = Others(p)
  <2>1. Goto(p, At(p, "held"))
    BY <1>4 DEF CpusyncInterlocked
  <2>2. PICK a \in {"held", "deinterlock"} : a = "held"
    OBVIOUS
  <2>3. /\ Base' /\ fifo' = fifo
        /\ \A x \in Cpu \ {p} : Sync(x)' = Sync(x)
        /\ \A x \in Cpu \ {p} : stack'[x] = stack[x]
        /\ \A x \in Cpu \ {p} : ToKept(x, p)
        /\ Syncing(p) /\ Syncing(p)'
        /\ Interlocking(p) <=> Top(p).at \in {"send", "interlock"}
        /\ Held(p) <=> Top(p).at = "held"
        /\ Releasing(p) <=> Top(p).at = "deinterlock"
        /\ ~Interlocking(p)'
        /\ Held(p)' <=> a = "held"
        /\ Releasing(p)' <=> a = "deinterlock"
        /\ \A q : FromKept(p, q)
        /\ \A i \in 1 .. Len(stack'[p]) : Passes(p, stack'[p][i])
    BY <1>2, <2>1, <2>2, StageMoved
  <2>4. /\ SyncType' /\ cpusyncq' = cpusyncq /\ cs_mack' = cs_mack
        /\ td_cscount' = td_cscount /\ ran' = ran
    BY <1>2, UnchangedSync
  <2>5. Interlocking(p) /\ ~Interlocking(p)' /\ Held(p)' /\ ~Releasing(p)'
    BY <1>2, <2>2, <2>3
  <2>6. MasterInv(p)'
    BY <1>1, <2>3, <2>4, <2>5 DEF MasterInv
  <2>7. PollInv(p)'
    BY <1>1, <2>3, <2>4, PollStep
  <2>8. ASSUME NEW y \in Cpu \ {p} PROVE RequestInv(p, y)'
    <3>1. RequestInv(p, y) /\ y \in cs_mack[p]
      BY <1>1, <1>4 DEF Others
    <3>2. Answered(p, y) /\ ran[p][y] = 0 /\ OnePlace(p, y) /\ Once(p, y)
      BY <2>5, <3>1 DEF RequestInv
    <3>3. ToKept(p, y) /\ FromKept(p, y) /\ (Polling(p, y)' <=> Polling(p, y))
      BY <2>3, <2>4, SyncKept, PollingKept
    <3>4. Once(p, y)' /\ (Asked(p, y)' <=> Asked(p, y))
      BY <2>3, <3>2 DEF Once, Asked
    <3>5. OnePlace(p, y)' /\ Answered(p, y)'
      BY <3>2, <3>3, <3>4 DEF OnePlace, Answered, ToKept, FromKept
    <3> QED BY <2>3, <2>4, <2>5, <3>1, <3>2, <3>4, <3>5 DEF RequestInv
  <2>9. \A pq \in Pair : pq[1] # p => fifo'[pq] = fifo[pq]
    BY <2>3
  <2>10. \A x \in Cpu \ {p} : cs_mack'[x] = cs_mack[x] /\ td_cscount'[x] = td_cscount[x]
                                /\ ran'[x] = ran[x]
    BY <2>4
  <2> QED BY <2>3, <2>4, <2>6, <2>7, <2>8, <2>9, <2>10, MasterStep
<1> QED BY <1>3, <1>4

(* lwkt_cpusync_deinterlock() runs cs_func and inverts the sense of        *)
(* cs_mack.                                                                *)
LEMMA DeinterlockInv ==
  ASSUME Inv, NEW p \in Cpu, lwkt_cpusync_deinterlock(p)
  PROVE  Inv'
<1>1. /\ Base /\ SyncType
      /\ \A x \in Cpu : MasterInv(x) /\ PollInv(x)
      /\ \A x, y \in Cpu : x # y => RequestInv(x, y)
  BY InvParts
<1>2. /\ stack[p] # <<>> /\ Top(p).fn = "cpusync" /\ Top(p).at = "held"
      /\ UNCHANGED <<queueVars, signalVars, calls>> /\ cpusyncq' = cpusyncq
      /\ td_cscount' = td_cscount
      /\ cs_mack' = [cs_mack EXCEPT ![p] = {}]
      /\ ran' = [ran EXCEPT ![p][p] = @ + 1]
      /\ Goto(p, At(p, "deinterlock"))
  BY InTop DEF lwkt_cpusync_deinterlock
<1>3. PICK a \in {"held", "deinterlock"} : a = "deinterlock"
  OBVIOUS
<1>4. /\ Base' /\ fifo' = fifo
      /\ \A x \in Cpu \ {p} : Sync(x)' = Sync(x)
      /\ \A x \in Cpu \ {p} : stack'[x] = stack[x]
      /\ \A x \in Cpu \ {p} : ToKept(x, p)
      /\ Syncing(p) /\ Syncing(p)'
      /\ Interlocking(p) <=> Top(p).at \in {"send", "interlock"}
      /\ Held(p) <=> Top(p).at = "held"
      /\ Releasing(p) <=> Top(p).at = "deinterlock"
      /\ ~Interlocking(p)'
      /\ Held(p)' <=> a = "held"
      /\ Releasing(p)' <=> a = "deinterlock"
      /\ \A q : FromKept(p, q)
      /\ \A i \in 1 .. Len(stack'[p]) : Passes(p, stack'[p][i])
  BY <1>2, <1>3, StageMoved
<1>5. Held(p) /\ ~Interlocking(p)' /\ ~Held(p)' /\ Releasing(p)'
  BY <1>2, <1>3, <1>4
<1>6. ran[p][p] = 0 /\ ran \in [Cpu -> [Cpu -> 0 .. 2]]
  BY <1>1, <1>5 DEF MasterInv, SyncType
<1>7. /\ ran' \in [Cpu -> [Cpu -> 0 .. 2]] /\ ran'[p][p] = 1
      /\ \A y \in Cpu \ {p} : ran'[p][y] = ran[p][y] /\ ran'[y] = ran[y]
  <2>1. ran[p] \in [Cpu -> 0 .. 2]
    BY <1>6
  <2>2. PICK r : r = [ran[p] EXCEPT ![p] = 1]
    OBVIOUS
  <2>3. r \in [Cpu -> 0 .. 2] /\ r[p] = 1 /\ \A y \in Cpu \ {p} : r[y] = ran[p][y]
    BY <2>1, <2>2
  <2>4. ran' = [ran EXCEPT ![p] = r]
    BY <1>2, <1>6, <2>2
  <2> QED BY <1>6, <2>3, <2>4
<1>8. cs_mack' \in [Cpu -> SUBSET Cpu] /\ cs_mack'[p] = {} /\ \A x \in Cpu \ {p} : cs_mack'[x] = cs_mack[x]
  BY <1>1, <1>2 DEF SyncType
<1>9. SyncType'
  BY <1>1, <1>2, <1>7, <1>8 DEF SyncType
<1>10. MasterInv(p)'
  BY <1>1, <1>2, <1>4, <1>5, <1>7, <1>8 DEF MasterInv
<1>11. PollInv(p)'
  BY <1>1, <1>2, <1>4, PollStep
<1>12. ASSUME NEW y \in Cpu \ {p} PROVE RequestInv(p, y)'
  <2>1. RequestInv(p, y)
    BY <1>1
  <2>2. Answered(p, y) /\ ran[p][y] = 0 /\ OnePlace(p, y) /\ Once(p, y)
    BY <1>5, <2>1 DEF RequestInv
  <2>3. ToKept(p, y) /\ FromKept(p, y) /\ (Polling(p, y)' <=> Polling(p, y))
    BY <1>2, <1>4, SyncKept, PollingKept
  <2>4. Once(p, y)' /\ (Asked(p, y)' <=> Asked(p, y))
    BY <1>4, <2>2 DEF Once, Asked
  <2>5. OnePlace(p, y)' /\ Answered(p, y)' /\ ~Unanswered(p, y)'
    BY <2>2, <2>3, <2>4 DEF OnePlace, Answered, Unanswered, ToKept, FromKept
  <2>6. y \notin cs_mack'[p] /\ ran'[p][y] = 0
    BY <1>7, <1>8, <2>2
  <2> QED BY <1>4, <1>5, <2>4, <2>5, <2>6 DEF RequestInv
<1>13. \A pq \in Pair : pq[1] # p => fifo'[pq] = fifo[pq]
  BY <1>4
<1>14. \A x \in Cpu \ {p} : cs_mack'[x] = cs_mack[x] /\ td_cscount'[x] = td_cscount[x]
                              /\ ran'[x] = ran[x]
  BY <1>2, <1>7, <1>8
<1> QED BY <1>2, <1>4, <1>9, <1>10, <1>11, <1>12, <1>13, <1>14, MasterStep

(* All have run cs_func: p goes on to process what came in meanwhile.      *)
LEMMA FinishInv ==
  ASSUME Inv, NEW p \in Cpu, CpusyncFinish(p)
  PROVE  Inv'
<1>1. /\ Base /\ SyncType
      /\ \A x \in Cpu : MasterInv(x) /\ PollInv(x)
      /\ \A x, y \in Cpu : x # y => RequestInv(x, y)
  BY InvParts
<1>2. /\ stack[p] # <<>> /\ Top(p).fn = "cpusync" /\ Top(p).at = "deinterlock"
      /\ UNCHANGED <<queueVars, signalVars, calls>> /\ cpusyncq' = cpusyncq
      /\ cs_mack' = cs_mack /\ ran' = ran
  BY InTop DEF CpusyncFinish
<1>3. CASE cs_mack[p] # Others(p)
  <2>1. Push(p, lwkt_process_ipiq(p)) /\ td_cscount' = td_cscount
    BY <1>3 DEF CpusyncFinish
  <2>2. Suspended(Top(p))
    BY <1>2 DEF Suspended
  <2>3. StackInv' /\ stack' \in [Cpu -> Seq(Frame)] /\ Quiet(p)
    BY <1>1, <1>2, <2>1, <2>2, PushProcess
  <2>4. Base' /\ AskSame
    BY <1>1, <1>2, <2>3, BaseStackOnly
  <2>5. QuietStep(p)
    BY <1>2, <2>1, <2>3, <2>4 DEF QuietStep, syncVars
  <2> QED BY <2>5, QuietInv
<1>4. CASE cs_mack[p] = Others(p)
  <2>1. Goto(p, lwkt_process_ipiq(p)) /\ td_cscount' = [td_cscount EXCEPT ![p] = @ - 1]
    BY <1>4 DEF CpusyncFinish
  <2>2. PICK g : g = lwkt_process_ipiq(p)
    OBVIOUS
  <2>3. /\ g \in Frame /\ Shape(p, g) /\ Passes(p, g) /\ ~SyncFrame(g)
        /\ g.fn = "process" /\ g.at = "again"
    BY <2>2, ProcessFrame
  <2>4. Goto(p, g)
    BY <2>1, <2>2
  <2>5. /\ StackInv' /\ stack' \in [Cpu -> Seq(Frame)]
        /\ Became(p, Len(stack[p]) - 1, <<g>>)
    BY <1>1, <1>2, <2>3, <2>4, GotoBase
  <2>6. Base' /\ fifo' = fifo
    BY <1>1, <1>2, <2>5, BaseStackOnly DEF queueVars
  <2>7. /\ SyncBelow(p) = {} /\ Len(stack[p]) = 1
        /\ \A h : h \in Sync(p) <=> h \in SyncBelow(p) \/ (h = Top(p) /\ SyncFrame(h))
    BY <1>1, <1>2, SyncParts
  <2>8. /\ \A x \in Cpu \ {p} : Sync(x)' = Sync(x)
        /\ \A h : h \in Sync(p)' <=> h \in SyncBelow(p) \/ (h = g /\ SyncFrame(h))
    BY <1>1, <1>2, <2>5, SyncGoto
  <2>9. PICK f : f = Top(p)
    OBVIOUS
  <2>10. f.fn = "cpusync" /\ f.at = "deinterlock" /\ SyncFrame(f)
    BY <1>2, <2>9 DEF SyncFrame
  <2>11. \A h : (h \in Sync(p) <=> h = f) /\ h \notin Sync(p)'
    BY <2>3, <2>7, <2>8, <2>9, <2>10
  <2>12. /\ Syncing(p)
         /\ Interlocking(p) <=> f.at \in {"send", "interlock"}
         /\ Held(p) <=> f.at = "held"
         /\ Releasing(p) <=> f.at = "deinterlock"
         /\ \A q : ToAsk(p, q) <=> q \in f.mask
    BY <2>10, <2>11, StageOf
  <2>13. ~Syncing(p)' /\ ~Interlocking(p)' /\ ~Held(p)' /\ ~Releasing(p)'
    BY <2>11 DEF Syncing, Interlocking, Held, Releasing, Stage
  <2>14. Releasing(p) /\ Syncing(p)
    BY <2>10, <2>12
  <2>15. \A x : ~ToAsk(p, x)' /\ ~Asking(p, x)'
    BY <2>11 DEF ToAsk, Asking
  <2>16. \A x \in Cpu \ {p} : ToKept(x, p)
    BY <2>10, <2>11 DEF ToKept, Answering, Checking
  <2>17. td_cscount[p] = 1 /\ td_cscount'[p] = 0 /\ ran[p][p] = 1
    BY <1>1, <2>1, <2>14 DEF MasterInv, SyncType
  <2>18. SyncType'
    BY <1>1, <1>2, <2>1, <2>17 DEF SyncType
  <2>19. MasterInv(p)'
    BY <1>1, <1>2, <2>13, <2>17 DEF MasterInv
  <2>20. /\ Len(stack'[p]) = 1 /\ stack'[p][1] = g /\ \A x \in Cpu \ {p} : stack'[x] = stack[x]
    <3>1. Len(<<g>>) = 1 /\ <<g>>[1] = g
      OBVIOUS
    <3> QED BY <2>5, <2>7, <3>1 DEF Became
  <2>21. PollInv(p)'
    <3>1. 1 \in 1 .. Len(stack'[p]) /\ Looks(stack'[p][1])
      BY <2>3, <2>20 DEF Looks
    <3>2. \A i \in 1 .. Len(stack'[p]) : Passes(p, stack'[p][i])
      BY <2>3, <2>20
    <3> QED BY <1>1, <1>2, <3>1, <3>2, PollStep
  <2>22. ASSUME NEW y \in Cpu \ {p} PROVE RequestInv(p, y)'
    <3>1. RequestInv(p, y) /\ y \in cs_mack[p]
      BY <1>1, <1>4 DEF Others
    <3>2. ~Unanswered(p, y) /\ ~Answered(p, y) /\ ran[p][y] = 1 /\ Once(p, y)
      BY <2>14, <3>1 DEF RequestInv
    <3>3. ToKept(p, y) /\ (Polling(p, y)' <=> Polling(p, y))
      BY <1>2, <2>8, SyncKept, PollingKept
    <3>4. Once(p, y)' /\ (Asked(p, y)' <=> Asked(p, y))
      BY <2>6, <3>2 DEF Once, Asked
    <3>5. OnePlace(p, y)' /\ ~Answered(p, y)' /\ ~Unanswered(p, y)'
      BY <2>15, <3>2, <3>3, <3>4 DEF OnePlace, Answered, Unanswered, ToKept
    <3>6. ran'[p][y] = ran'[p][p]
      BY <1>2, <2>17, <3>2
    <3> QED BY <2>13, <3>4, <3>5, <3>6 DEF RequestInv
  <2>23. \A pq \in Pair : pq[1] # p => fifo'[pq] = fifo[pq]
    BY <2>6
  <2>24. \A x \in Cpu \ {p} : cs_mack'[x] = cs_mack[x] /\ td_cscount'[x] = td_cscount[x]
                                /\ ran'[x] = ran[x]
    BY <1>1, <1>2, <2>1 DEF SyncType
  <2>25. \A x \in Cpu \ {p} : Sync(x)' = Sync(x)
    BY <2>8
  <2>26. \A x \in Cpu \ {p} : stack'[x] = stack[x]
    BY <2>20
  <2> QED BY <1>2, <2>6, <2>16, <2>18, <2>19, <2>21, <2>22, <2>23, <2>24, <2>25, <2>26, MasterStep
<1> QED BY <1>3, <1>4

-----------------------------------------------------------------------------
(* The cpus that are synchronized.                                         *)

(* A step of p on q's request keeps what all others have to do with each   *)
(* other, and p's own cpusync.                                             *)
LEMMA AnswerStep ==
  ASSUME Inv, Base', SyncType', NEW p \in Cpu, NEW q \in Cpu, q # p,
         \A x \in Cpu \ {p} : Sync(x)' = Sync(x),
         \A x \in Cpu \ {p} : stack'[x] = stack[x] /\ cpusyncq'[x] = cpusyncq[x],
         StageKept(p), \A y \in Cpu \ {p} : FromKept(p, y),
         \A x \in Cpu \ {p, q} : ToKept(x, p) /\ (Polling(x, p)' <=> Polling(x, p)),
         \A pq \in Pair : pq # <<q, p>> => fifo'[pq] = fifo[pq],
         td_cscount' = td_cscount,
         \A x, y \in Cpu : x # q \/ y # p => ran'[x][y] = ran[x][y]
                                             /\ (y \in cs_mack'[x] <=> y \in cs_mack[x]),
         PollInv(p)', RequestInv(q, p)'
  PROVE  Inv'
<1>1. /\ Base /\ SyncType
      /\ \A x \in Cpu : MasterInv(x) /\ PollInv(x)
      /\ \A x, y \in Cpu : x # y => RequestInv(x, y)
  BY InvParts
<1>2. \A x \in Cpu : StageKept(x)
  BY SyncKept
<1>3. ASSUME NEW x \in Cpu PROVE MasterInv(x)' /\ PollInv(x)'
  <2>1. x \notin cs_mack'[x] /\ td_cscount'[x] = td_cscount[x] /\ ran'[x][x] = ran[x][x]
    <3>1. x # q \/ x # p
      OBVIOUS
    <3> QED BY <1>1, <3>1 DEF MasterInv
  <2>2. MasterInv(x)'
    BY <1>1, <1>2, <2>1, MasterKept
  <2>3. PollInv(x)'
    <3>1. CASE x # p
      BY <1>1, <3>1, PollKept
    <3> QED BY <3>1
  <2> QED BY <2>2, <2>3
<1>4. ASSUME NEW x \in Cpu, NEW y \in Cpu, x # y, x # q \/ y # p PROVE RequestInv(x, y)'
  <2>1. RequestInv(x, y)
    BY <1>1, <1>4
  <2>2. <<x, y>> \in Pair /\ <<x, y>> # <<q, p>>
    BY <1>4 DEF Pair
  <2>3. fifo'[<<x, y>>] = fifo[<<x, y>>]
    BY <2>2
  <2>4. Once(x, y)' /\ (Asked(x, y)' <=> Asked(x, y))
    BY <2>1, <2>3 DEF RequestInv, Once, Asked
  <2>5. CountsKept(x, y)
    <3>1. x # q \/ x # p
      OBVIOUS
    <3> QED BY <1>4, <3>1 DEF CountsKept
  <2>6. FromKept(x, y)
    <3>1. CASE x = p
      BY <1>4, <3>1
    <3>2. CASE x # p
      BY <3>2, SyncKept
    <3> QED BY <3>1, <3>2
  <2>7. ToKept(x, y) /\ (Polling(x, y)' <=> Polling(x, y))
    <3>1. CASE y = p
      <4>1. x \in Cpu \ {p, q}
        BY <1>4, <3>1
      <4> QED BY <3>1, <4>1
    <3>2. CASE y # p
      <4>1. Sync(y)' = Sync(y) /\ cpusyncq'[y] = cpusyncq[y]
        BY <3>2
      <4> QED BY <4>1, SyncKept, PollingKept
    <3> QED BY <3>1, <3>2
  <2>8. ListsKept(x, y)
    BY <2>4, <2>7 DEF ListsKept
  <2> QED BY <1>2, <2>1, <2>5, <2>6, <2>7, <2>8, RequestKept
<1>5. \A x, y \in Cpu : x # y => RequestInv(x, y)'
  BY <1>4
<1> QED BY <1>3, <1>5 DEF Inv, SyncInv

(* What q may be at when its request to p has not been answered yet, and   *)
(* when it has.                                                            *)
LEMMA StageWhen ==
  ASSUME Inv, NEW p \in Cpu, NEW q \in Cpu, q # p
  PROVE  /\ Unanswered(q, p) => /\ Interlocking(q) /\ ~Held(q) /\ ~Releasing(q) /\ Syncing(q)
                                /\ p \notin cs_mack[q] /\ ran[q][p] = 0 /\ ~Answered(q, p)
         /\ Answered(q, p) => Syncing(q) /\ ~Unanswered(q, p) /\ ran[q][p] = 0
         /\ Answered(q, p) /\ p \notin cs_mack[q] => Releasing(q) /\ ~Held(q) /\ ~Interlocking(q)
         /\ Answered(q, p) /\ p \in cs_mack[q] => ~Releasing(q)
<1>1. RequestInv(q, p)
  BY InvParts
<1>2. Syncing(q) => Interlocking(q) \/ Held(q) \/ Releasing(q)
  <2> HAVE Syncing(q)
  <2>1. PICK f \in Sync(q) : f.fn = "cpusync"
    BY DEF Syncing
  <2>2. PICK i \in 1 .. Len(stack[q]) : f = stack[q][i]
    BY <2>1 DEF Sync, CallsOf
  <2>3. Shape(q, f)
    BY <2>2, InvParts DEF Base, StackInv, StackOK
  <2>4. f.at \in {"send", "interlock", "held", "deinterlock"}
    BY <2>1, <2>3 DEF Shape
  <2> QED BY <2>1, <2>4 DEF Interlocking, Held, Releasing, Stage
<1>3. OnePlace(q, p)
  BY <1>1 DEF RequestInv
<1>4. ~(Unanswered(q, p) /\ Answered(q, p))
  BY <1>3 DEF OnePlace, Unanswered
<1>5. ~(Interlocking(q) /\ Held(q)) /\ ~(Interlocking(q) /\ Releasing(q)) /\ ~(Held(q) /\ Releasing(q))
  <2>1. MasterInv(q) /\ StackOK(q, stack[q])
    BY InvParts DEF Base, StackInv
  <2>2. \A f, g \in Sync(q) : f.fn = "cpusync" /\ g.fn = "cpusync" => f = g
    <3> TAKE f, g \in Sync(q)
    <3> HAVE f.fn = "cpusync" /\ g.fn = "cpusync"
    <3>1. PICK i \in 1 .. Len(stack[q]) : f = stack[q][i]
      BY DEF Sync, CallsOf
    <3>2. PICK j \in 1 .. Len(stack[q]) : g = stack[q][j]
      BY DEF Sync, CallsOf
    <3>3. Nested(stack[q], i) /\ Nested(stack[q], j)
      BY <2>1 DEF StackOK
    <3>4. i = 1 /\ j = 1
      BY <3>1, <3>2, <3>3 DEF Nested
    <3> QED BY <3>1, <3>2, <3>4
  <2> QED BY <2>2 DEF Interlocking, Held, Releasing, Stage
<1>6. Interlocking(q) => Syncing(q)
  BY DEF Interlocking, Stage, Syncing
<1>7. Unanswered(q, p) => /\ Interlocking(q) /\ ~Held(q) /\ ~Releasing(q) /\ Syncing(q)
                          /\ p \notin cs_mack[q] /\ ran[q][p] = 0 /\ ~Answered(q, p)
  BY <1>1, <1>2, <1>4, <1>5, <1>6 DEF RequestInv
<1>8. Answered(q, p) => Syncing(q) /\ ~Unanswered(q, p) /\ ran[q][p] = 0
  BY <1>1, <1>2, <1>4 DEF RequestInv
<1>9. Answered(q, p) /\ p \notin cs_mack[q] => Releasing(q) /\ ~Held(q) /\ ~Interlocking(q)
  BY <1>1, <1>2, <1>5, <1>8 DEF RequestInv
<1>10. Answered(q, p) /\ p \in cs_mack[q] => ~Releasing(q)
  BY <1>1 DEF RequestInv
<1> QED BY <1>7, <1>8, <1>9, <1>10

(* A call that looks at what p polls is still there.                       *)
LEMMA StillLooks ==
  ASSUME Base, NEW p \in Cpu, PollInv(p), NEW n, NEW new, Became(p, n, new), StageKept(p),
         \A i \in n + 1 .. Len(stack[p]) : ~Looks(stack[p][i])
  PROVE  cpusyncq[p] # <<>> =>
           Syncing(p)' \/ \E i \in 1 .. Len(stack'[p]) : Looks(stack'[p][i])
<1>1. /\ n \in 0 .. Len(stack[p]) /\ Len(stack'[p]) = n + Len(new) /\ Len(new) \in Nat
      /\ \A i \in 1 .. n : stack'[p][i] = stack[p][i]
  BY DEF Became
<1>2. Len(stack[p]) \in Nat
  BY DEF Base, IpiqType
<1> HAVE cpusyncq[p] # <<>>
<1>3. CASE Syncing(p)
  BY <1>3 DEF StageKept
<1>4. CASE ~Syncing(p)
  <2>1. PICK i \in 1 .. Len(stack[p]) : Looks(stack[p][i])
    BY <1>4 DEF PollInv
  <2>2. ~(i \in n + 1 .. Len(stack[p]))
    BY <2>1
  <2>3. i \in 1 .. n /\ i \in 1 .. Len(stack'[p])
    BY <1>1, <1>2, <2>2
  <2> QED BY <1>1, <2>1, <2>3
<1> QED BY <1>3, <1>4

(* p takes q's request out of the FIFO.                                    *)
LEMMA TakenInv ==
  ASSUME Inv, Base', UNCHANGED syncVars, NEW p \in Cpu, NEW q \in Cpu, q # p,
         NEW func \in Frame, func.fn = "func", func.at = "remote1", func.cpu = q,
         Became(p, Len(stack[p]), <<func>>),
         fifo[<<q, p>>] # <<>>, Head(fifo[<<q, p>>]) = "remote1",
         fifo' = [fifo EXCEPT ![<<q, p>>] = Tail(@)]
  PROVE  Inv'
<1>1. /\ Base /\ SyncType
      /\ \A x \in Cpu : MasterInv(x) /\ PollInv(x)
      /\ \A x, y \in Cpu : x # y => RequestInv(x, y)
  BY InvParts
<1>2. /\ SyncType' /\ cpusyncq' = cpusyncq /\ cs_mack' = cs_mack
      /\ td_cscount' = td_cscount /\ ran' = ran
  BY UnchangedSync
<1>3. PICK n : n = Len(stack[p])
  OBVIOUS
<1>4. Len(<<func>>) = 1 /\ <<func>>[1] = func
  OBVIOUS
<1>5. n \in Nat /\ \A i \in n + 1 .. Len(stack[p]) : FALSE
  <2>1. stack[p] \in Seq(Frame)
    BY <1>1 DEF Base, IpiqType
  <2>2. n \in Nat
    BY <1>3, <2>1
  <2> QED BY <1>3, <2>2
<1>6. SyncFrame(func) /\ Passes(p, func)
  BY DEF SyncFrame, Passes
<1>7. /\ \A x \in Cpu \ {p} : Sync(x)' = Sync(x)
      /\ \A f : f \in Sync(p)' <=> f \in Sync(p) \/ f = func
  <2>1. /\ \A x \in Cpu \ {p} : Sync(x)' = Sync(x)
        /\ \A f : f \in Sync(p)' <=>
              /\ SyncFrame(f)
              /\ \/ \E i \in 1 .. n : f = stack[p][i]
                 \/ \E i \in 1 .. Len(<<func>>) : f = <<func>>[i]
    BY <1>1, <1>3, SyncBecame
  <2>2. \A f : (\E i \in 1 .. Len(<<func>>) : f = <<func>>[i]) <=> f = func
    OBVIOUS
  <2>3. ASSUME NEW f PROVE f \in Sync(p) <=> SyncFrame(f) /\ \E i \in 1 .. n : f = stack[p][i]
    BY <1>3 DEF Sync, CallsOf
  <2> QED BY <1>6, <2>1, <2>2, <2>3
<1>8. \A x \in Cpu \ {p} : stack'[x] = stack[x] /\ cpusyncq'[x] = cpusyncq[x]
  BY <1>2 DEF Became
<1>9. StageKept(p)
  BY <1>7 DEF StageKept, Interlocking, Held, Releasing, Syncing, Stage
<1>10. \A y \in Cpu \ {p} : FromKept(p, y)
  BY <1>7 DEF FromKept, ToAsk, Asking
<1>11. \A x \in Cpu \ {p, q} : ToKept(x, p) /\ (Polling(x, p)' <=> Polling(x, p))
  <2> TAKE x \in Cpu \ {p, q}
  <2>1. ToKept(x, p)
    BY <1>7 DEF ToKept, Answering, Checking
  <2> QED BY <1>2, <2>1, PollingKept
<1>12. <<q, p>> \in Pair /\ fifo \in [Pair -> Seq(Msg)] /\ fifo[<<q, p>>] \in Seq(Msg)
  BY <1>1 DEF Pair, Base, IpiqType
<1>13. \A pq \in Pair : pq # <<q, p>> => fifo'[pq] = fifo[pq]
  BY <1>12
<1>14. \A x, y \in Cpu : x # q \/ y # p => ran'[x][y] = ran[x][y]
                                           /\ (y \in cs_mack'[x] <=> y \in cs_mack[x])
  BY <1>2
<1>15. PollInv(p)'
  <2>1. \A i \in 1 .. Len(<<func>>) : Passes(p, <<func>>[i])
    BY <1>4, <1>6
  <2>2. \A i \in 1 .. Len(stack'[p]) : Passes(p, stack'[p][i])
    BY <1>1, <1>3, <2>1, BecamePasses
  <2>3. cpusyncq[p] # <<>> =>
           Syncing(p)' \/ \E i \in 1 .. Len(stack'[p]) : Looks(stack'[p][i])
    BY <1>1, <1>3, <1>5, <1>9, StillLooks
  <2> QED BY <1>1, <1>2, <2>2, <2>3, PollStep
<1>16. RequestInv(q, p)'
  <2>1. RequestInv(q, p)
    BY <1>1
  <2>2. PICK r : r = Tail(fifo[<<q, p>>])
    OBVIOUS
  <2>3. /\ Len(r) = Len(fifo[<<q, p>>]) - 1 /\ Len(fifo[<<q, p>>]) \in Nat /\ Len(fifo[<<q, p>>]) > 0
        /\ fifo[<<q, p>>][1] = "remote1"
        /\ \A i \in 1 .. Len(fifo[<<q, p>>]) - 1 : r[i] = fifo[<<q, p>>][i + 1]
    BY <1>12, <2>2
  <2>4. fifo'[<<q, p>>] = r
    BY <1>12, <2>2
  <2>5. 1 \in 1 .. Len(fifo[<<q, p>>])
    BY <2>3
  <2>6. Asked(q, p) /\ Once(q, p)
    BY <2>1, <2>3, <2>5 DEF Asked, RequestInv
  <2>7. \A i \in 1 .. Len(r) : r[i] # "remote1"
    <3> SUFFICES ASSUME NEW i \in 1 .. Len(r), r[i] = "remote1" PROVE FALSE
      OBVIOUS
    <3>1. i + 1 \in 1 .. Len(fifo[<<q, p>>]) /\ fifo[<<q, p>>][i + 1] = "remote1" /\ i + 1 # 1
      BY <2>3
    <3> QED BY <2>3, <2>5, <2>6, <3>1 DEF Once
  <2>8. ~Asked(q, p)' /\ Once(q, p)'
    BY <2>4, <2>7 DEF Asked, Once
  <2>9. Answering(q, p)' /\ (Checking(q, p)' <=> Checking(q, p)) /\ (Polling(q, p)' <=> Polling(q, p))
    BY <1>2, <1>7, PollingKept DEF Answering, Checking
  <2>10. Sync(q)' = Sync(q)
    BY <1>7
  <2>11. FromKept(q, p) /\ StageKept(q)
    BY <2>10, SyncKept
  <2>12. OnePlace(q, p)
    BY <2>1 DEF RequestInv
  <2>13. OnePlace(q, p)' /\ Unanswered(q, p) /\ Unanswered(q, p)' /\ ~Answered(q, p) /\ ~Answered(q, p)'
    BY <2>6, <2>8, <2>9, <2>11, <2>12 DEF OnePlace, Unanswered, Answered, FromKept
  <2> QED BY <1>2, <2>1, <2>8, <2>11, <2>13 DEF RequestInv, StageKept
<1>17. \A x \in Cpu \ {p} : Sync(x)' = Sync(x)
  BY <1>7
<1> QED BY <1>2, <1>8, <1>9, <1>10, <1>11, <1>13, <1>14, <1>15, <1>16, <1>17, AnswerStep

(* lwkt_cpusync_remote1() goes on as g.                                    *)
LEMMA FuncGoto ==
  ASSUME Base, NEW p \in Cpu, stack[p] # <<>>, Top(p).fn = "func",
         Top(p).at \in {"remote1", "remote2"}, NEW g, g.fn = "func",
         Became(p, Len(stack[p]) - 1, <<g>>)
  PROVE  /\ \A x \in Cpu \ {p} : Sync(x)' = Sync(x)
         /\ \A x \in Cpu \ {p} : stack'[x] = stack[x]
         /\ StageKept(p) /\ (\A y \in Cpu \ {p} : FromKept(p, y))
         /\ \A x : /\ Answering(x, p) <=> x = Top(p).cpu /\ Top(p).at = "remote1"
                   /\ Checking(x, p) <=> x = Top(p).cpu /\ Top(p).at = "remote2"
                   /\ Answering(x, p)' <=> x = g.cpu /\ g.at = "remote1"
                   /\ Checking(x, p)' <=> x = g.cpu /\ g.at = "remote2"
<1>1. PICK f : f = Top(p)
  OBVIOUS
<1>2. /\ \A h : h \in Sync(p) <=> h \in SyncBelow(p) \/ (h = f /\ SyncFrame(h))
      /\ \A h \in SyncBelow(p) : h.fn \in {"cpusync", "send"}
  BY <1>1, SyncParts
<1>3. /\ \A x \in Cpu \ {p} : Sync(x)' = Sync(x)
      /\ \A h : h \in Sync(p)' <=> h \in SyncBelow(p) \/ (h = g /\ SyncFrame(h))
  BY SyncGoto
<1>4. f.fn = "func" /\ f.at \in {"remote1", "remote2"} /\ SyncFrame(f)
      /\ (SyncFrame(g) <=> g.at \in {"remote1", "remote2"})
  BY <1>1 DEF SyncFrame
<1>5. \A x \in Cpu \ {p} : stack'[x] = stack[x]
  BY DEF Became
<1>6. \A h : h.fn # "func" => (h \in Sync(p)' <=> h \in Sync(p))
  BY <1>2, <1>3, <1>4
<1>7. StageKept(p)
  BY <1>6 DEF StageKept, Interlocking, Held, Releasing, Syncing, Stage
<1>8. \A y \in Cpu \ {p} : FromKept(p, y)
  BY <1>6 DEF FromKept, ToAsk, Asking
<1>9. ASSUME NEW x
      PROVE  /\ Answering(x, p) <=> x = f.cpu /\ f.at = "remote1"
             /\ Checking(x, p) <=> x = f.cpu /\ f.at = "remote2"
             /\ Answering(x, p)' <=> x = g.cpu /\ g.at = "remote1"
             /\ Checking(x, p)' <=> x = g.cpu /\ g.at = "remote2"
  <2>1. \A h : (h \in Sync(p) /\ h.fn = "func" <=> h = f)
    BY <1>2, <1>4
  <2>2. \A h : (h \in Sync(p)' /\ h.fn = "func" <=> h = g /\ g.at \in {"remote1", "remote2"})
    BY <1>2, <1>3, <1>4
  <2>3. /\ Answering(x, p) <=> x = f.cpu /\ f.at = "remote1"
        /\ Checking(x, p) <=> x = f.cpu /\ f.at = "remote2"
    BY <2>1 DEF Answering, Checking
  <2>4. /\ Answering(x, p)' <=> x = g.cpu /\ g.at = "remote1"
        /\ Checking(x, p)' <=> x = g.cpu /\ g.at = "remote2"
    BY <2>2 DEF Answering, Checking
  <2> QED BY <2>3, <2>4
<1> QED BY <1>1, <1>3, <1>5, <1>7, <1>8, <1>9

(* p answers q's request.                                                  *)
LEMMA Remote1Inv ==
  ASSUME Inv, NEW p \in Cpu, lwkt_cpusync_remote1(p)
  PROVE  Inv'
<1>1. /\ Base /\ SyncType
      /\ \A x \in Cpu : MasterInv(x) /\ PollInv(x)
      /\ \A x, y \in Cpu : x # y => RequestInv(x, y)
  BY InvParts
<1>2. stack[p] # <<>> /\ Top(p).fn = "func" /\ Top(p).at = "remote1"
  BY InTop DEF lwkt_cpusync_remote1
<1>3. Top(p) \in Frame /\ Shape(p, Top(p)) /\ Len(stack[p]) \in Nat
      /\ Top(p) = stack[p][Len(stack[p])]
  BY <1>1, <1>2, TopFacts
<1>4. PICK q \in Cpu : q = Top(p).cpu
  BY <1>3, FrameFields
<1>5. q # p
  BY <1>2, <1>3, <1>4 DEF Shape
<1>6. /\ cs_mack' = [cs_mack EXCEPT ![q] = @ \cup {p}] /\ Goto(p, At(p, "remote2"))
      /\ UNCHANGED <<queueVars, signalVars, calls>> /\ cpusyncq' = cpusyncq
      /\ td_cscount' = td_cscount /\ ran' = ran
  BY <1>4 DEF lwkt_cpusync_remote1
<1>7. PICK a \in Place : a = "remote2"
  BY DEF Place
<1>8. PICK g : g = At(p, a)
  OBVIOUS
<1>9. /\ g \in Frame /\ g.at = a /\ g.fn = Top(p).fn /\ g.cpu = Top(p).cpu
      /\ g.msg = Top(p).msg /\ g.seq = Top(p).seq /\ g.mask = Top(p).mask
  BY <1>1, <1>2, <1>8, AtFrame
<1>10. Shape(p, g) /\ Passes(p, g) /\ g.fn = "func" /\ g.at = "remote2" /\ g.cpu = q
  BY <1>2, <1>3, <1>4, <1>7, <1>9 DEF Shape, Passes
<1>11. Goto(p, g)
  BY <1>6, <1>7, <1>8
<1>12. /\ StackInv' /\ stack' \in [Cpu -> Seq(Frame)]
       /\ Became(p, Len(stack[p]) - 1, <<g>>)
  BY <1>1, <1>2, <1>9, <1>10, <1>11, GotoBase
<1>13. Base' /\ fifo' = fifo
  BY <1>1, <1>6, <1>12, BaseStackOnly DEF queueVars
<1>14. /\ \A x \in Cpu \ {p} : Sync(x)' = Sync(x)
       /\ \A x \in Cpu \ {p} : stack'[x] = stack[x]
       /\ StageKept(p) /\ (\A y \in Cpu \ {p} : FromKept(p, y))
       /\ \A x : /\ Answering(x, p) <=> x = Top(p).cpu /\ Top(p).at = "remote1"
                 /\ Checking(x, p) <=> x = Top(p).cpu /\ Top(p).at = "remote2"
                 /\ Answering(x, p)' <=> x = g.cpu /\ g.at = "remote1"
                 /\ Checking(x, p)' <=> x = g.cpu /\ g.at = "remote2"
  BY <1>1, <1>2, <1>10, <1>12, FuncGoto
<1>15. SyncType' /\ p \in cs_mack'[q]
       /\ \A x, y \in Cpu : x # q \/ y # p => (y \in cs_mack'[x] <=> y \in cs_mack[x])
  <2>1. cs_mack \in [Cpu -> SUBSET Cpu]
    BY <1>1 DEF SyncType
  <2>2. cs_mack' \in [Cpu -> SUBSET Cpu] /\ cs_mack'[q] = cs_mack[q] \cup {p}
        /\ \A x \in Cpu \ {q} : cs_mack'[x] = cs_mack[x]
    BY <1>6, <2>1
  <2>3. SyncType'
    BY <1>1, <1>6, <2>2 DEF SyncType
  <2> QED BY <2>2, <2>3
<1>16. PollInv(p)'
  <2>1. Len(<<g>>) = 1 /\ <<g>>[1] = g
    OBVIOUS
  <2>2. \A i \in 1 .. Len(<<g>>) : Passes(p, <<g>>[i])
    BY <1>10, <2>1
  <2>3. PICK n : n = Len(stack[p]) - 1
    OBVIOUS
  <2>4. \A i \in 1 .. Len(stack'[p]) : Passes(p, stack'[p][i])
    BY <1>1, <1>12, <2>2, <2>3, BecamePasses
  <2>5. \A i \in n + 1 .. Len(stack[p]) : ~Looks(stack[p][i])
    <3>1. \A i \in n + 1 .. Len(stack[p]) : i = Len(stack[p])
      BY <1>3, <2>3
    <3> QED BY <1>2, <1>3, <3>1 DEF Looks
  <2>6. cpusyncq[p] # <<>> =>
           Syncing(p)' \/ \E i \in 1 .. Len(stack'[p]) : Looks(stack'[p][i])
    BY <1>1, <1>12, <1>14, <2>3, <2>5, StillLooks
  <2> QED BY <1>1, <1>6, <2>4, <2>6, PollStep
<1>17. RequestInv(q, p)'
  <2>1. RequestInv(q, p)
    BY <1>1, <1>5
  <2>2. Answering(q, p) /\ ~Checking(q, p) /\ ~Answering(q, p)' /\ Checking(q, p)'
    BY <1>2, <1>4, <1>10, <1>14
  <2>3. Unanswered(q, p)
    BY <2>2 DEF Unanswered
  <2>4. /\ Interlocking(q) /\ ~Held(q) /\ ~Releasing(q) /\ Syncing(q)
        /\ p \notin cs_mack[q] /\ ran[q][p] = 0 /\ ~Answered(q, p)
    BY <1>5, <2>3, StageWhen
  <2>5. FromKept(q, p) /\ StageKept(q)
    BY <1>5, <1>14, SyncKept
  <2>6. (Polling(q, p)' <=> Polling(q, p)) /\ (Asked(q, p)' <=> Asked(q, p)) /\ Once(q, p)'
    BY <1>6, <1>13, <2>1, PollingKept DEF Asked, Once, RequestInv
  <2>7. OnePlace(q, p)
    BY <2>1 DEF RequestInv
  <2>8. OnePlace(q, p)' /\ ~Unanswered(q, p)' /\ Answered(q, p)'
    BY <2>2, <2>4, <2>5, <2>6, <2>7 DEF OnePlace, Unanswered, Answered, FromKept
  <2> QED BY <1>6, <1>15, <2>4, <2>5, <2>6, <2>8 DEF RequestInv, StageKept
<1>18. \A x \in Cpu \ {p, q} : ToKept(x, p) /\ (Polling(x, p)' <=> Polling(x, p))
  <2> TAKE x \in Cpu \ {p, q}
  <2>1. ToKept(x, p)
    BY <1>4, <1>10, <1>14 DEF ToKept
  <2> QED BY <1>6, <2>1, PollingKept
<1>19. \A pq \in Pair : pq # <<q, p>> => fifo'[pq] = fifo[pq]
  BY <1>13
<1>20. \A x, y \in Cpu : x # q \/ y # p => ran'[x][y] = ran[x][y]
                                           /\ (y \in cs_mack'[x] <=> y \in cs_mack[x])
  BY <1>6, <1>15
<1>21. \A x \in Cpu \ {p} : stack'[x] = stack[x] /\ cpusyncq'[x] = cpusyncq[x]
  BY <1>6, <1>14
<1>22. \A x \in Cpu \ {p} : Sync(x)' = Sync(x)
  BY <1>14
<1>23. StageKept(p) /\ (\A y \in Cpu \ {p} : FromKept(p, y))
  BY <1>14
<1> QED BY <1>5, <1>6, <1>13, <1>15, <1>16, <1>17, <1>18, <1>19, <1>20, <1>21, <1>22, <1>23, AnswerStep

(* lwkt_cpusync_remote2() on p for m: cs_func is run if m has cleared p's  *)
(* bit, else the request is queued again.                                  *)
LEMMA Remote2Step ==
  ASSUME Inv, NEW p \in Cpu, NEW m \in Cpu, m # p, Answered(m, p), NEW rest \in Seq(Cpu),
         lwkt_cpusync_remote2(p, m, rest), td_cscount' = td_cscount
  PROVE  /\ SyncType'
         /\ \A x, y \in Cpu : x # m \/ y # p => ran'[x][y] = ran[x][y]
                                                /\ (y \in cs_mack'[x] <=> y \in cs_mack[x])
         /\ \A x \in Cpu \ {p} : cpusyncq'[x] = cpusyncq[x]
         /\ p \in cs_mack'[m] /\ Syncing(m)
         /\ \/ /\ p \notin cs_mack[m] /\ cpusyncq'[p] = rest
               /\ ran'[m][p] = 1 /\ Releasing(m) /\ ~Held(m) /\ ~Interlocking(m)
            \/ /\ p \in cs_mack[m] /\ cpusyncq'[p] = Append(rest, m)
               /\ ran'[m][p] = 0 /\ ~Releasing(m)
<1>1. SyncType
  BY InvParts
<1>2. /\ cpusyncq \in [Cpu -> Seq(Cpu)] /\ cs_mack \in [Cpu -> SUBSET Cpu]
      /\ td_cscount \in [Cpu -> 0 .. 1] /\ ran \in [Cpu -> [Cpu -> 0 .. 2]]
  BY <1>1 DEF SyncType
<1>3. /\ Syncing(m) /\ ran[m][p] = 0
      /\ p \notin cs_mack[m] => Releasing(m) /\ ~Held(m) /\ ~Interlocking(m)
      /\ p \in cs_mack[m] => ~Releasing(m)
  BY StageWhen
<1>4. CASE p \notin cs_mack[m]
  <2>1. /\ ran' = [ran EXCEPT ![m][p] = @ + 1]
        /\ cs_mack' = [cs_mack EXCEPT ![m] = @ \cup {p}]
        /\ cpusyncq' = [cpusyncq EXCEPT ![p] = rest]
    BY <1>4 DEF lwkt_cpusync_remote2
  <2>2. PICK r : r = [ran[m] EXCEPT ![p] = 1]
    OBVIOUS
  <2>3. r \in [Cpu -> 0 .. 2] /\ r[p] = 1 /\ \A y \in Cpu \ {p} : r[y] = ran[m][y]
    <3>1. ran[m] \in [Cpu -> 0 .. 2]
      BY <1>2
    <3> QED BY <2>2, <3>1
  <2>4. ran' = [ran EXCEPT ![m] = r]
    BY <1>2, <1>3, <2>1, <2>2
  <2>5. /\ ran' \in [Cpu -> [Cpu -> 0 .. 2]] /\ ran'[m] = r /\ \A x \in Cpu \ {m} : ran'[x] = ran[x]
    BY <1>2, <2>3, <2>4
  <2>6. /\ cs_mack' \in [Cpu -> SUBSET Cpu] /\ cs_mack'[m] = cs_mack[m] \cup {p}
        /\ \A x \in Cpu \ {m} : cs_mack'[x] = cs_mack[x]
    BY <1>2, <2>1
  <2>7. /\ cpusyncq' \in [Cpu -> Seq(Cpu)] /\ cpusyncq'[p] = rest
        /\ \A x \in Cpu \ {p} : cpusyncq'[x] = cpusyncq[x]
    BY <1>2, <2>1
  <2>8. SyncType'
    BY <1>2, <2>5, <2>6, <2>7 DEF SyncType
  <2>9. \A x, y \in Cpu : x # m \/ y # p => ran'[x][y] = ran[x][y]
                                            /\ (y \in cs_mack'[x] <=> y \in cs_mack[x])
    <3> TAKE x, y \in Cpu
    <3> HAVE x # m \/ y # p
    <3>1. CASE x # m
      BY <2>5, <2>6, <3>1
    <3>2. CASE x = m /\ y # p
      BY <2>3, <2>5, <2>6, <3>2
    <3> QED BY <3>1, <3>2
  <2>10. p \in cs_mack'[m] /\ ran'[m][p] = 1
    BY <2>3, <2>5, <2>6
  <2> QED BY <1>3, <1>4, <2>7, <2>8, <2>9, <2>10
<1>5. CASE p \in cs_mack[m]
  <2>1. cpusyncq' = [cpusyncq EXCEPT ![p] = Append(rest, m)] /\ ran' = ran /\ cs_mack' = cs_mack
    BY <1>5 DEF lwkt_cpusync_remote2
  <2>2. Append(rest, m) \in Seq(Cpu)
    OBVIOUS
  <2>3. /\ cpusyncq' \in [Cpu -> Seq(Cpu)] /\ cpusyncq'[p] = Append(rest, m)
        /\ \A x \in Cpu \ {p} : cpusyncq'[x] = cpusyncq[x]
    BY <1>2, <2>1, <2>2
  <2>4. SyncType'
    BY <1>2, <2>1, <2>3 DEF SyncType
  <2> QED BY <1>3, <1>5, <2>1, <2>3, <2>4
<1> QED BY <1>4, <1>5

(* Lists of cpus without duplicates.                                       *)
On(s, x) == \E i \in 1 .. Len(s) : s[i] = x
Distinct(s) == \A i, j \in 1 .. Len(s) : s[i] = s[j] => i = j

(* Who is on gd_cpusyncq after a master was added at its end.              *)
LEMMA ListAppend ==
  ASSUME NEW s \in Seq(Cpu), NEW m \in Cpu, NEW r, r = Append(s, m)
  PROVE  /\ Len(r) = Len(s) + 1 /\ Len(s) \in Nat
         /\ \A x : On(r, x) <=> On(s, x) \/ x = m
         /\ Distinct(s) /\ ~On(s, m) => Distinct(r)
<1>1. /\ Len(r) = Len(s) + 1 /\ Len(s) \in Nat /\ r[Len(s) + 1] = m
      /\ \A i \in 1 .. Len(s) : r[i] = s[i]
  OBVIOUS
<1>2. \A i \in 1 .. Len(r) : i \in 1 .. Len(s) \/ i = Len(s) + 1
  BY <1>1
<1>3. (\A i \in 1 .. Len(s) : i \in 1 .. Len(r)) /\ Len(s) + 1 \in 1 .. Len(r)
  BY <1>1
<1>4. ASSUME NEW x PROVE On(r, x) <=> On(s, x) \/ x = m
  BY <1>1, <1>2, <1>3 DEF On
<1>5. ASSUME Distinct(s), ~On(s, m) PROVE Distinct(r)
  <2> SUFFICES ASSUME NEW i \in 1 .. Len(r), NEW j \in 1 .. Len(r), r[i] = r[j] PROVE i = j
    BY DEF Distinct
  <2>1. CASE i \in 1 .. Len(s) /\ j \in 1 .. Len(s)
    BY <1>1, <1>5, <2>1 DEF Distinct
  <2>2. CASE i \in 1 .. Len(s) /\ j = Len(s) + 1
    BY <1>1, <1>5, <2>2 DEF On
  <2>3. CASE i = Len(s) + 1 /\ j \in 1 .. Len(s)
    BY <1>1, <1>5, <2>3 DEF On
  <2>4. CASE i = Len(s) + 1 /\ j = Len(s) + 1
    BY <2>4
  <2> QED BY <1>2, <2>1, <2>2, <2>3, <2>4
<1> QED BY <1>1, <1>4, <1>5

(* Who is on gd_cpusyncq after its head was taken.                         *)
LEMMA ListTail ==
  ASSUME NEW s \in Seq(Cpu), s # <<>>, NEW t, t = Tail(s)
  PROVE  /\ t \in Seq(Cpu) /\ Head(s) \in Cpu /\ Len(t) = Len(s) - 1 /\ Len(s) \in Nat
         /\ Len(s) > 0 /\ On(s, Head(s))
         /\ \A x : On(s, x) <=> x = Head(s) \/ On(t, x)
         /\ Distinct(s) => Distinct(t) /\ ~On(t, Head(s))
<1>1. /\ t \in Seq(Cpu) /\ Head(s) \in Cpu /\ Len(t) = Len(s) - 1 /\ Len(s) \in Nat
      /\ Len(s) > 0 /\ Head(s) = s[1]
      /\ \A i \in 1 .. Len(s) - 1 : t[i] = s[i + 1]
  OBVIOUS
<1>2. 1 \in 1 .. Len(s)
  BY <1>1
<1>3. \A i \in 1 .. Len(t) : i + 1 \in 1 .. Len(s) /\ t[i] = s[i + 1] /\ i + 1 # 1
  BY <1>1
<1>4. \A i \in 1 .. Len(s) : i = 1 \/ (i - 1 \in 1 .. Len(t) /\ t[i - 1] = s[i])
  <2> TAKE i \in 1 .. Len(s)
  <2>1. i # 1 => i - 1 \in 1 .. Len(t) /\ i - 1 + 1 = i
    BY <1>1
  <2> QED BY <1>3, <2>1
<1>5. On(s, Head(s))
  BY <1>1, <1>2 DEF On
<1>6. ASSUME NEW x PROVE On(s, x) <=> x = Head(s) \/ On(t, x)
  <2>1. ASSUME On(s, x) PROVE x = Head(s) \/ On(t, x)
    <3>1. PICK i \in 1 .. Len(s) : s[i] = x
      BY <2>1 DEF On
    <3>2. CASE i = 1
      BY <1>1, <3>1, <3>2
    <3>3. CASE i # 1
      <4>1. i - 1 \in 1 .. Len(t) /\ t[i - 1] = s[i]
        BY <1>4, <3>3
      <4> QED BY <3>1, <4>1 DEF On
    <3> QED BY <3>2, <3>3
  <2>2. ASSUME On(t, x) PROVE On(s, x)
    <3>1. PICK i \in 1 .. Len(t) : t[i] = x
      BY <2>2 DEF On
    <3>2. i + 1 \in 1 .. Len(s) /\ t[i] = s[i + 1]
      BY <1>3
    <3> QED BY <3>1, <3>2 DEF On
  <2> QED BY <1>5, <2>1, <2>2
<1>7. ASSUME Distinct(s) PROVE Distinct(t) /\ ~On(t, Head(s))
  <2>1. \A i, j \in 1 .. Len(t) : t[i] = t[j] => i = j
    <3> TAKE i, j \in 1 .. Len(t)
    <3> HAVE t[i] = t[j]
    <3>1. i + 1 = j + 1
      BY <1>3, <1>7 DEF Distinct
    <3> QED BY <3>1
  <2>2. \A i \in 1 .. Len(t) : t[i] # s[1]
    BY <1>2, <1>3, <1>7 DEF Distinct
  <2> QED BY <1>1, <2>1, <2>2 DEF Distinct, On
<1> QED BY <1>1, <1>5, <1>6, <1>7

(* Polling(), in terms of the list.                                        *)
LEMMA PollList ==
  ASSUME NEW p, NEW x
  PROVE  /\ Polling(x, p) <=> On(cpusyncq[p], x)
         /\ Polling(x, p)' <=> On(cpusyncq'[p], x)
         /\ PollInv(p) => Distinct(cpusyncq[p]) /\ ~On(cpusyncq[p], p)
BY DEF Polling, On, PollInv, Distinct

(* The list's part of the invariant in the next state, from what it says   *)
(* of the list.                                                            *)
LEMMA PollNext ==
  ASSUME NEW p, Distinct(cpusyncq'[p]), ~On(cpusyncq'[p], p),
         \A i \in 1 .. Len(stack'[p]) :
           stack'[p][i].fn = "process" /\ stack'[p][i].at = "sync"
             => stack'[p][i].seq \in 1 .. Len(cpusyncq'[p]),
         cpusyncq'[p] # <<>> =>
           Syncing(p)' \/ \E i \in 1 .. Len(stack'[p]) : Looks(stack'[p][i])
  PROVE  PollInv(p)'
BY DEF PollInv, Passes, Looks, On, Distinct

(* The calls below the innermost one are in no pass, and below a function  *)
(* is a call that looks at what p polls.                                   *)
LEMMA BelowPasses ==
  ASSUME Base, NEW p \in Cpu, stack[p] # <<>>, NEW g, Became(p, Len(stack[p]) - 1, <<g>>)
  PROVE  /\ Len(stack'[p]) = Len(stack[p]) /\ Len(stack[p]) \in Nat /\ Len(stack[p]) > 0
         /\ stack'[p][Len(stack[p])] = g
         /\ \A i \in 1 .. Len(stack'[p]) :
              stack'[p][i] = g \/ ~(stack'[p][i].fn = "process" /\ stack'[p][i].at = "sync")
         /\ Top(p).fn = "func" => \E i \in 1 .. Len(stack'[p]) : Looks(stack'[p][i])
<1>1. /\ stack[p] \in Seq(Frame) /\ Len(stack[p]) \in Nat /\ Len(stack[p]) > 0
      /\ Top(p) = stack[p][Len(stack[p])] /\ Top(p) \in Frame
      /\ Shape(p, Top(p)) /\ Nested(stack[p], Len(stack[p]))
  BY TopFacts
<1>2. PICK n \in Nat : n = Len(stack[p]) - 1
  <2>1. Len(stack[p]) - 1 \in Nat
    BY <1>1
  <2> QED BY <2>1
<1>3. Len(stack[p]) = n + 1
  BY <1>1, <1>2
<1>4. Len(<<g>>) = 1 /\ <<g>>[1] = g
  OBVIOUS
<1>5. /\ Len(stack'[p]) = n + 1 /\ stack'[p][n + 1] = g
      /\ \A i \in 1 .. n : stack'[p][i] = stack[p][i]
  <2>1. PICK new : new = <<g>>
    OBVIOUS
  <2>2. Became(p, n, new)
    BY <1>2, <2>1
  <2>3. Len(new) = 1 /\ new[1] = g /\ 1 \in 1 .. Len(new)
    BY <1>4, <2>1
  <2> QED BY <2>2, <2>3 DEF Became
<1>6. \A i \in 1 .. n : Nested(stack[p], i) /\ i < Len(stack[p])
  BY <1>3 DEF Base, StackInv, StackOK
<1>7. \A i \in 1 .. n : Suspended(stack[p][i])
  BY <1>6 DEF Nested
<1>8. \A i \in 1 .. n + 1 : i = n + 1 \/ i \in 1 .. n
  OBVIOUS
<1>9. \A i \in 1 .. Len(stack'[p]) :
        stack'[p][i] = g \/ ~(stack'[p][i].fn = "process" /\ stack'[p][i].at = "sync")
  BY <1>5, <1>7, <1>8 DEF Suspended
<1>10. ASSUME Top(p).fn = "func" PROVE \E i \in 1 .. Len(stack'[p]) : Looks(stack'[p][i])
  <2>1. n + 1 > 1 /\ stack[p][n + 1 - 1].fn = "process"
    BY <1>1, <1>3, <1>10 DEF Nested
  <2>2. n + 1 - 1 = n /\ n \in 1 .. n /\ n \in 1 .. n + 1
    BY <2>1
  <2>3. Looks(stack[p][n])
    BY <1>7, <2>1, <2>2 DEF Suspended, Looks
  <2> QED BY <1>5, <2>2, <2>3
<1> QED BY <1>1, <1>3, <1>5, <1>9, <1>10

(* The request of m is run on p, or stays polled there.                    *)
LEMMA PolledRequest ==
  ASSUME Inv, NEW p \in Cpu, NEW m \in Cpu, m # p, Answered(m, p),
         StageKept(m), FromKept(m, p), fifo' = fifo,
         ~Answering(m, p)', ~Checking(m, p)', p \in cs_mack'[m],
         \/ /\ ~Polling(m, p)' /\ ran'[m][p] = 1
            /\ Releasing(m) /\ ~Held(m) /\ ~Interlocking(m)
         \/ Polling(m, p)' /\ ran'[m][p] = 0 /\ ~Releasing(m)
  PROVE  RequestInv(m, p)'
<1>1. RequestInv(m, p)
  BY InvParts
<1>2. Syncing(m) /\ ~Unanswered(m, p) /\ ran[m][p] = 0
  BY StageWhen
<1>3. ~ToAsk(m, p) /\ ~Asking(m, p) /\ ~Asked(m, p) /\ Once(m, p)
  BY <1>1, <1>2 DEF Unanswered, RequestInv
<1>4. ~ToAsk(m, p)' /\ ~Asking(m, p)' /\ ~Asked(m, p)' /\ Once(m, p)'
  BY <1>3 DEF FromKept, Asked, Once
<1>5. ~Unanswered(m, p)' /\ (Answered(m, p)' <=> Polling(m, p)') /\ OnePlace(m, p)'
  BY <1>4 DEF Unanswered, Answered, OnePlace
<1>6. /\ Syncing(m)' /\ (Interlocking(m)' <=> Interlocking(m))
      /\ (Held(m)' <=> Held(m)) /\ (Releasing(m)' <=> Releasing(m))
  BY <1>2 DEF StageKept
<1> QED BY <1>4, <1>5, <1>6 DEF RequestInv

(* lwkt_cpusync_remote1() looks whether it may run cs_func at once.        *)
LEMMA Remote1PollsInv ==
  ASSUME Inv, NEW p \in Cpu, Remote1Polls(p)
  PROVE  Inv'
<1>1. /\ Base /\ SyncType
      /\ \A x \in Cpu : MasterInv(x) /\ PollInv(x)
      /\ \A x, y \in Cpu : x # y => RequestInv(x, y)
  BY InvParts
<1>2. stack[p] # <<>> /\ Top(p).fn = "func" /\ Top(p).at = "remote2"
  BY InTop DEF Remote1Polls
<1>3. Top(p) \in Frame /\ Shape(p, Top(p)) /\ Len(stack[p]) \in Nat
      /\ Top(p) = stack[p][Len(stack[p])]
  BY <1>1, <1>2, TopFacts
<1>4. PICK q \in Cpu : q = Top(p).cpu
  BY <1>3, FrameFields
<1>5. q # p
  BY <1>2, <1>3, <1>4 DEF Shape
<1>6. /\ lwkt_cpusync_remote2(p, q, cpusyncq[p]) /\ Goto(p, At(p, "done"))
      /\ UNCHANGED <<queueVars, signalVars, calls>> /\ td_cscount' = td_cscount
  BY <1>4 DEF Remote1Polls
<1>7. PICK a \in Place : a = "done"
  BY DEF Place
<1>8. PICK g : g = At(p, a)
  OBVIOUS
<1>9. /\ g \in Frame /\ g.at = a /\ g.fn = Top(p).fn /\ g.cpu = Top(p).cpu
      /\ g.msg = Top(p).msg /\ g.seq = Top(p).seq /\ g.mask = Top(p).mask
  BY <1>1, <1>2, <1>8, AtFrame
<1>10. Shape(p, g) /\ g.fn = "func" /\ g.at = "done"
  BY <1>2, <1>3, <1>4, <1>7, <1>9 DEF Shape
<1>11. Goto(p, g)
  BY <1>6, <1>7, <1>8
<1>12. /\ StackInv' /\ stack' \in [Cpu -> Seq(Frame)]
       /\ Became(p, Len(stack[p]) - 1, <<g>>)
  BY <1>1, <1>2, <1>9, <1>10, <1>11, GotoBase
<1>13. Base' /\ fifo' = fifo
  BY <1>1, <1>6, <1>12, BaseStackOnly DEF queueVars
<1>14. /\ \A x \in Cpu \ {p} : Sync(x)' = Sync(x)
       /\ \A x \in Cpu \ {p} : stack'[x] = stack[x]
       /\ StageKept(p) /\ (\A y \in Cpu \ {p} : FromKept(p, y))
       /\ \A x : /\ Answering(x, p) <=> x = Top(p).cpu /\ Top(p).at = "remote1"
                 /\ Checking(x, p) <=> x = Top(p).cpu /\ Top(p).at = "remote2"
                 /\ Answering(x, p)' <=> x = g.cpu /\ g.at = "remote1"
                 /\ Checking(x, p)' <=> x = g.cpu /\ g.at = "remote2"
  BY <1>1, <1>2, <1>10, <1>12, FuncGoto
<1>15. Checking(q, p) /\ Answered(q, p)
  BY <1>2, <1>4, <1>14 DEF Answered
<1>16. PICK s \in Seq(Cpu) : s = cpusyncq[p]
  BY <1>1 DEF SyncType
<1>17. lwkt_cpusync_remote2(p, q, s)
  BY <1>6, <1>16
<1>18. /\ SyncType'
       /\ \A x, y \in Cpu : x # q \/ y # p => ran'[x][y] = ran[x][y]
                                              /\ (y \in cs_mack'[x] <=> y \in cs_mack[x])
       /\ \A x \in Cpu \ {p} : cpusyncq'[x] = cpusyncq[x]
       /\ p \in cs_mack'[q] /\ Syncing(q)
       /\ \/ /\ p \notin cs_mack[q] /\ cpusyncq'[p] = s
             /\ ran'[q][p] = 1 /\ Releasing(q) /\ ~Held(q) /\ ~Interlocking(q)
          \/ /\ p \in cs_mack[q] /\ cpusyncq'[p] = Append(s, q)
             /\ ran'[q][p] = 0 /\ ~Releasing(q)
  BY <1>5, <1>6, <1>15, <1>17, Remote2Step
<1>19. ~On(s, q)
  <2>1. OnePlace(q, p)
    BY <1>1, <1>5 DEF RequestInv
  <2>2. ~Polling(q, p)
    BY <1>15, <2>1 DEF OnePlace
  <2> QED BY <1>16, <2>2, PollList
<1>20. Distinct(s) /\ ~On(s, p)
  BY <1>1, <1>16, PollList
<1>21. PICK r : r = Append(s, q)
  OBVIOUS
<1>22. /\ \A x : On(r, x) <=> On(s, x) \/ x = q
       /\ Distinct(r)
  BY <1>19, <1>20, <1>21, ListAppend
<1>23. Distinct(cpusyncq'[p]) /\ ~On(cpusyncq'[p], p)
       /\ \A x \in Cpu \ {q} : On(cpusyncq'[p], x) <=> On(s, x)
  BY <1>5, <1>18, <1>20, <1>21, <1>22
<1>24. \/ /\ ~Polling(q, p)' /\ ran'[q][p] = 1
          /\ Releasing(q) /\ ~Held(q) /\ ~Interlocking(q)
       \/ Polling(q, p)' /\ ran'[q][p] = 0 /\ ~Releasing(q)
  <2>1. Polling(q, p)' <=> On(cpusyncq'[p], q)
    BY PollList
  <2>2. ~On(s, q) /\ On(r, q)
    BY <1>19, <1>22
  <2> QED BY <1>18, <1>21, <2>1, <2>2
<1>25. RequestInv(q, p)'
  <2>1. StageKept(q) /\ FromKept(q, p)
    BY <1>5, <1>14, SyncKept
  <2>2. ~Answering(q, p)' /\ ~Checking(q, p)'
    BY <1>10, <1>14
  <2>3. p \in cs_mack'[q]
    BY <1>18
  <2> QED BY <1>5, <1>13, <1>15, <1>24, <2>1, <2>2, <2>3, PolledRequest
<1>26. PollInv(p)'
  <2>1. /\ \A i \in 1 .. Len(stack'[p]) :
             stack'[p][i] = g \/ ~(stack'[p][i].fn = "process" /\ stack'[p][i].at = "sync")
        /\ \E i \in 1 .. Len(stack'[p]) : Looks(stack'[p][i])
    BY <1>1, <1>2, <1>12, BelowPasses
  <2>2. \A i \in 1 .. Len(stack'[p]) :
          stack'[p][i].fn = "process" /\ stack'[p][i].at = "sync"
             => stack'[p][i].seq \in 1 .. Len(cpusyncq'[p])
    BY <1>10, <2>1
  <2> QED BY <1>23, <2>1, <2>2, PollNext
<1>27. \A x \in Cpu \ {p, q} : ToKept(x, p) /\ (Polling(x, p)' <=> Polling(x, p))
  <2> TAKE x \in Cpu \ {p, q}
  <2>1. ToKept(x, p)
    BY <1>4, <1>10, <1>14 DEF ToKept
  <2> QED BY <1>16, <1>23, <2>1, PollList
<1>28. \A pq \in Pair : pq # <<q, p>> => fifo'[pq] = fifo[pq]
  BY <1>13
<1>29. \A x, y \in Cpu : x # q \/ y # p => ran'[x][y] = ran[x][y]
                                           /\ (y \in cs_mack'[x] <=> y \in cs_mack[x])
  BY <1>18
<1>30. \A x \in Cpu \ {p} : stack'[x] = stack[x] /\ cpusyncq'[x] = cpusyncq[x]
  BY <1>14, <1>18
<1>31. \A x \in Cpu \ {p} : Sync(x)' = Sync(x)
  BY <1>14
<1>32. StageKept(p) /\ (\A y \in Cpu \ {p} : FromKept(p, y))
  BY <1>14
<1> QED BY <1>5, <1>6, <1>13, <1>18, <1>25, <1>26, <1>27, <1>28, <1>29, <1>30, <1>31, <1>32, AnswerStep

(* The calls of p and its cpusyncs when lwkt_process_ipiq() goes on as g.  *)
LEMMA ProcessGoto ==
  ASSUME Base, NEW p \in Cpu, stack[p] # <<>>, Top(p).fn = "process", NEW g, g.fn = "process",
         Became(p, Len(stack[p]) - 1, <<g>>)
  PROVE  /\ \A x \in Cpu : Sync(x)' = Sync(x)
         /\ \A x \in Cpu \ {p} : stack'[x] = stack[x]
         /\ \A x : ~Answering(x, p)' /\ ~Checking(x, p)' /\ ~Answering(x, p) /\ ~Checking(x, p)
<1>1. PICK f : f = Top(p)
  OBVIOUS
<1>2. /\ \A h : h \in Sync(p) <=> h \in SyncBelow(p) \/ (h = f /\ SyncFrame(h))
      /\ \A h \in SyncBelow(p) : h.fn \in {"cpusync", "send"}
  BY <1>1, SyncParts
<1>3. /\ \A x \in Cpu \ {p} : Sync(x)' = Sync(x)
      /\ \A h : h \in Sync(p)' <=> h \in SyncBelow(p) \/ (h = g /\ SyncFrame(h))
  BY SyncGoto
<1>4. ~SyncFrame(f) /\ ~SyncFrame(g)
  BY <1>1 DEF SyncFrame
<1>5. \A h : h \in Sync(p)' <=> h \in Sync(p)
  BY <1>2, <1>3, <1>4
<1>6. Sync(p)' = Sync(p)
  BY <1>5
<1>7. \A x \in Cpu \ {p} : stack'[x] = stack[x]
  BY DEF Became
<1>8. \A h \in Sync(p) : h.fn # "func"
  BY <1>2, <1>4
<1>9. \A x : ~Answering(x, p) /\ ~Checking(x, p)
  BY <1>8 DEF Answering, Checking
<1>10. \A x : ~Answering(x, p)' /\ ~Checking(x, p)'
  BY <1>6, <1>8 DEF Answering, Checking
<1> QED BY <1>3, <1>6, <1>7, <1>9, <1>10

(* One step of the pass: what p goes on as, if it is to be at a after it.  *)
PassTo(f, a) == IF f.seq > 1 THEN [f EXCEPT !.seq = @ - 1] ELSE [f EXCEPT !.seq = 0, !.at = a]

(* A pass over gd_cpusyncq goes on to its next entry, or ends.             *)
LEMMA PassFrame ==
  ASSUME Base, NEW p \in Cpu, NEW f \in Frame, Shape(p, f), f.fn = "process", f.at = "sync",
         f.seq > 0, NEW a \in {"again", "test"}, NEW g,
         g = PassTo(f, a)
  PROVE  /\ g \in Frame /\ Shape(p, g) /\ g.fn = "process" /\ g.msg = f.msg
         /\ g.at = "sync" => f.seq > 1 /\ g.seq = f.seq - 1
         /\ a = "again" => Looks(g)
<1>1. f.seq \in Nat
  BY FrameFields
<1>2. CASE f.seq > 1
  <2>1. g = [f EXCEPT !.seq = f.seq - 1]
    BY <1>2 DEF PassTo
  <2>2. f.seq - 1 \in Nat
    BY <1>1, <1>2
  <2>3. /\ g \in Frame /\ g.fn = f.fn /\ g.at = f.at /\ g.cpu = f.cpu /\ g.msg = f.msg
        /\ g.seq = f.seq - 1 /\ g.mask = f.mask
    BY <2>1, <2>2 DEF Frame
  <2>4. Shape(p, g)
    BY <2>3 DEF Shape
  <2> QED BY <1>2, <2>3, <2>4 DEF Looks
<1>3. CASE ~(f.seq > 1)
  <2>1. a \in Place
    BY DEF Place
  <2>2. g = [f EXCEPT !.seq = 0, !.at = a]
    BY <1>3 DEF PassTo
  <2>3. PICK h : h = [f EXCEPT !.seq = 0]
    OBVIOUS
  <2>4. /\ h \in Frame /\ h.fn = f.fn /\ h.at = f.at /\ h.cpu = f.cpu /\ h.msg = f.msg
        /\ h.mask = f.mask
    BY <2>3 DEF Frame
  <2>5. g = [h EXCEPT !.at = a]
    BY <2>2, <2>3
  <2>6. /\ g \in Frame /\ g.at = a /\ g.fn = h.fn /\ g.cpu = h.cpu
        /\ g.msg = h.msg /\ g.seq = h.seq /\ g.mask = h.mask
    BY <2>1, <2>4, <2>5 DEF Frame
  <2>7. Shape(p, g)
    BY <2>4, <2>6 DEF Shape
  <2> QED BY <2>4, <2>6, <2>7 DEF Looks
<1> QED BY <1>2, <1>3

(* p polls the first request of its list.                                  *)
LEMMA ProcessSyncInv ==
  ASSUME Inv, NEW p \in Cpu, ProcessSync(p)
  PROVE  Inv'
<1>1. /\ Base /\ SyncType
      /\ \A x \in Cpu : MasterInv(x) /\ PollInv(x)
      /\ \A x, y \in Cpu : x # y => RequestInv(x, y)
  BY InvParts
<1>2. stack[p] # <<>> /\ Top(p).fn = "process" /\ Top(p).at = "sync"
  BY InTop DEF ProcessSync
<1>3. PICK f \in Frame : f = Top(p)
  BY <1>1, <1>2, TopFacts
<1>4. Shape(p, f) /\ Len(stack[p]) \in Nat /\ Len(stack[p]) > 0 /\ f = stack[p][Len(stack[p])]
  BY <1>1, <1>2, <1>3, TopFacts
<1>5. PICK s \in Seq(Cpu) : s = cpusyncq[p]
  BY <1>1 DEF SyncType
<1>6. f.seq \in 1 .. Len(s)
  <2>1. Len(stack[p]) \in 1 .. Len(stack[p])
    BY <1>4
  <2>2. Passes(p, f)
    BY <1>1, <1>4, <2>1 DEF PollInv
  <2> QED BY <1>2, <1>3, <1>5, <2>2 DEF Passes
<1>7. s # <<>>
  <2>1. Len(s) \in Nat /\ Len(s) > 0
    BY <1>6
  <2>2. Len(<<>>) = 0
    OBVIOUS
  <2> QED BY <2>1, <2>2
<1>8. PICK t : t = Tail(s)
  OBVIOUS
<1>9. /\ t \in Seq(Cpu) /\ Head(s) \in Cpu /\ Len(t) = Len(s) - 1 /\ Len(s) \in Nat
      /\ Len(s) > 0 /\ On(s, Head(s))
      /\ \A x : On(s, x) <=> x = Head(s) \/ On(t, x)
      /\ Distinct(s) => Distinct(t) /\ ~On(t, Head(s))
  BY <1>7, <1>8, ListTail
<1>10. PICK m \in Cpu : m = Head(s)
  BY <1>9
<1>11. Distinct(s) /\ ~On(s, p)
  BY <1>1, <1>5, PollList
<1>12. m # p /\ Answered(m, p) /\ ~On(t, m) /\ Distinct(t) /\ ~On(t, p)
  <2>1. m # p /\ ~On(t, m) /\ Distinct(t) /\ On(s, m) /\ ~On(t, p)
    BY <1>9, <1>10, <1>11
  <2>2. Polling(m, p)
    BY <1>5, <2>1, PollList
  <2> QED BY <2>1, <2>2 DEF Answered
<1>13. /\ lwkt_cpusync_remote2(p, m, t) /\ td_cscount' = td_cscount
       /\ UNCHANGED <<queueVars, signalVars, calls>>
  BY <1>5, <1>8, <1>10 DEF ProcessSync
<1>14. /\ SyncType'
       /\ \A x, y \in Cpu : x # m \/ y # p => ran'[x][y] = ran[x][y]
                                              /\ (y \in cs_mack'[x] <=> y \in cs_mack[x])
       /\ \A x \in Cpu \ {p} : cpusyncq'[x] = cpusyncq[x]
       /\ p \in cs_mack'[m] /\ Syncing(m)
       /\ \/ /\ p \notin cs_mack[m] /\ cpusyncq'[p] = t
             /\ ran'[m][p] = 1 /\ Releasing(m) /\ ~Held(m) /\ ~Interlocking(m)
          \/ /\ p \in cs_mack[m] /\ cpusyncq'[p] = Append(t, m)
             /\ ran'[m][p] = 0 /\ ~Releasing(m)
  BY <1>9, <1>12, <1>13, Remote2Step
<1>15. PICK a \in {"again", "test"} :
         a = IF cpusyncq'[p] # <<>> /\ td_cscount[p] = 0 THEN "again" ELSE "test"
  OBVIOUS
<1>16. PICK g : g = PassTo(f, a)
  OBVIOUS
<1>17. Goto(p, g)
  BY <1>3, <1>15, <1>16 DEF ProcessSync, PassTo
<1>18. /\ g \in Frame /\ Shape(p, g) /\ g.fn = "process" /\ g.msg = f.msg
       /\ g.at = "sync" => f.seq > 1 /\ g.seq = f.seq - 1
       /\ a = "again" => Looks(g)
  <2>1. f.seq > 0
    BY <1>6
  <2> QED BY <1>1, <1>2, <1>3, <1>4, <1>16, <2>1, PassFrame
<1>19. /\ StackInv' /\ stack' \in [Cpu -> Seq(Frame)]
       /\ Became(p, Len(stack[p]) - 1, <<g>>)
  BY <1>1, <1>2, <1>3, <1>17, <1>18, GotoBase
<1>20. Base' /\ fifo' = fifo
  BY <1>1, <1>13, <1>19, BaseStackOnly DEF queueVars
<1>21. /\ \A x \in Cpu : Sync(x)' = Sync(x)
       /\ \A x \in Cpu \ {p} : stack'[x] = stack[x]
       /\ \A x : ~Answering(x, p)' /\ ~Checking(x, p)' /\ ~Answering(x, p) /\ ~Checking(x, p)
  BY <1>1, <1>2, <1>18, <1>19, ProcessGoto
<1>22. PICK r : r = Append(t, m)
  OBVIOUS
<1>23. /\ Len(r) = Len(t) + 1 /\ Len(t) \in Nat
       /\ \A x : On(r, x) <=> On(t, x) \/ x = m
       /\ Distinct(r)
  BY <1>9, <1>12, <1>22, ListAppend
<1>24. /\ Distinct(cpusyncq'[p]) /\ ~On(cpusyncq'[p], p)
       /\ \A x \in Cpu \ {m} : On(cpusyncq'[p], x) <=> On(s, x)
  <2>1. CASE cpusyncq'[p] = t
    BY <1>9, <1>10, <1>12, <2>1
  <2>2. CASE cpusyncq'[p] = r
    BY <1>9, <1>10, <1>12, <1>23, <2>2
  <2> QED BY <1>14, <1>22, <2>1, <2>2
<1>25. \/ /\ ~Polling(m, p)' /\ ran'[m][p] = 1
          /\ Releasing(m) /\ ~Held(m) /\ ~Interlocking(m)
       \/ Polling(m, p)' /\ ran'[m][p] = 0 /\ ~Releasing(m)
  <2>1. Polling(m, p)' <=> On(cpusyncq'[p], m)
    BY PollList
  <2>2. ~On(t, m) /\ On(r, m)
    BY <1>12, <1>23
  <2> QED BY <1>14, <1>22, <2>1, <2>2
<1>26. RequestInv(m, p)'
  <2>1. StageKept(m) /\ FromKept(m, p)
    BY <1>21, SyncKept
  <2>2. ~Answering(m, p)' /\ ~Checking(m, p)'
    BY <1>21
  <2>3. p \in cs_mack'[m]
    BY <1>14
  <2> QED BY <1>12, <1>20, <1>25, <2>1, <2>2, <2>3, PolledRequest
<1>27. PollInv(p)'
  <2>1. /\ Len(stack'[p]) = Len(stack[p]) /\ Len(stack[p]) \in Nat /\ Len(stack[p]) > 0
        /\ stack'[p][Len(stack[p])] = g
        /\ \A i \in 1 .. Len(stack'[p]) :
             stack'[p][i] = g \/ ~(stack'[p][i].fn = "process" /\ stack'[p][i].at = "sync")
    BY <1>1, <1>2, <1>19, BelowPasses
  <2>2. g.at = "sync" => g.seq \in 1 .. Len(cpusyncq'[p])
    <3>1. f.seq > 1 => f.seq - 1 \in 1 .. Len(t) /\ f.seq - 1 \in 1 .. Len(r)
      BY <1>6, <1>9, <1>23
    <3> QED BY <1>14, <1>18, <1>22, <3>1
  <2>3. \A i \in 1 .. Len(stack'[p]) :
          stack'[p][i].fn = "process" /\ stack'[p][i].at = "sync"
             => stack'[p][i].seq \in 1 .. Len(cpusyncq'[p])
    BY <2>1, <2>2
  <2>4. cpusyncq'[p] # <<>> =>
           Syncing(p)' \/ \E i \in 1 .. Len(stack'[p]) : Looks(stack'[p][i])
    <3>1. Syncing(p)' <=> Syncing(p)
      BY <1>21 DEF Syncing
    <3>2. Len(stack[p]) \in 1 .. Len(stack'[p])
      BY <2>1
    <3>3. ~Syncing(p) => td_cscount[p] = 0
      BY <1>1 DEF MasterInv
    <3> QED BY <1>15, <1>18, <2>1, <3>1, <3>2, <3>3
  <2> QED BY <1>24, <2>3, <2>4, PollNext
<1>28. \A x \in Cpu \ {p, m} : ToKept(x, p) /\ (Polling(x, p)' <=> Polling(x, p))
  <2> TAKE x \in Cpu \ {p, m}
  <2>1. ToKept(x, p)
    BY <1>21 DEF ToKept
  <2> QED BY <1>5, <1>24, <2>1, PollList
<1>29. \A pq \in Pair : pq # <<m, p>> => fifo'[pq] = fifo[pq]
  BY <1>20
<1>30. \A x, y \in Cpu : x # m \/ y # p => ran'[x][y] = ran[x][y]
                                           /\ (y \in cs_mack'[x] <=> y \in cs_mack[x])
  BY <1>14
<1>31. \A x \in Cpu \ {p} : stack'[x] = stack[x] /\ cpusyncq'[x] = cpusyncq[x]
  BY <1>14, <1>21
<1>32. \A x \in Cpu \ {p} : Sync(x)' = Sync(x)
  BY <1>21
<1>33. StageKept(p) /\ (\A y \in Cpu \ {p} : FromKept(p, y))
  BY <1>21, SyncKept
<1> QED BY <1>12, <1>13, <1>14, <1>20, <1>26, <1>27, <1>28, <1>29, <1>30, <1>31, <1>32, <1>33, AnswerStep

-----------------------------------------------------------------------------
(* The theorems.                                                           *)

(* The backlog fits.                                                       *)
LEMMA InitBase ==
  ASSUME Init PROVE Base
<1>1. /\ MAXCPUFIFO \in Nat /\ MAXCPUFIFO >= 5 /\ Backlog \in 0 .. MAXCPUFIFO \div 2
      /\ MaxCalls \in Nat
  BY IpiqAssumption
<1>2. Backlog \in Nat /\ Backlog < MAXCPUFIFO - 1
  BY <1>1
<1>3. PICK b : b = [i \in 1 .. Backlog |-> "free"]
  OBVIOUS
<1>4. PICK m \in Msg : m = "free"
  BY DEF Msg
<1>5. b = [i \in 1 .. Backlog |-> m]
  BY <1>3, <1>4
<1>6. b \in Seq(Msg) /\ Len(b) = Backlog
  BY <1>2, <1>5
<1>7. fifo = [pq \in Pair |-> b]
  BY <1>3 DEF Init
<1>8. fifo \in [Pair -> Seq(Msg)] /\ FifoBounded
  BY <1>2, <1>6, <1>7 DEF FifoBounded
<1>9. PICK e : e = <<>>
  OBVIOUS
<1>10. stack = [p \in Cpu |-> e] /\ e \in Seq(Frame) /\ Len(e) = 0
  BY <1>9 DEF Init
<1>11. stack \in [Cpu -> Seq(Frame)] /\ \A p \in Cpu : stack[p] = e
  BY <1>10
<1>12. \A i \in 1 .. Len(e) : FALSE
  BY <1>10
<1>13. StackInv
  BY <1>11, <1>12 DEF StackInv, StackOK
<1>14. /\ rindex \in [Pair -> Nat] /\ xindex \in [Pair -> Nat]
       /\ npoll \in [Cpu -> BOOLEAN] /\ hwipi \in [Cpu -> BOOLEAN]
       /\ calls \in [Cpu -> 0 .. MaxCalls]
  BY <1>1 DEF Init
<1>15. ipimask \in [Cpu -> SUBSET Cpu] /\ \A p \in Cpu : p \notin ipimask[p]
  BY DEF Init
<1> QED BY <1>8, <1>11, <1>13, <1>14, <1>15 DEF Base, IpiqType

(* No cpusync has begun.                                                   *)
LEMMA InitSync ==
  ASSUME Init, Base PROVE SyncInv
<1>1. PICK e : e = <<>>
  OBVIOUS
<1>2. Len(e) = 0 /\ e \in Seq(Cpu) /\ \A i \in 1 .. Len(e) : FALSE
  BY <1>1
<1>3. \A p \in Cpu : stack[p] = e /\ cpusyncq[p] = e
  BY <1>1 DEF Init
<1>4. \A p \in Cpu : Sync(p) = {}
  BY <1>2, <1>3 DEF Sync, CallsOf
<1>5. /\ \A p \in Cpu : cs_mack[p] = {} /\ td_cscount[p] = 0
      /\ \A p, q \in Cpu : ran[p][q] = 0
  BY DEF Init
<1>6. SyncType
  <2>1. cpusyncq = [p \in Cpu |-> e]
    BY <1>1 DEF Init
  <2>2. cpusyncq \in [Cpu -> Seq(Cpu)]
    BY <1>2, <2>1
  <2>3. cs_mack \in [Cpu -> SUBSET Cpu] /\ td_cscount \in [Cpu -> 0 .. 1]
    BY DEF Init
  <2>4. PICK r : r = [q \in Cpu |-> 0]
    OBVIOUS
  <2>5. r \in [Cpu -> 0 .. 2] /\ ran = [p \in Cpu |-> r]
    BY <2>4 DEF Init
  <2>6. ran \in [Cpu -> [Cpu -> 0 .. 2]]
    BY <2>5
  <2> QED BY <2>2, <2>3, <2>6 DEF SyncType
<1>7. \A p \in Cpu : ~Syncing(p) /\ ~Interlocking(p) /\ ~Held(p) /\ ~Releasing(p)
  BY <1>4 DEF Syncing, Interlocking, Held, Releasing, Stage
<1>8. \A p \in Cpu : MasterInv(p)
  BY <1>5, <1>7 DEF MasterInv
<1>9. \A p \in Cpu : PollInv(p)
  BY <1>1, <1>2, <1>3 DEF PollInv
<1>10. ASSUME NEW p \in Cpu, NEW q \in Cpu, p # q PROVE RequestInv(p, q)
  <2>1. ~ToAsk(p, q) /\ ~Asking(p, q) /\ ~Answering(p, q) /\ ~Checking(p, q)
    BY <1>4 DEF ToAsk, Asking, Answering, Checking
  <2>2. ~Polling(p, q)
    BY <1>2, <1>3 DEF Polling
  <2>3. <<p, q>> \in Pair
    BY <1>10 DEF Pair
  <2>4. fifo[<<p, q>>] = [i \in 1 .. Backlog |-> "free"]
    BY <2>3 DEF Init
  <2>5. Len(fifo[<<p, q>>]) = Backlog
    <3>1. Backlog \in Nat
      BY IpiqAssumption
    <3>2. PICK s : s = [i \in 1 .. Backlog |-> "free"]
      OBVIOUS
    <3>3. s \in Seq({"free"}) /\ Len(s) = Backlog
      BY <3>1, <3>2
    <3> QED BY <2>4, <3>2, <3>3
  <2>6. \A i \in 1 .. Len(fifo[<<p, q>>]) : fifo[<<p, q>>][i] # "remote1"
    BY <2>4, <2>5
  <2>7. ~Asked(p, q) /\ Once(p, q)
    BY <2>6 DEF Asked, Once
  <2> QED BY <1>5, <1>7, <2>1, <2>2, <2>7 DEF RequestInv, OnePlace, Unanswered, Answered
<1> QED BY <1>6, <1>8, <1>9, <1>10 DEF SyncInv

(* Every step keeps the invariant.                                         *)
LEMMA StepInv ==
  ASSUME Inv, Next PROVE Inv'
<1>1. Base /\ SyncType
  BY InvParts
<1>2. PICK p \in Cpu : ThreadCall(p) \/ CpuStep(p)
  BY DEF Next
<1>3. ASSUME QuietStep(p) PROVE Inv'
  BY <1>3, QuietInv
<1>4. CASE ThreadCall(p)
  <2>1. ASSUME NEW q \in Others(p), NEW m \in Funcs[p], lwkt_send_ipiq3(p, q, m) PROVE Inv'
    BY <1>1, <1>3, <2>1, Ipiq3Quiet DEF Others
  <2>2. ASSUME NEW q \in Others(p), NEW m \in Funcs[p], lwkt_send_ipiq3_nowait(p, q, m) PROVE Inv'
    BY <1>1, <1>3, <2>2, NowaitQuiet DEF Others
  <2>3. ASSUME NEW q \in Others(p), NEW m \in Funcs[p], SendAndWait(p, q, m) PROVE Inv'
    BY <1>1, <1>3, <2>3, SendAndWaitQuiet DEF Others
  <2>4. ASSUME NEW q \in Others(p), lwkt_send_ipiq3_passive(p, q) PROVE Inv'
    BY <1>1, <1>3, <2>4, PassiveQuiet DEF Others
  <2>5. CASE lwkt_cpusync_interlock(p)
    BY <2>5, InterlockInv
  <2> QED BY <1>4, <2>1, <2>2, <2>3, <2>4, <2>5 DEF ThreadCall
<1>5. CASE Xipiq(p)
  BY <1>1, <1>3, <1>5, XipiqQuiet
<1>6. CASE SendStep(p)
  <2>1. CASE SendBegin(p)
    BY <1>1, <1>3, <2>1, BeginStep, RequestSentInv
  <2>2. CASE SendLoop(p)
    BY <1>1, <1>3, <2>2, LoopStep, RequestSentInv
  <2>3. CASE SendMask(p)
    BY <1>1, <1>3, <2>3, MaskQuiet
  <2>4. CASE SendSignal(p)
    BY <1>1, <1>3, <2>4, SignalQuiet
  <2>5. CASE lwkt_wait_ipiq(p)
    BY <1>1, <1>3, <2>5, WaitQuiet
  <2> QED BY <1>6, <2>1, <2>2, <2>3, <2>4, <2>5 DEF SendStep
<1>7. CASE ProcessStep(p)
  <2>1. CASE ProcessAgain(p)
    BY <1>1, <1>3, <2>1, AgainQuiet
  <2>2. CASE ProcessClear(p)
    BY <1>1, <1>3, <2>2, ClearQuiet
  <2>3. CASE lwkt_process_ipiq_core(p)
    <3>1. \/ QuietStep(p)
          \/ /\ Base' /\ UNCHANGED syncVars
             /\ \E q \in Cpu \ {p}, func \in Frame :
                  /\ func.fn = "func" /\ func.at = "remote1" /\ func.cpu = q
                  /\ Became(p, Len(stack[p]), <<func>>)
                  /\ fifo[<<q, p>>] # <<>> /\ Head(fifo[<<q, p>>]) = "remote1"
                  /\ fifo' = [fifo EXCEPT ![<<q, p>>] = Tail(@)]
      BY <1>1, <2>3, CoreStep
    <3>2. CASE ~QuietStep(p)
      <4>1. PICK q \in Cpu \ {p}, func \in Frame :
                  /\ func.fn = "func" /\ func.at = "remote1" /\ func.cpu = q
                  /\ Became(p, Len(stack[p]), <<func>>)
                  /\ fifo[<<q, p>>] # <<>> /\ Head(fifo[<<q, p>>]) = "remote1"
                  /\ fifo' = [fifo EXCEPT ![<<q, p>>] = Tail(@)]
        BY <3>1, <3>2
      <4>2. Base' /\ UNCHANGED syncVars /\ q \in Cpu /\ q # p
        BY <3>1, <3>2
      <4> QED BY <4>1, <4>2, TakenInv
    <3> QED BY <1>3, <3>2
  <2>4. CASE FuncDone(p)
    BY <1>1, <1>3, <2>4, FuncDoneQuiet
  <2>5. CASE ProcessSync(p)
    BY <2>5, ProcessSyncInv
  <2>6. CASE ProcessTest(p)
    BY <1>1, <1>3, <2>6, TestQuiet
  <2>7. CASE ProcessRelease(p)
    BY <1>1, <1>3, <2>7, ReleaseQuiet
  <2> QED BY <1>7, <2>1, <2>2, <2>3, <2>4, <2>5, <2>6, <2>7 DEF ProcessStep
<1>8. CASE CpusyncStep(p)
  BY <1>8, CpusyncSendInv, InterlockedInv, DeinterlockInv, FinishInv, Remote1Inv, Remote1PollsInv
     DEF CpusyncStep
<1> QED BY <1>2, <1>4, <1>5, <1>6, <1>7, <1>8 DEF CpuStep

(* A step that changes nothing.                                            *)
LEMMA StutterInv ==
  ASSUME Inv, UNCHANGED vars PROVE Inv'
<1>1. /\ Base /\ SyncType
      /\ \A x \in Cpu : MasterInv(x) /\ PollInv(x)
      /\ \A x, y \in Cpu : x # y => RequestInv(x, y)
  BY InvParts
<1>2. UNCHANGED <<queueVars, signalVars, calls>> /\ UNCHANGED syncVars /\ stack' = stack
  BY DEF vars
<1>3. StackInv' /\ stack' \in [Cpu -> Seq(Frame)]
  BY <1>1, <1>2 DEF Base, IpiqType, StackInv
<1>4. Base' /\ AskSame
  BY <1>1, <1>2, <1>3, BaseStackOnly
<1>5. /\ SyncType' /\ cpusyncq' = cpusyncq /\ cs_mack' = cs_mack
      /\ td_cscount' = td_cscount /\ ran' = ran
  BY <1>1, <1>2, UnchangedSync
<1>6. \A x \in Cpu : Sync(x)' = Sync(x)
  BY <1>2 DEF Sync, CallsOf
<1>7. ASSUME NEW x \in Cpu PROVE MasterInv(x)' /\ PollInv(x)'
  <2>1. StageKept(x)
    BY <1>6, SyncKept
  <2>2. x \notin cs_mack'[x]
    BY <1>1, <1>5 DEF MasterInv
  <2>3. MasterInv(x)'
    BY <1>1, <1>5, <2>1, <2>2, MasterKept
  <2>4. PollInv(x)'
    BY <1>1, <1>2, <1>5, <1>6, PollKept
  <2> QED BY <2>3, <2>4
<1>8. ASSUME NEW x \in Cpu, NEW y \in Cpu, x # y PROVE RequestInv(x, y)'
  <2>1. CountsKept(x, y)
    BY <1>5 DEF CountsKept
  <2> QED BY <1>4, <1>5, <1>6, <1>8, <2>1, PairKept
<1> QED BY <1>4, <1>5, <1>7, <1>8 DEF Inv, SyncInv

(* The invariant of the IPI queues holds of every reachable state, for     *)
(* every number of cpus, FIFO size, backlog and mix of calls.              *)
THEOREM IpiqInvariant == Spec => []Inv
<1>1. Init => Inv
  BY InitBase, InitSync DEF Inv
<1>2. Inv /\ [Next]_vars => Inv'
  BY StepInv, StutterInv
<1> QED BY <1>1, <1>2, PTL DEF Spec

(* The state of lwkt_ipiq.c keeps its types; td_cscount is a count of at   *)
(* most one and no cpu runs the cs_func of a cpusync more than twice.      *)
THEOREM IpiqTypes == Spec => []TypeOK
<1>1. Inv => TypeOK
  BY DEF Inv, Base, IpiqType, SyncInv, SyncType, TypeOK
<1> QED BY <1>1, IpiqInvariant, PTL

(* No FIFO is ever overrun, however sends, passive sends and sends from    *)
(* functions nest: what lwkt_send_ipiq3() asserts.                         *)
THEOREM FifosBounded == Spec => []FifoBounded
<1>1. Inv => FifoBounded
  BY DEF Inv, Base
<1> QED BY <1>1, IpiqInvariant, PTL

(***************************************************************************)
(* gd_cpusyncq has room for every request that lwkt_cpusync_remote2() puts *)
(* on it, and its KKASSERT holds, with up to one cpu more than MAXCPUFIFO: *)
(* the requests a cpu polls come from different cpus and not from itself.  *)
(***************************************************************************)
THEOREM PollRing == FewCpus /\ Spec => []PollRingFits
<1>1. ASSUME Inv, FewCpus PROVE PollRingFits
  <2>1. SUFFICES ASSUME NEW p \in Cpu PROVE Len(cpusyncq[p]) <= MAXCPUFIFO
    BY DEF PollRingFits
  <2>2. /\ cpusyncq[p] \in Seq(Cpu) /\ PollInv(p)
    BY <1>1, InvParts DEF SyncType
  <2>3. PICK s \in Seq(Cpu) : s = cpusyncq[p]
    BY <2>2
  <2>4. /\ \A i, j \in 1 .. Len(s) : s[i] = s[j] => i = j
        /\ \A i \in 1 .. Len(s) : s[i] # p
    BY <2>2, <2>3 DEF PollInv
  <2>5. Len(s) \in Nat /\ NCpu \in Nat /\ MAXCPUFIFO \in Nat
    BY <2>3, IpiqAssumption
  <2>6. IsFiniteSet(Cpu) /\ Cardinality(Cpu) = NCpu
    BY <2>5, IpiqAssumption, FS_Interval DEF Cpu
  <2>7. IsFiniteSet(Cpu \ {p}) /\ Cardinality(Cpu \ {p}) = NCpu - 1
    BY <2>6, FS_RemoveElement
  <2>8. IsFiniteSet(1 .. Len(s)) /\ Cardinality(1 .. Len(s)) = Len(s)
    BY <2>5, FS_Interval
  <2>9. s \in [1 .. Len(s) -> Cpu \ {p}]
    BY <2>3, <2>4
  <2>10. ~(NCpu - 1 < Len(s))
    <3>1. ASSUME NCpu - 1 < Len(s) PROVE FALSE
      <4>1. \E i, j \in 1 .. Len(s) : i # j /\ s[i] = s[j]
        BY <2>7, <2>8, <2>9, <3>1, FS_PigeonHole
      <4> QED BY <2>4, <4>1
    <3> QED BY <3>1
  <2> QED BY <1>1, <2>3, <2>5, <2>10 DEF FewCpus
<1>2. FewCpus => FewCpus'
  BY DEF FewCpus
<1> QED BY <1>1, <1>2, IpiqInvariant, PTL

(***************************************************************************)
(* While a cpu holds the others interlocked, each of them is inside        *)
(* lwkt_process_ipiq(), polls that cpu's request and has not run cs_func.  *)
(* FewCpus is what makes cpusyncq the code's ring (PollRing).              *)
(***************************************************************************)
THEOREM CpusyncQuiescent == FewCpus /\ Spec => [](PollRingFits /\ Quiescent)
<1>1. ASSUME Inv PROVE Quiescent
  <2>1. /\ Base /\ SyncType
        /\ \A x \in Cpu : MasterInv(x) /\ PollInv(x)
        /\ \A x, y \in Cpu : x # y => RequestInv(x, y)
    BY <1>1, InvParts
  <2>2. SUFFICES ASSUME NEW p \in Cpu, In(p, "cpusync", "held"), NEW q \in Others(p)
                 PROVE  /\ stack[q] # <<>>
                        /\ ran[p][q] = 0
                        /\ \/ \E i \in 1 .. Len(cpusyncq[q]) : cpusyncq[q][i] = p
                           \/ \E f \in CallsOf(q) : f.fn = "func" /\ f.at = "remote2" /\ f.cpu = p
    BY DEF Quiescent
  <2>3. q \in Cpu /\ q # p
    BY DEF Others
  <2>4. stack[p] # <<>> /\ Top(p).fn = "cpusync" /\ Top(p).at = "held"
    BY <2>2, InTop
  <2>5. Len(stack[p]) \in 1 .. Len(stack[p]) /\ Top(p) = stack[p][Len(stack[p])]
    BY <2>1, <2>4, TopFacts
  <2>6. Held(p)
    BY <2>4, <2>5 DEF Held, Stage, Sync, CallsOf, SyncFrame
  <2>7. RequestInv(p, q)
    BY <2>1, <2>3
  <2>8. Answered(p, q) /\ ran[p][q] = 0
    BY <2>6, <2>7 DEF RequestInv
  <2>9. CASE Checking(p, q)
    <3>1. PICK f \in CallsOf(q) : f.fn = "func" /\ f.at = "remote2" /\ f.cpu = p
      BY <2>9 DEF Checking, Sync
    <3>2. PICK i \in 1 .. Len(stack[q]) : f = stack[q][i]
      BY <3>1 DEF CallsOf
    <3>3. stack[q] # <<>>
      BY <3>2
    <3> QED BY <2>8, <3>1, <3>3
  <2>10. CASE Polling(p, q)
    <3>1. PICK i \in 1 .. Len(cpusyncq[q]) : cpusyncq[q][i] = p
      BY <2>10 DEF Polling
    <3>2. cpusyncq[q] # <<>>
      BY <3>1
    <3>3. stack[q] # <<>>
      <4>1. CASE Syncing(q)
        <5>1. PICK f \in CallsOf(q) : TRUE
          BY <4>1 DEF Syncing, Sync
        <5>2. PICK j \in 1 .. Len(stack[q]) : f = stack[q][j]
          BY <5>1 DEF CallsOf
        <5> QED BY <5>2
      <4>2. CASE ~Syncing(q)
        <5>1. PollInv(q)
          BY <2>1, <2>3
        <5>2. PICK j \in 1 .. Len(stack[q]) : Looks(stack[q][j])
          BY <3>2, <4>2, <5>1 DEF PollInv
        <5> QED BY <5>2
      <4> QED BY <4>1, <4>2
    <3> QED BY <2>8, <3>1, <3>3
  <2> QED BY <2>8, <2>9, <2>10 DEF Answered
<1> QED BY <1>1, IpiqInvariant, PollRing, PTL

(***************************************************************************)
(* Once lwkt_cpusync_simple() has returned every cpu has run cs_func as    *)
(* often as the caller, and no FIFO, poll list or function refers to the   *)
(* cpusync that was on the caller's stack; again with cpus that the ring   *)
(* has room for.                                                           *)
(***************************************************************************)
THEOREM CpusyncReleases == FewCpus /\ Spec => [](PollRingFits /\ CpusyncReleased)
<1>1. ASSUME Inv PROVE CpusyncReleased
  <2>1. SUFFICES ASSUME NEW p \in Cpu, td_cscount[p] = 0, NEW q \in Others(p)
                 PROVE  /\ ran[p][q] = ran[p][p]
                        /\ \A i \in 1 .. Len(cpusyncq[q]) : cpusyncq[q][i] # p
                        /\ \A i \in 1 .. Len(fifo[<<p, q>>]) : fifo[<<p, q>>][i] # "remote1"
                        /\ \A f \in CallsOf(q) : ~(f.fn = "func" /\ f.at \in {"remote1", "remote2"}
                                                     /\ f.cpu = p)
    BY DEF CpusyncReleased
  <2>2. q \in Cpu /\ q # p
    BY DEF Others
  <2>3. MasterInv(p) /\ RequestInv(p, q)
    BY <1>1, <2>2, InvParts
  <2>4. ~Syncing(p)
    BY <2>1, <2>3 DEF MasterInv
  <2>5. ~Unanswered(p, q) /\ ~Answered(p, q) /\ ran[p][q] = ran[p][p]
    BY <2>3, <2>4 DEF RequestInv
  <2>6. ~Asked(p, q) /\ ~Answering(p, q) /\ ~Checking(p, q) /\ ~Polling(p, q)
    BY <2>5 DEF Unanswered, Answered
  <2>7. \A f \in CallsOf(q) : ~(f.fn = "func" /\ f.at \in {"remote1", "remote2"} /\ f.cpu = p)
    BY <2>6 DEF Answering, Checking, Sync, SyncFrame
  <2> QED BY <2>5, <2>6, <2>7 DEF Asked, Polling
<1> QED BY <1>1, IpiqInvariant, PollRing, PTL
=============================================================================
