------------------------ MODULE LwktSerialize_proofs ------------------------
(***************************************************************************)
(* The serializer excludes, counts and wakes for every finite set of       *)
(* threads and every choice of entry points.                               *)
(***************************************************************************)
EXTENDS LwktSerialize, FiniteSetTheorems, TLAPS

(* Where a thread counts among the requests.                               *)
CountedPCs == Requesting \cup (Inside \ {"btrl"})

(***************************************************************************)
(* The request count follows the pc of the thread that moves.              *)
(***************************************************************************)
LEMMA CountedMoves ==
  ASSUME TypeOK, NEW t \in Thread, NEW to \in PCs,
         pc' = [pc EXCEPT ![t] = to]
  PROVE  /\ Cardinality(Counted) \in Nat /\ Cardinality(Counted') \in Nat
         /\ (pc[t] \in CountedPCs <=> to \in CountedPCs) => Counted' = Counted
         /\ pc[t] \notin CountedPCs /\ to \in CountedPCs
              => Cardinality(Counted') = Cardinality(Counted) + 1
         /\ pc[t] \in CountedPCs /\ to \notin CountedPCs
              => Cardinality(Counted') = Cardinality(Counted) - 1
<1>1. IsFiniteSet(Counted)
  BY ThreadAssumption, FS_Subset DEF Counted
<1>2. Cardinality(Counted) \in Nat /\ Cardinality(Counted') \in Nat
  <2>1. IsFiniteSet(Counted')
    BY ThreadAssumption, FS_Subset DEF Counted
  <2> QED BY <1>1, <2>1, FS_CardinalityType
<1>3. ASSUME pc[t] \in CountedPCs <=> to \in CountedPCs
      PROVE  Counted' = Counted
  BY <1>3 DEF TypeOK, Counted, CountedPCs
<1>4. ASSUME pc[t] \notin CountedPCs, to \in CountedPCs
      PROVE  Cardinality(Counted') = Cardinality(Counted) + 1
  <2>1. Counted' = Counted \cup {t} /\ t \notin Counted
    BY <1>4 DEF TypeOK, Counted, CountedPCs
  <2> QED BY <2>1, <1>1, FS_AddElement
<1>5. ASSUME pc[t] \in CountedPCs, to \notin CountedPCs
      PROVE  Cardinality(Counted') = Cardinality(Counted) - 1
  <2>1. Counted' = Counted \ {t} /\ t \in Counted
    BY <1>5 DEF TypeOK, Counted, CountedPCs
  <2> QED BY <2>1, <1>1, FS_RemoveElement
<1> QED BY <1>2, <1>3, <1>4, <1>5

-----------------------------------------------------------------------------
(***************************************************************************)
(* The words and the program counters keep their types, and bits 0-29      *)
(* count the requests: each needs the other, since a decl may not take the *)
(* count below zero.                                                       *)
(***************************************************************************)
THEOREM RequestsAreCounted == Spec => [](TypeOK /\ RequestsCounted)
<1> USE DEF SleepTypeOK, Chan, AllOps, PCs
<1>1. lwkt_serialize_init => TypeOK /\ RequestsCounted
  <2> SUFFICES ASSUME lwkt_serialize_init PROVE TypeOK /\ RequestsCounted
    OBVIOUS
  <2>1. TypeOK
    BY DEF lwkt_serialize_init, TypeOK, SleepInit
  <2>2. Counted = {}
    BY DEF lwkt_serialize_init, Counted, Requesting, Inside
  <2> QED BY <2>1, <2>2, FS_EmptySet DEF lwkt_serialize_init, RequestsCounted
<1>2. TypeOK /\ RequestsCounted /\ [Next]_vars => TypeOK' /\ RequestsCounted'
  <2> SUFFICES ASSUME TypeOK, RequestsCounted, [Next]_vars
               PROVE  TypeOK' /\ RequestsCounted'
    OBVIOUS
  <2> USE DEF TypeOK, RequestsCounted, Goto, Return, slzVars, sleepVars, ipiVars,
              CountedPCs, Requesting, Inside
  <2>1. ASSUME NEW t \in Thread, NEW o \in Ops, Call(t, o)
        PROVE  TypeOK' /\ RequestsCounted'
    BY <2>1, CountedMoves, OpsAssumption DEF Call
  <2>2. ASSUME NEW t \in Thread, Incl(t) PROVE TypeOK' /\ RequestsCounted'
    <3>1. /\ Cardinality(Counted) \in Nat /\ Cardinality(Counted') \in Nat
          /\ Cardinality(Counted') = Cardinality(Counted) + 1
      BY <2>2, CountedMoves DEF Incl
    <3> QED BY <3>1, <2>2 DEF Incl
  <2>3. ASSUME NEW t \in Thread, Acquire(t) PROVE TypeOK' /\ RequestsCounted'
    BY <2>3, CountedMoves DEF Acquire, Entered
  <2>4. ASSUME NEW t \in Thread, Contend(t) PROVE TypeOK' /\ RequestsCounted'
    BY <2>4, CountedMoves DEF Contend
  <2>5. ASSUME NEW t \in Thread, TryFail(t) PROVE TypeOK' /\ RequestsCounted'
    <3>1. /\ Cardinality(Counted) \in Nat /\ Cardinality(Counted') \in Nat
          /\ Cardinality(Counted') = Cardinality(Counted) - 1
      BY <2>5, CountedMoves DEF TryFail
    <3> QED BY <3>1, <2>5 DEF TryFail
  <2>6. ASSUME NEW t \in Thread, Backoff(t) PROVE TypeOK' /\ RequestsCounted'
    BY <2>6, CountedMoves DEF Backoff
  <2>7. ASSUME NEW t \in Thread, Interlock(t) PROVE TypeOK' /\ RequestsCounted'
    BY <2>7, CountedMoves DEF Interlock, tsleep_interlock
  <2>8. ASSUME NEW t \in Thread, Sleep(t) PROVE TypeOK' /\ RequestsCounted'
    BY <2>8, CountedMoves DEF Sleep, tsleep
  <2>9. ASSUME NEW t \in Thread, Retest(t) PROVE TypeOK' /\ RequestsCounted'
    BY <2>9, CountedMoves DEF Retest
  <2>10. ASSUME NEW t \in Thread, Wake(t) PROVE TypeOK' /\ RequestsCounted'
    BY <2>10, CountedMoves DEF Wake, tsleep_return
  <2>11. ASSUME NEW t \in Thread, Ipi(t) PROVE TypeOK' /\ RequestsCounted'
    BY <2>11 DEF Ipi, wakeup_ipi, Counted
  <2>12. ASSUME NEW t \in Thread, Recheck(t) PROVE TypeOK' /\ RequestsCounted'
    BY <2>12, CountedMoves DEF Recheck
  <2>13. ASSUME NEW t \in Thread, FuncDone(t) PROVE TypeOK' /\ RequestsCounted'
    BY <2>13, CountedMoves DEF FuncDone
  <2>14. ASSUME NEW t \in Thread, Exit(t) PROVE TypeOK' /\ RequestsCounted'
    BY <2>14, CountedMoves DEF Exit
  <2>15. ASSUME NEW t \in Thread, Decl(t) PROVE TypeOK' /\ RequestsCounted'
    <3>1. /\ Cardinality(Counted) \in Nat /\ Cardinality(Counted') \in Nat
          /\ Cardinality(Counted') = Cardinality(Counted) - 1
      BY <2>15, CountedMoves DEF Decl
    <3> QED BY <3>1, <2>15 DEF Decl
  <2>16. ASSUME NEW t \in Thread, Btrl(t) PROVE TypeOK' /\ RequestsCounted'
    BY <2>16, CountedMoves DEF Btrl
  <2>17. ASSUME NEW t \in Thread, Testl(t) PROVE TypeOK' /\ RequestsCounted'
    <3>1. Counted' = Counted
      BY <2>17, CountedMoves DEF Testl
    <3>2. CASE requests # 0
      BY <3>1, <3>2, <2>17 DEF Testl, wakeup
    <3>3. CASE requests = 0
      BY <3>1, <3>3, <2>17 DEF Testl
    <3> QED BY <3>2, <3>3
  <2>18. ASSUME NEW t \in Thread,
                \/ lwkt_serialize_handler_disable(t)
                \/ lwkt_serialize_handler_enable(t)
         PROVE  TypeOK' /\ RequestsCounted'
    BY <2>18 DEF lwkt_serialize_handler_disable, lwkt_serialize_handler_enable,
                 Counted
  <2>19. CASE UNCHANGED vars
    BY <2>19 DEF vars, Counted
  <2> QED BY <2>1, <2>2, <2>3, <2>4, <2>5, <2>6, <2>7, <2>8, <2>9, <2>10,
             <2>11, <2>12, <2>13, <2>14, <2>15, <2>16, <2>17, <2>18, <2>19
          DEF Next, Step
<1> QED BY <1>1, <1>2, PTL DEF Spec

(* What RequestsAreCounted says of the types alone: every program counter, *)
(* request count and sleep state stays in its range.                       *)
THEOREM SerializerTypes == Spec => []TypeOK
BY RequestsAreCounted, PTL

(***************************************************************************)
(* Two threads are never inside the serializer together.                   *)
(***************************************************************************)
THEOREM SerializerExcludes == Spec => []MutualExclusion
<1>1. lwkt_serialize_init => MutualExclusion
  BY DEF lwkt_serialize_init, MutualExclusion, Inside
<1>2. TypeOK /\ MutualExclusion /\ [Next]_vars => MutualExclusion'
  BY DEF TypeOK, PCs, MutualExclusion, Inside, Next, Step, vars, Goto, Return, slzVars, Call,
     Incl, Acquire, Entered, Contend, TryFail, Backoff, Interlock, Sleep, Retest, Wake,
     Ipi, Recheck, FuncDone, Exit, Decl, Btrl, Testl, lwkt_serialize_handler_disable,
     lwkt_serialize_handler_enable
<1> QED BY <1>1, <1>2, RequestsAreCounted, PTL DEF Spec

(***************************************************************************)
(* The recorded owner is the thread inside: no entry finds itself recorded *)
(* and no exit finds somebody else, so the ASSERT_*SERIALIZED of the code  *)
(* never fail.                                                             *)
(***************************************************************************)
THEOREM OwnerIsRecorded == Spec => []OwnerRecorded
<1>1. lwkt_serialize_init => OwnerRecorded
  BY NullAssumption DEF lwkt_serialize_init, OwnerRecorded, Inside
<1>2. TypeOK /\ MutualExclusion /\ OwnerRecorded /\ [Next]_vars => OwnerRecorded'
  <2> SUFFICES ASSUME TypeOK, MutualExclusion, OwnerRecorded, [Next]_vars
               PROVE  OwnerRecorded'
    OBVIOUS
  <2> USE DEF TypeOK, PCs, OwnerRecorded, Inside, Goto, Return, slzVars
  <2>1. ASSUME NEW t \in Thread, Acquire(t) PROVE OwnerRecorded'
    BY <2>1 DEF Acquire, Entered, MutualExclusion
  <2>2. ASSUME NEW t \in Thread, Decl(t) PROVE OwnerRecorded'
    BY <2>2, NullAssumption DEF Decl, MutualExclusion
  <2>3. ASSUME NEW t \in Thread, \E o \in Ops : Call(t, o) PROVE OwnerRecorded'
    BY <2>3 DEF Call
  <2>4. ASSUME NEW t \in Thread, Step(t), ~Acquire(t), ~Decl(t)
        PROVE  OwnerRecorded'
    BY <2>4 DEF Step, Incl, Contend, TryFail, Interlock, Sleep, Retest, Wake,
                Recheck, FuncDone, Exit, Btrl, Testl
  <2>5. ASSUME NEW t \in Thread,
               \/ Backoff(t) \/ Ipi(t)
               \/ lwkt_serialize_handler_disable(t)
               \/ lwkt_serialize_handler_enable(t)
        PROVE  OwnerRecorded'
    BY <2>5 DEF Backoff, Ipi, lwkt_serialize_handler_disable,
                lwkt_serialize_handler_enable
  <2>6. CASE UNCHANGED vars
    BY <2>6 DEF vars
  <2> QED BY <2>1, <2>2, <2>3, <2>4, <2>5, <2>6 DEF Next
<1> QED BY <1>1, <1>2, RequestsAreCounted, SerializerExcludes, PTL DEF Spec

-----------------------------------------------------------------------------
(***************************************************************************)
(* A thread is descheduled only in lwkt_serialize_sleep(), and stays on    *)
(* the sleep queue until a wakeup takes it off.                            *)
(***************************************************************************)
SleepInv ==
  \A t \in Thread :
    /\ tdstate[t] # "run" => pc[t] = "asleep"
    /\ tdstate[t] = "asleep" => wchan[t] = "slz"

(* lwkt_serialize_sleep() is the only place where a thread sleeps.         *)
THEOREM SleepersQueued == Spec => []SleepInv
<1>1. lwkt_serialize_init => SleepInv
  BY DEF lwkt_serialize_init, SleepInit, SleepInv
<1>2. TypeOK /\ SleepInv /\ [Next]_vars => SleepInv'
  <2> SUFFICES ASSUME TypeOK, SleepInv, [Next]_vars PROVE SleepInv'
    OBVIOUS
  <2> USE ChanAssumption DEF TypeOK, SleepTypeOK, Chan, PCs, SleepInv, Goto, Return,
          slzVars, sleepVars, ipiVars
  <2>1. ASSUME NEW t \in Thread, Interlock(t) PROVE SleepInv'
    BY <2>1 DEF Interlock, tsleep_interlock
  <2>2. ASSUME NEW t \in Thread, Sleep(t) PROVE SleepInv'
    BY <2>2 DEF Sleep, tsleep
  <2>3. ASSUME NEW t \in Thread, Wake(t) PROVE SleepInv'
    BY <2>3 DEF Wake, tsleep_return
  <2>4. ASSUME NEW t \in Thread, Testl(t) PROVE SleepInv'
    <3>1. CASE requests # 0
      BY <2>4, <3>1 DEF Testl, wakeup
    <3>2. CASE requests = 0
      BY <2>4, <3>2 DEF Testl
    <3> QED BY <3>1, <3>2
  <2>5. ASSUME NEW t \in Thread, Ipi(t) PROVE SleepInv'
    BY <2>5 DEF Ipi, wakeup_ipi
  <2>6. ASSUME NEW t \in Thread, \E o \in Ops : Call(t, o) PROVE SleepInv'
    BY <2>6 DEF Call
  <2>7. ASSUME NEW t \in Thread, Step(t), ~Interlock(t), ~Sleep(t), ~Wake(t),
               ~Testl(t)
        PROVE  SleepInv'
    <3>1. /\ tdstate' = tdstate /\ wchan' = wchan /\ pc[t] # "asleep"
          /\ \A u \in Thread : u # t => pc'[u] = pc[u]
      BY <2>7 DEF Step, Incl, Acquire, Contend, TryFail, Retest,
                  Recheck, FuncDone, Exit, Decl, Btrl
    <3> QED BY <3>1
  <2>8. ASSUME NEW t \in Thread,
               \/ Backoff(t)
               \/ lwkt_serialize_handler_disable(t)
               \/ lwkt_serialize_handler_enable(t)
        PROVE  SleepInv'
    BY <2>8 DEF Backoff, lwkt_serialize_handler_disable,
                lwkt_serialize_handler_enable
  <2>9. CASE UNCHANGED vars
    BY <2>9 DEF vars
  <2> QED BY <2>1, <2>2, <2>3, <2>4, <2>5, <2>6, <2>7, <2>8, <2>9 DEF Next
<1> QED BY <1>1, <1>2, RequestsAreCounted, PTL DEF Spec

(***************************************************************************)
(* The strengthening of NoLostWakeup that is inductive: it holds already   *)
(* of a thread that has seen the lock held, is still on the sleep queue    *)
(* and is on its way into tsleep().                                        *)
(***************************************************************************)
AboutToSleep(t) == pc[t] = "tsleep" /\ wchan[t] = "slz"

WakeupComing ==
  \A t \in Thread : AboutToSleep(t) \/ tdstate[t] = "asleep" =>
    \/ <<t, "slz">> \in ipiq
    \/ \E u \in Thread : pc[u] \in Inside \cup {"testl"}

(***************************************************************************)
(* No wakeup is lost: somebody who will test the request count is inside   *)
(* as long as anybody sleeps without a wakeup on its way.  The exit that   *)
(* sees a zero count has no sleeper to wake because sleepers are counted.  *)
(***************************************************************************)
THEOREM WakeupsNotLost == Spec => []NoLostWakeup
<1>1. lwkt_serialize_init => WakeupComing
  BY DEF lwkt_serialize_init, SleepInit, WakeupComing, AboutToSleep
<1>2. TypeOK /\ RequestsCounted /\ MutualExclusion /\ SleepInv /\ WakeupComing
        /\ [Next]_vars => WakeupComing'
  <2> SUFFICES ASSUME TypeOK, RequestsCounted, MutualExclusion, SleepInv,
                      WakeupComing, [Next]_vars
               PROVE  WakeupComing'
    OBVIOUS
  <2> USE ChanAssumption DEF TypeOK, SleepTypeOK, Chan, PCs, WakeupComing,
          AboutToSleep, Goto, Return, slzVars, sleepVars, ipiVars, Inside
  <2>1. ASSUME NEW t \in Thread, Retest(t) PROVE WakeupComing'
    <3>1. CASE running
      <4>1. PICK u \in Thread : pc[u] \in Inside
        BY <3>1 DEF MutualExclusion
      <4>2. pc'[u] \in Inside
        BY <2>1, <4>1 DEF Retest
      <4> QED BY <4>2
    <3>2. CASE ~running
      BY <2>1, <3>2 DEF Retest
    <3> QED BY <3>1, <3>2
  <2>2. ASSUME NEW t \in Thread, Testl(t) PROVE WakeupComing'
    <3>1. CASE requests # 0
      <4> SUFFICES ASSUME NEW u \in Thread,
                          AboutToSleep(u)' \/ tdstate'[u] = "asleep"
                   PROVE  <<u, "slz">> \in ipiq'
        OBVIOUS
      <4>1. wchan[u] = "slz" /\ u # t
        <5>1. tdstate' = tdstate /\ pc[t] = "testl" /\ pc'[t] = "idle"
          BY <2>2, <3>1 DEF Testl, wakeup
        <5>2. u # t
          BY <5>1 DEF SleepInv
        <5>3. wchan'[u] = wchan[u]
          BY <2>2, <3>1, <5>2 DEF Testl, wakeup
        <5> QED BY <5>1, <5>2, <5>3 DEF SleepInv
      <4> QED BY <4>1, <2>2, <3>1 DEF Testl, wakeup
    <3>2. CASE requests = 0
      <4>1. Counted = {}
        <5>1. IsFiniteSet(Counted)
          BY ThreadAssumption, FS_Subset DEF Counted
        <5> QED BY <3>2, <5>1, FS_EmptySet DEF RequestsCounted
      <4>2. \A u \in Thread : pc[u] # "tsleep" /\ tdstate[u] # "asleep"
        <5>1. \A u \in Thread : pc[u] \notin {"tsleep", "asleep"}
          BY <4>1 DEF Counted, Requesting
        <5> QED BY <5>1 DEF SleepInv
      <4> QED BY <4>2, <3>2, <2>2 DEF Testl
    <3> QED BY <3>1, <3>2
  <2>3. ASSUME NEW t \in Thread, Ipi(t) PROVE WakeupComing'
    <3>1. tdstate[t] = "asleep" => wchan[t] = "slz"
      BY DEF SleepInv
    <3>2. /\ pc' = pc /\ ipiq' \in {ipiq, ipiq \ {<<t, "slz">>}}
          /\ tdstate'[t] # "asleep" /\ wchan'[t] # "slz"
          /\ \A u \in Thread : tdstate'[u] = "asleep" => tdstate[u] = "asleep"
          /\ \A u \in Thread : wchan'[u] = "slz" => wchan[u] = "slz"
      BY <2>3, <3>1 DEF Ipi, wakeup_ipi
    <3> QED BY <3>2
  <2>4. ASSUME NEW t \in Thread, Sleep(t) PROVE WakeupComing'
    <3>1. /\ tdstate'[t] = "asleep" => AboutToSleep(t)
          /\ pc'[t] = "asleep" /\ ipiq' = ipiq /\ pc[t] = "tsleep"
          /\ \A u \in Thread : u # t => pc'[u] = pc[u]
          /\ \A u \in Thread :
               u # t => tdstate'[u] = tdstate[u] /\ wchan'[u] = wchan[u]
      BY <2>4 DEF Sleep, tsleep
    <3> QED BY <3>1
  <2>5. ASSUME NEW t \in Thread, Interlock(t) \/ Wake(t) PROVE WakeupComing'
    <3>1. /\ tdstate'[t] = "asleep" => tdstate[t] = "asleep"
          /\ ipiq' = ipiq /\ pc[t] \in {"interlock", "asleep"} /\ pc'[t] # "tsleep"
          /\ \A u \in Thread : u # t => pc'[u] = pc[u]
          /\ \A u \in Thread :
               u # t => tdstate'[u] = tdstate[u] /\ wchan'[u] = wchan[u]
      BY <2>5 DEF Interlock, Wake, tsleep_interlock, tsleep_return
    <3> QED BY <3>1
  <2>6. ASSUME NEW t \in Thread, \E o \in Ops : Call(t, o) PROVE WakeupComing'
    BY <2>6 DEF Call
  <2>7. ASSUME NEW t \in Thread, Step(t), ~Retest(t), ~Sleep(t), ~Testl(t),
               ~Interlock(t), ~Wake(t)
        PROVE  WakeupComing'
    <3>1. /\ tdstate' = tdstate /\ ipiq' = ipiq /\ wchan' = wchan
          /\ pc[t] \in Inside => pc'[t] \in Inside \cup {"testl"}
          /\ pc[t] # "testl" /\ pc'[t] # "tsleep"
          /\ \A u \in Thread : u # t => pc'[u] = pc[u]
      BY <2>7 DEF Step, Incl, Acquire, Entered, Contend, TryFail,
                  Recheck, FuncDone, Exit, Decl, Btrl
    <3> QED BY <3>1
  <2>8. ASSUME NEW t \in Thread,
               \/ Backoff(t)
               \/ lwkt_serialize_handler_disable(t)
               \/ lwkt_serialize_handler_enable(t)
        PROVE  WakeupComing'
    BY <2>8 DEF Backoff, lwkt_serialize_handler_disable,
                lwkt_serialize_handler_enable
  <2>9. CASE UNCHANGED vars
    BY <2>9 DEF vars
  <2> QED BY <2>1, <2>2, <2>3, <2>4, <2>5, <2>6, <2>7, <2>8, <2>9 DEF Next
<1>3. WakeupComing => NoLostWakeup
  BY DEF WakeupComing, NoLostWakeup
<1> QED BY <1>1, <1>2, <1>3, RequestsAreCounted, SerializerExcludes,
           SleepersQueued, PTL DEF Spec

(***************************************************************************)
(* A disabled handler does not run from lwkt_serialize_handler_call(),     *)
(* which looks at the disablement bit a second time inside the serializer. *)
(***************************************************************************)
THEOREM DisabledHandlersQuiet == Spec => []DisabledHandlerQuiet
<1>1. lwkt_serialize_init => DisabledHandlerQuiet
  BY DEF lwkt_serialize_init, DisabledHandlerQuiet
<1>2. TypeOK /\ MutualExclusion /\ DisabledHandlerQuiet /\ [Next]_vars
        => DisabledHandlerQuiet'
  <2> SUFFICES ASSUME TypeOK, MutualExclusion, DisabledHandlerQuiet, [Next]_vars
               PROVE  DisabledHandlerQuiet'
    OBVIOUS
  <2> USE DEF TypeOK, PCs, DisabledHandlerQuiet, Goto, Return, slzVars, Inside
  <2>1. ASSUME NEW t \in Thread, NEW o \in Ops, Call(t, o)
        PROVE  DisabledHandlerQuiet'
    BY <2>1 DEF Call
  <2>2. ASSUME NEW t \in Thread,
               \/ lwkt_serialize_handler_disable(t)
               \/ lwkt_serialize_handler_enable(t)
        PROVE  DisabledHandlerQuiet'
    BY <2>2 DEF lwkt_serialize_handler_disable, lwkt_serialize_handler_enable,
                MutualExclusion
  <2>3. ASSUME NEW t \in Thread, Step(t) \/ Backoff(t)
        PROVE  DisabledHandlerQuiet'
    BY <2>3 DEF Step, Backoff, Incl, Acquire, Entered, Contend, TryFail, Interlock,
                Sleep, Retest, Wake, Recheck, FuncDone, Exit, Decl, Btrl, Testl
  <2>4. ASSUME NEW t \in Thread, Ipi(t) PROVE DisabledHandlerQuiet'
    BY <2>4 DEF Ipi
  <2>5. CASE UNCHANGED vars
    BY <2>5 DEF vars
  <2> QED BY <2>1, <2>2, <2>3, <2>4, <2>5 DEF Next
<1> QED BY <1>1, <1>2, RequestsAreCounted, SerializerExcludes, PTL DEF Spec

-----------------------------------------------------------------------------
(***************************************************************************)
(* The serializer implements the lock of LockSpec, its safety part: every  *)
(* step of every thread is a step of the abstract lock or changes nothing  *)
(* there.  That btsl grants, and that a try is refused only against a      *)
(* holder, rest on bit 31 being true exactly while a thread is inside.     *)
(***************************************************************************)
THEOREM SerializerImplementsLock == Spec => ImplementsLock
<1> DEFINE st == [t \in Thread |-> Standing(pc[t])]
<1>1. lwkt_serialize_init => Lock!LockInit
  BY DEF lwkt_serialize_init, Lock!LockInit, Standing, Inside, Requesting
<1>2. TypeOK /\ MutualExclusion /\ [Next]_vars => [Lock!LockNext]_st
  <2> SUFFICES ASSUME TypeOK, MutualExclusion, [Next]_vars
               PROVE  Lock!LockNext \/ st' = st
    OBVIOUS
  <2>h. Lock!Held <=> running
    BY DEF MutualExclusion, Lock!Held, Standing
  <2>m. ASSUME NEW t \in Thread, NEW to \in PCs, pc' = [pc EXCEPT ![t] = to]
        PROVE  /\ Lock!Move(t, Standing(pc[t]), Standing(to))
               /\ Standing(pc[t]) = Standing(to) => st' = st
    BY <2>m DEF TypeOK, Lock!Move
  <2>p. ASSUME NEW p \in PCs
        PROVE  /\ p \in Inside => Standing(p) = "in"
               /\ p = "decl_try" => Standing(p) = "refused"
               /\ p \in Requesting \ {"decl_try"} => Standing(p) = "asking"
               /\ p \in {"idle", "incl", "testl"} => Standing(p) = "out"
    BY <2>p DEF Standing, Inside, Requesting
  <2> HIDE DEF st
  <2> USE DEF TypeOK, PCs, Inside, Requesting
  <2>1. ASSUME NEW t \in Thread, Incl(t) PROVE Lock!Ask(t)
    BY <2>1, <2>m, <2>p DEF Incl, Goto, Lock!Ask
  <2>2. ASSUME NEW t \in Thread, Acquire(t) PROVE Lock!Grant(t)
    <3>1. PICK to \in {"recheck", "func", "owned"} : pc' = [pc EXCEPT ![t] = to]
      BY <2>2 DEF Acquire, Entered, Goto
    <3> QED BY <2>2, <3>1, <2>m, <2>p, <2>h DEF Acquire, Goto, Lock!Grant
  <2>3. ASSUME NEW t \in Thread, Contend(t) PROVE Lock!Refuse(t) \/ st' = st
    <3>1. \/ pc' = [pc EXCEPT ![t] = "decl_try"]
          \/ pc' = [pc EXCEPT ![t] = "interlock"]
      BY <2>3 DEF Contend, Goto
    <3> QED BY <2>3, <3>1, <2>m, <2>p, <2>h DEF Contend, Goto, Lock!Refuse
  <2>4. ASSUME NEW t \in Thread, TryFail(t) PROVE Lock!Withdraw(t)
    BY <2>4, <2>m, <2>p DEF TryFail, Return, Goto, Lock!Withdraw
  <2>5. ASSUME NEW t \in Thread, Btrl(t) PROVE Lock!Release(t)
    BY <2>5, <2>m, <2>p DEF Btrl, Goto, Lock!Release
  <2>6. ASSUME NEW t \in Thread,
               \/ \E o \in Ops : Call(t, o)
               \/ Backoff(t) \/ Interlock(t) \/ Sleep(t) \/ Wake(t)
               \/ FuncDone(t) \/ Exit(t) \/ Decl(t) \/ Testl(t)
        PROVE  st' = st
    BY <2>6, <2>m, <2>p DEF Call, Backoff, Interlock, Sleep, Wake, FuncDone, Exit,
                            Decl, Testl, Return, Goto
  <2>7. ASSUME NEW t \in Thread, Retest(t) \/ Recheck(t) PROVE st' = st
    <3>1. \/ pc[t] = "retest" /\ \/ pc' = [pc EXCEPT ![t] = "tsleep"]
                                 \/ pc' = [pc EXCEPT ![t] = "btsl"]
          \/ pc[t] = "recheck" /\ \/ pc' = [pc EXCEPT ![t] = "decl"]
                                  \/ pc' = [pc EXCEPT ![t] = "func"]
      BY <2>7 DEF Retest, Recheck, Goto
    <3> QED BY <3>1, <2>m, <2>p
  <2>8. ASSUME pc' = pc PROVE st' = st
    BY <2>8 DEF st
  <2>9. ASSUME NEW t \in Thread,
               \/ Ipi(t)
               \/ lwkt_serialize_handler_disable(t)
               \/ lwkt_serialize_handler_enable(t)
        PROVE  st' = st
    BY <2>8, <2>9 DEF Ipi, lwkt_serialize_handler_disable,
                      lwkt_serialize_handler_enable
  <2>10. CASE UNCHANGED vars
    BY <2>8, <2>10 DEF vars
  <2> QED
    BY <2>1, <2>2, <2>3, <2>4, <2>5, <2>6, <2>7, <2>9, <2>10
    DEF Next, Step, Lock!LockNext
<1> QED
  BY <1>1, <1>2, RequestsAreCounted, SerializerExcludes, PTL
  DEF Spec, ImplementsLock, Lock!LockSafe
=============================================================================
