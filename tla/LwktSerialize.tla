---------------------------- MODULE LwktSerialize ----------------------------
(***************************************************************************)
(* The LWKT serializer (sys/kern/lwkt_serialize.c): a non-recursive lock   *)
(* that is held across blocking, with an interrupt-handler disablement     *)
(* bit.  One 32 bit word carries the lock (bit 31), the disablement (bit   *)
(* 30) and a count of the threads that hold or request it (bits 0-29).     *)
(* The word is only changed by the bus-locked instructions of              *)
(* atomic_intr_cond_*() (sys/cpu/x86_64/include/atomic.h), one action      *)
(* each, so the three instructions of an exit are three steps.             *)
(***************************************************************************)
EXTENDS Tsleep, FiniteSets

CONSTANTS
  Ops     \* the entry points the threads call

AllOps == {"enter", "adaptive", "try", "handler_call", "handler_try",
           "handler_disable", "handler_enable"}

ASSUME OpsAssumption == Ops \subseteq AllOps
ASSUME ThreadAssumption == IsFiniteSet(Thread)

VARIABLES
  running,    \* bit 31
  disabled,   \* bit 30
  requests,   \* bits 0-29
  last_td,    \* the owner, as INVARIANTS kernels record it
  pc,         \* where each thread is
  op          \* the entry point it is in, "enter" between calls

slzVars == <<running, disabled, requests, last_td>>
vars == <<running, disabled, requests, last_td, pc, op, sleepVars>>

Chan == {"slz"}       \* the serializer's address, its only wait channel

ASSUME ChanAssumption == NULL \notin Chan

PCs == {"idle", "incl", "btsl", "decl_try", "interlock", "retest", "tsleep",
        "asleep", "recheck", "func", "owned", "decl", "btrl", "testl"}

TypeOK ==
  /\ running \in BOOLEAN
  /\ disabled \in BOOLEAN
  /\ requests \in Nat
  /\ last_td \in Thread \cup {NULL}
  /\ pc \in [Thread -> PCs]
  /\ op \in [Thread -> AllOps]
  /\ SleepTypeOK(Chan)

lwkt_serialize_init ==
  /\ running = FALSE
  /\ disabled = FALSE
  /\ requests = 0
  /\ last_td = NULL
  /\ pc = [t \in Thread |-> "idle"]
  /\ op = [t \in Thread |-> "enter"]
  /\ SleepInit

Goto(t, from, to) ==
  /\ pc[t] = from
  /\ pc' = [pc EXCEPT ![t] = to]

Return(t, from) ==
  /\ Goto(t, from, "idle")
  /\ op' = [op EXCEPT ![t] = "enter"]

-----------------------------------------------------------------------------
(* Entering.                                                               *)

(***************************************************************************)
(* A thread calls an entry point.  An interrupt handler is only considered *)
(* when it is enabled; the others assert that the caller is not inside.    *)
(***************************************************************************)
Call(t, o) ==
  /\ o \in Ops \cap {"enter", "adaptive", "try", "handler_call", "handler_try"}
  /\ o \in {"handler_call", "handler_try"} => ~disabled
  /\ Goto(t, "idle", "incl")
  /\ op' = [op EXCEPT ![t] = o]
  /\ UNCHANGED <<slzVars, sleepVars>>

(* lock incl: announce the request.                                        *)
Incl(t) ==
  /\ Goto(t, "incl", "btsl")
  /\ requests' = requests + 1
  /\ UNCHANGED <<running, disabled, last_td, op, sleepVars>>

(* Where a thread goes once it has the serializer.                         *)
Entered(t) ==
  IF op[t] = "handler_call" THEN "recheck"
  ELSE IF op[t] = "handler_try" THEN "func" ELSE "owned"

(* Slip: enter without testing the lock bit.                               *)
Acquire_Untested(t) ==
  /\ Goto(t, "btsl", Entered(t))
  /\ running' = TRUE
  /\ last_td' = t
  /\ UNCHANGED <<disabled, requests, op, sleepVars>>

(* lock btsl succeeds: the caller is in and is recorded as the owner.      *)
Acquire(t) ==
  /\ ~running
  /\ Goto(t, "btsl", Entered(t))
  /\ running' = TRUE
  /\ last_td' = t
  /\ UNCHANGED <<disabled, requests, op, sleepVars>>

(* Slip: a failure is taken from the whole word, requests included.        *)
Contend_AnyRequest(t) ==
  /\ running \/ requests > 1
  /\ Goto(t, "btsl",
          IF op[t] \in {"try", "handler_try"} THEN "decl_try" ELSE "interlock")
  /\ UNCHANGED <<slzVars, op, sleepVars>>

(* lock btsl fails: a try backs out, the others call their sleep function. *)
Contend(t) ==
  /\ running
  /\ Goto(t, "btsl",
          IF op[t] \in {"try", "handler_try"} THEN "decl_try" ELSE "interlock")
  /\ UNCHANGED <<slzVars, op, sleepVars>>

(* Slip: a failed try withdraws its request twice, or not at all.          *)
TryFail_Twice(t) ==
  /\ Return(t, "decl_try")
  /\ requests' = requests - 2
  /\ UNCHANGED <<running, disabled, last_td, sleepVars>>

TryFail_Leak(t) ==
  /\ Return(t, "decl_try")
  /\ UNCHANGED <<slzVars, sleepVars>>

(* atomic_intr_cond_try() withdraws its request.                           *)
TryFail(t) ==
  /\ Return(t, "decl_try")
  /\ requests' = requests - 1
  /\ UNCHANGED <<running, disabled, last_td, sleepVars>>

(* lwkt_serialize_adaptive_sleep() returns from a backoff round.           *)
Backoff(t) ==
  /\ op[t] = "adaptive"
  /\ Goto(t, "interlock", "btsl")
  /\ UNCHANGED <<slzVars, op, sleepVars>>

(* lwkt_serialize_sleep() queues itself before it looks at the lock again. *)
Interlock(t) ==
  /\ Goto(t, "interlock", "retest")
  /\ tsleep_interlock(t, "slz")
  /\ UNCHANGED <<slzVars, op>>

(* Slip: sleep without looking at the lock again.                          *)
Retest_Skipped(t) ==
  /\ Goto(t, "retest", "tsleep")
  /\ UNCHANGED <<slzVars, op, sleepVars>>

(* atomic_intr_cond_test(): released meanwhile, so try again without       *)
(* sleeping, still on the sleep queue.                                     *)
Retest(t) ==
  /\ Goto(t, "retest", IF running THEN "tsleep" ELSE "btsl")
  /\ UNCHANGED <<slzVars, op, sleepVars>>

(* Slip: PINTERLOCKED forgotten, so the thread queues itself again.        *)
Sleep_Requeued(t) ==
  /\ Goto(t, "tsleep", "asleep")
  /\ tsleep(t, "slz", {})
  /\ UNCHANGED <<slzVars, op>>

(* Sleep, unless a wakeup has come since the interlock.                    *)
Sleep(t) ==
  /\ Goto(t, "tsleep", "asleep")
  /\ tsleep(t, "slz", {"PINTERLOCKED"})
  /\ UNCHANGED <<slzVars, op>>

Wake(t) ==
  /\ Goto(t, "asleep", "btsl")
  /\ tsleep_return(t)
  /\ UNCHANGED <<slzVars, op>>

(* Another cpu's wakeup reaches t's cpu.                                   *)
Ipi(t) ==
  /\ wakeup_ipi(t, "slz")
  /\ UNCHANGED <<slzVars, pc, op>>

-----------------------------------------------------------------------------
(* Inside.                                                                 *)

(* Slip: the handler runs on the strength of the first, unlocked look.     *)
Recheck_Skipped(t) ==
  /\ Goto(t, "recheck", "func")
  /\ UNCHANGED <<slzVars, op, sleepVars>>

(* lwkt_serialize_handler_call() looks at the disablement bit again.       *)
Recheck(t) ==
  /\ Goto(t, "recheck", IF disabled THEN "decl" ELSE "func")
  /\ UNCHANGED <<slzVars, op, sleepVars>>

(* The interrupt handler has returned.                                     *)
FuncDone(t) ==
  /\ Goto(t, "func", "decl")
  /\ UNCHANGED <<slzVars, op, sleepVars>>

(* A driver disables its handler, inside the serializer.  A handler that   *)
(* disables itself while it runs (bce_intr() by way of bce_init()) is left *)
(* out: it ends its run with the bit set, as its driver wants.             *)
lwkt_serialize_handler_disable(t) ==
  /\ "handler_disable" \in Ops
  /\ pc[t] = "owned"
  /\ disabled' = TRUE
  /\ UNCHANGED <<running, requests, last_td, pc, op, sleepVars>>

lwkt_serialize_handler_enable(t) ==
  /\ "handler_enable" \in Ops
  /\ pc[t] = "owned"
  /\ disabled' = FALSE
  /\ UNCHANGED <<running, requests, last_td, pc, op, sleepVars>>

(* lwkt_serialize_exit() is called by the owner.                           *)
Exit(t) ==
  /\ Goto(t, "owned", "decl")
  /\ UNCHANGED <<slzVars, op, sleepVars>>

-----------------------------------------------------------------------------
(* Leaving: atomic_intr_cond_exit().                                       *)

(* Slip: the owner is not forgotten.                                       *)
Decl_KeepOwner(t) ==
  /\ Goto(t, "decl", "btrl")
  /\ requests' = requests - 1
  /\ UNCHANGED <<running, disabled, last_td, op, sleepVars>>

(* Forget the owner, then lock decl.                                       *)
Decl(t) ==
  /\ Goto(t, "decl", "btrl")
  /\ requests' = requests - 1
  /\ last_td' = NULL
  /\ UNCHANGED <<running, disabled, op, sleepVars>>

(* lock btrl: release.                                                     *)
Btrl(t) ==
  /\ Goto(t, "btrl", "testl")
  /\ running' = FALSE
  /\ UNCHANGED <<disabled, requests, last_td, op, sleepVars>>

(* testl: wake the sleepers if anybody still requests the serializer.      *)
Testl(t) ==
  /\ Return(t, "testl")
  /\ IF requests # 0 THEN wakeup(t, "slz") ELSE UNCHANGED sleepVars
  /\ UNCHANGED slzVars

-----------------------------------------------------------------------------
(* What a thread does once it is called; these steps do not wait.          *)
Step(t) ==
  \/ Incl(t) \/ Acquire(t) \/ Contend(t) \/ TryFail(t)
  \/ Interlock(t) \/ Retest(t) \/ Sleep(t) \/ Wake(t)
  \/ Recheck(t) \/ FuncDone(t) \/ Exit(t)
  \/ Decl(t) \/ Btrl(t) \/ Testl(t)

Next ==
  \E t \in Thread :
    \/ \E o \in Ops : Call(t, o)
    \/ Step(t)
    \/ Backoff(t)
    \/ Ipi(t)
    \/ lwkt_serialize_handler_disable(t)
    \/ lwkt_serialize_handler_enable(t)

Spec == lwkt_serialize_init /\ [][Next]_vars

(***************************************************************************)
(* The cpus keep executing, IPIs are delivered, an owner leaves.  Nothing  *)
(* is assumed of the callers (Call, handler_disable, handler_enable) or of *)
(* how often an adaptive enter backs off before it sleeps.                 *)
(***************************************************************************)
FairSpec == Spec /\ \A t \in Thread : WF_vars(Step(t)) /\ WF_vars(Ipi(t))

-----------------------------------------------------------------------------
(* Properties.                                                             *)

Inside == {"recheck", "func", "owned", "decl", "btrl"}
Requesting == {"btsl", "decl_try", "interlock", "retest", "tsleep", "asleep"}

(***************************************************************************)
(* At most one thread is between a successful btsl and its btrl, and bit   *)
(* 31 says whether there is one.                                           *)
(***************************************************************************)
MutualExclusion ==
  /\ \A t, u \in Thread : pc[t] \in Inside /\ pc[u] \in Inside => t = u
  /\ running <=> \E t \in Thread : pc[t] \in Inside

(***************************************************************************)
(* ASSERT_NOT_SERIALIZED on the way in and ASSERT_SERIALIZED on the way    *)
(* out (lwkt_serialize.c:139,153,171,188,231,263): last_td is the thread   *)
(* that is inside and nobody else.                                         *)
(***************************************************************************)
OwnerRecorded ==
  \A t \in Thread : last_td = t <=> pc[t] \in Inside \ {"btrl"}

(***************************************************************************)
(* Bits 0-29 count exactly the threads that hold or request the            *)
(* serializer, so they cannot run into bit 30 and an exit never misses a   *)
(* request (lwkt_serialize.c:193, the testl of atomic_intr_cond_exit).     *)
(***************************************************************************)
Counted == {t \in Thread : pc[t] \in Requesting \cup (Inside \ {"btrl"})}
RequestsCounted == requests = Cardinality(Counted)

(***************************************************************************)
(* No lost wakeup: a thread asleep on the serializer has it held by        *)
(* somebody who will look at the request count, or a wakeup is on its way  *)
(* (the race described at lwkt_serialize.c:281-284).                       *)
(***************************************************************************)
NoLostWakeup ==
  \A t \in Thread : tdstate[t] = "asleep" =>
    \/ <<t, "slz">> \in ipiq
    \/ \E u \in Thread : pc[u] \in Inside \cup {"testl"}

(***************************************************************************)
(* A handler that another thread disabled in the serializer does not run   *)
(* (lwkt_serialize.c:197-199, "Interrupt handler disablement support"):    *)
(* lwkt_serialize_handler_call() holds the serializer when it decides.     *)
(* lwkt_serialize_handler_try() decides before it holds it, and only then, *)
(* so the same cannot be said of it.                                       *)
(***************************************************************************)
DisabledHandlerQuiet ==
  \A t \in Thread : pc[t] = "func" /\ op[t] = "handler_call" => ~disabled

(* A thread that sleeps on the serializer is woken (lwkt_serialize.c:294). *)
SleepersWoken ==
  \A t \in Thread : tdstate[t] = "asleep" ~> tdstate[t] # "asleep"

-----------------------------------------------------------------------------
(* The serializer implements a lock.                                       *)

(* A request is made by incl and stands until btsl succeeds or decl.       *)
Standing(p) ==
  IF p \in Inside THEN "in"
  ELSE IF p = "decl_try" THEN "refused"
  ELSE IF p \in Requesting THEN "asking" ELSE "out"

Lock == INSTANCE LockSpec WITH Caller <- Thread,
                               st <- [t \in Thread |-> Standing(pc[t])]

(***************************************************************************)
(* The serializer implements LockSpec: callers are in one at a time, each  *)
(* by a request of its own, and lwkt_serialize_try() is refused only while *)
(* another thread is in (lwkt_serialize.c:163-183).                        *)
(***************************************************************************)
ImplementsLock == Lock!LockSafe

(* Threads that ask for a serializer nobody holds do not wait for it       *)
(* forever, asleep or not: one of them gets it (lwkt_serialize.c:281-294). *)
FreeLockGranted == Lock!LockGranted
=============================================================================
