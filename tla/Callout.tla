------------------------------- MODULE Callout -------------------------------
(***************************************************************************)
(* Callouts (sys/kern/kern_timeout.c).  Each cpu has a wheel of buckets, a *)
(* clock interrupt that counts curticks, and a softclock thread that walks *)
(* the buckets from softticks to curticks and calls what has expired.  A   *)
(* callout is armed on the wheel of the cpu that resets it and is only     *)
(* touched there: another cpu stops it with an IPI and waits.              *)
(*                                                                         *)
(* What a cpu does inside a critical section is one step.  The softclock   *)
(* thread leaves its critical section for the callback and while it waits  *)
(* for the MP lock; a cpu that waits for an IPI runs nothing but IPIs.     *)
(* Calls on one callout are serialized by its client, as the source asks,  *)
(* and so are those of the callback, which blocks meanwhile; a client that *)
(* sleeps in stop_sync or terminate lets the callback go on.               *)
(***************************************************************************)
EXTENDS Tailq

CONSTANTS
  Cpu,
  Callout,
  NULL,
  MpSafe,      \* the callouts initialized by callout_init_mp()
  Home,        \* for each callout, the cpus that its client resets it on
  Ops,         \* what clients and callbacks call
  WheelSize,   \* callwheelsize
  TickRange,   \* bound: the counters are ints modulo this instead of 2^32
  MaxTicks,    \* bound: the longest timeout
  MaxLag       \* bound: how far softticks may fall behind curticks

AllOps == {"reset", "stop", "stop_sync", "terminate", "rearm", "deactivate"}

ASSUME CalloutAssumption ==
  /\ NULL \notin Callout \cup Cpu
  /\ MpSafe \subseteq Callout
  /\ Home \in [Callout -> SUBSET Cpu]
  /\ Ops \subseteq AllOps
ASSUME TickAssumption ==
  /\ WheelSize \in Nat \ {0} /\ MaxTicks \in Nat \ {0} /\ MaxLag \in Nat \ {0}
  /\ TickRange \in Nat /\ TickRange % WheelSize = 0
  /\ MaxTicks + MaxLag + 1 < TickRange

VARIABLES
  c_flags,     \* the set of CALLOUT_ACTIVE, _PENDING and _DID_INIT
  c_time,
  c_gd,        \* the cpu whose wheel it was last on
  wheel,       \* callwheel: the buckets of each cpu
  next,        \* sc->next: where the softclock's scan goes on
  running,     \* sc->running
  softticks,
  curticks,
  isrunning,
  pc,          \* the softclock thread
  scan,        \* its local c while it waits for the MP lock
  mp,          \* it has taken the MP lock (its local mpsafe is 0)
  op,          \* the client of each callout: what it is in, and how far
  opcpu,       \* the cpu its call runs on
  stopcpu,     \* the cpu that runs callout_stop() for it or whose sc it watches
  optick       \* the timeout of its reset

calloutVars == <<c_flags, c_time, c_gd>>
clockVars == <<softticks, curticks, isrunning>>
softVars == <<pc, scan, mp, running>>
opVars == <<op, opcpu, stopcpu, optick>>
vars == <<calloutVars, wheel, next, clockVars, softVars, opVars>>

Tick == 0 .. TickRange - 1
Bucket == 0 .. WheelSize - 1

(* Where a client is in a call: the call's name and the step in it.        *)
OpState ==
  {<<"none", "idle">>} \cup
  {"reset", "stop", "stop_sync", "terminate"} \X {"ipi", "stopped"} \cup
  {"stop_sync", "terminate"} \X {"wait", "check"} \cup {<<"terminate", "panic">>}

TypeOK ==
  /\ c_flags \in [Callout -> SUBSET {"ACTIVE", "PENDING", "DID_INIT"}]
  /\ c_time \in [Callout -> Tick]
  /\ c_gd \in [Callout -> Cpu \cup {NULL}]
  /\ wheel \in [Cpu -> [Bucket -> Seq(Callout)]]
  /\ next \in [Cpu -> Callout \cup {NULL}]
  /\ running \in [Cpu -> Callout \cup {NULL}]
  /\ softticks \in [Cpu -> Tick] /\ curticks \in [Cpu -> Tick]
  /\ isrunning \in [Cpu -> BOOLEAN]
  /\ pc \in [Cpu -> {"off", "bucket", "mplock", "func"}]
  /\ scan \in [Cpu -> Callout \cup {NULL}]
  /\ mp \in [Cpu -> BOOLEAN]
  /\ op \in [Callout -> OpState]
  /\ opcpu \in [Callout -> Cpu \cup {NULL}]
  /\ stopcpu \in [Callout -> Cpu \cup {NULL}]
  /\ optick \in [Callout -> 0 .. MaxTicks]

swi_softclock_setup ==
  /\ c_flags = [c \in Callout |-> {"DID_INIT"}]
  /\ c_time = [c \in Callout |-> 0]
  /\ c_gd = [c \in Callout |-> NULL]
  /\ wheel = [p \in Cpu |-> [b \in Bucket |-> <<>>]]
  /\ next = [p \in Cpu |-> NULL]
  /\ running = [p \in Cpu |-> NULL]
  /\ softticks = [p \in Cpu |-> 0]
  /\ curticks = [p \in Cpu |-> 0]
  /\ isrunning = [p \in Cpu |-> FALSE]
  /\ pc = [p \in Cpu |-> "off"]
  /\ scan = [p \in Cpu |-> NULL]
  /\ mp = [p \in Cpu |-> FALSE]
  /\ op = [c \in Callout |-> <<"none", "idle">>]
  /\ opcpu = [c \in Callout |-> NULL]
  /\ stopcpu = [c \in Callout |-> NULL]
  /\ optick = [c \in Callout |-> 0]

Plus(t, n) == (t + n) % TickRange
Since(t, u) == (u - t) % TickRange       \* how long after t u is
BucketOf(p, t) == wheel[p][t % WheelSize]

(* s from the callout c on; nothing if that is NULL.                       *)
From(s, c) ==
  IF c = NULL THEN <<>>
  ELSE SubSeq(s, CHOOSE i \in 1 .. Len(s) : s[i] = c, Len(s))

(* p is in lwkt_wait_ipiq(), in a critical section, for a call on some     *)
(* callout.                                                                *)
Spinning(p) == \E c \in Callout : op[c][2] \in {"ipi", "stopped"} /\ opcpu[c] = p

-----------------------------------------------------------------------------
(* The clock interrupt.                                                    *)

(***************************************************************************)
(* Count the tick.  Unless the softclock thread is at work, wake it if the *)
(* bucket is not empty or if it has fallen behind.                         *)
(***************************************************************************)
hardclock_softtick(p) ==
  LET now == Plus(curticks[p], 1) IN
  /\ isrunning[p] => Since(softticks[p], now) <= MaxLag
  /\ curticks' = [curticks EXCEPT ![p] = now]
  /\ IF isrunning[p] THEN UNCHANGED <<softticks, isrunning, pc>>
     ELSE IF softticks[p] = now /\ BucketOf(p, now) = <<>>
     THEN /\ softticks' = [softticks EXCEPT ![p] = Plus(@, 1)]
          /\ UNCHANGED <<isrunning, pc>>
     ELSE /\ isrunning' = [isrunning EXCEPT ![p] = TRUE]
          /\ pc' = [pc EXCEPT ![p] = "bucket"]
          /\ UNCHANGED softticks
  /\ UNCHANGED <<calloutVars, wheel, next, running, scan, mp, opVars>>

-----------------------------------------------------------------------------
(* The softclock thread.                                                   *)

(* c is taken off its bucket and called, outside the critical section.     *)
Dispatch(p, c) ==
  LET b == softticks[p] % WheelSize IN
  /\ next' = [next EXCEPT ![p] = After(wheel[p][b], c, NULL)]
  /\ wheel' = [wheel EXCEPT ![p][b] = Without(@, c)]
  /\ running' = [running EXCEPT ![p] = c]
  /\ c_flags' = [c_flags EXCEPT ![c] = @ \ {"PENDING"}]
  /\ pc' = [pc EXCEPT ![p] = "func"]
  /\ scan' = [scan EXCEPT ![p] = NULL]
  /\ UNCHANGED <<c_time, c_gd, clockVars, opVars>>

(***************************************************************************)
(* Go on with the rest of the bucket, up to the first callout that has     *)
(* expired.  One that is not MPSAFE waits for the MP lock first, still on  *)
(* the wheel.  At the end of the bucket softticks moves on.                *)
(***************************************************************************)
ScanRest(p, rest) ==
  LET due == {i \in 1 .. Len(rest) : c_time[rest[i]] = softticks[p]}
      c == rest[CHOOSE i \in due : \A j \in due : i <= j]
  IN
  IF due = {}
  THEN /\ next' = [next EXCEPT ![p] = NULL]
       /\ running' = [running EXCEPT ![p] = NULL]
       /\ softticks' = [softticks EXCEPT ![p] = Plus(@, 1)]
       /\ pc' = [pc EXCEPT ![p] = "bucket"]
       /\ scan' = [scan EXCEPT ![p] = NULL]
       /\ UNCHANGED <<calloutVars, wheel, curticks, isrunning, opVars>>
  ELSE IF c \in MpSafe \/ mp[p]
  THEN Dispatch(p, c)
  ELSE /\ next' = [next EXCEPT ![p] = c]
       /\ scan' = [scan EXCEPT ![p] = c]
       /\ running' = [running EXCEPT ![p] = NULL]
       /\ pc' = [pc EXCEPT ![p] = "mplock"]
       /\ UNCHANGED <<calloutVars, wheel, clockVars, opVars>>

(* mpsafe is 0 from the first callout that needs the MP lock, before it is *)
(* obtained, to the first that does not.                                   *)
MpAfter(p) ==
  mp' = [mp EXCEPT ![p] = IF pc'[p] = "func" THEN running'[p] \notin MpSafe
                          ELSE @ \/ pc'[p] = "mplock"]

(* Slip: isrunning is left set.                                            *)
softclock_handler_Running(p) ==
  /\ pc[p] = "bucket" /\ ~Spinning(p)
  /\ IF softticks[p] = Plus(curticks[p], 1)
     THEN /\ pc' = [pc EXCEPT ![p] = "off"]
          /\ UNCHANGED <<calloutVars, wheel, next, clockVars, running, scan, mp, opVars>>
     ELSE /\ ScanRest(p, BucketOf(p, softticks[p]))
          /\ MpAfter(p)

(* The head of softclock_handler()'s loops; at the end of the backlog the  *)
(* thread deschedules itself.                                              *)
softclock_handler(p) ==
  /\ pc[p] = "bucket" /\ ~Spinning(p)
  /\ IF softticks[p] = Plus(curticks[p], 1)
     THEN /\ isrunning' = [isrunning EXCEPT ![p] = FALSE]
          /\ pc' = [pc EXCEPT ![p] = "off"]
          /\ UNCHANGED <<calloutVars, wheel, next, softticks, curticks,
                         running, scan, mp, opVars>>
     ELSE /\ ScanRest(p, BucketOf(p, softticks[p]))
          /\ MpAfter(p)

(* get_mplock() returns; if the callout was removed meanwhile sc->next has *)
(* moved on.                                                               *)
GotMplock(p) ==
  /\ pc[p] = "mplock" /\ ~Spinning(p)
  /\ IF next[p] = scan[p]
     THEN Dispatch(p, scan[p])
     ELSE ScanRest(p, From(BucketOf(p, softticks[p]), next[p]))
  /\ MpAfter(p)

(* The callback returns.                                                   *)
FuncDone(p) ==
  /\ pc[p] = "func" /\ ~Spinning(p)
  /\ ScanRest(p, From(BucketOf(p, softticks[p]), next[p]))
  /\ MpAfter(p)

-----------------------------------------------------------------------------
(* callout_stop() and callout_reset().                                     *)

(* callout_stop() on cpu p is done without an IPI.                         *)
Local(p, c) ==
  \/ c_flags[c] \cap {"ACTIVE", "PENDING"} = {}
  \/ c_gd[c] = p
  \/ c_gd[c] = NULL /\ "PENDING" \notin c_flags[c]

(***************************************************************************)
(* What callout_stop() leaves when it runs on the callout's cpu: the flags,*)
(* the wheels and, where the softclock was to go on with c, its successor. *)
(***************************************************************************)
StoppedFlags(c) == c_flags[c] \ {"ACTIVE", "PENDING"}

StoppedWheel(c) ==
  IF "PENDING" \in c_flags[c]
  THEN [wheel EXCEPT ![c_gd[c]][c_time[c] % WheelSize] = Without(@, c)]
  ELSE wheel

StoppedNext(c) ==
  IF "PENDING" \in c_flags[c] /\ next[c_gd[c]] = c
  THEN [next EXCEPT ![c_gd[c]] = After(BucketOf(c_gd[c], c_time[c]), c, NULL)]
  ELSE next

(* Slip: the softclock's place is not moved.                               *)
StopHere_KeepNext(c) ==
  /\ c_flags' = [c_flags EXCEPT ![c] = StoppedFlags(c)]
  /\ wheel' = StoppedWheel(c)
  /\ UNCHANGED next

StopHere(c) ==
  /\ c_flags' = [c_flags EXCEPT ![c] = StoppedFlags(c)]
  /\ wheel' = StoppedWheel(c)
  /\ next' = StoppedNext(c)

(* Slip: a timeout of 0 is taken as it is.                                 *)
Arm_Now(p, c, n, w) ==
  LET t == Plus(curticks[p], n) IN
  /\ c_flags' = [c_flags EXCEPT ![c] = @ \cup {"ACTIVE", "PENDING"}]
  /\ c_time' = [c_time EXCEPT ![c] = t]
  /\ c_gd' = [c_gd EXCEPT ![c] = p]
  /\ wheel' = [w EXCEPT ![p][t % WheelSize] = Append(@, c)]

(* The tail of callout_reset() on p, from the wheels w on.                 *)
Arm(p, c, n, w) ==
  LET t == Plus(curticks[p], IF n <= 0 THEN 1 ELSE n) IN
  /\ c_flags' = [c_flags EXCEPT ![c] = @ \cup {"ACTIVE", "PENDING"}]
  /\ c_time' = [c_time EXCEPT ![c] = t]
  /\ c_gd' = [c_gd EXCEPT ![c] = p]
  /\ wheel' = [w EXCEPT ![p][t % WheelSize] = Append(@, c)]

(* Slip: an armed callout is armed again.                                  *)
ResetHere_NoStop(p, c, n) == Arm(p, c, n, wheel) /\ UNCHANGED next

(* callout_reset() on p with nothing to stop elsewhere: only an ACTIVE     *)
(* callout is stopped first.                                               *)
ResetHere(p, c, n) ==
  IF "ACTIVE" \in c_flags[c]
  THEN Arm(p, c, n, StoppedWheel(c)) /\ next' = StoppedNext(c)
  ELSE Arm(p, c, n, wheel) /\ UNCHANGED next

(* The IPI to the callout's cpu is sent, and p waits for it.               *)
SendStop(p, c, call, n) ==
  /\ op' = [op EXCEPT ![c] = <<call, "ipi">>]
  /\ opcpu' = [opcpu EXCEPT ![c] = p]
  /\ stopcpu' = [stopcpu EXCEPT ![c] = c_gd[c]]
  /\ optick' = [optick EXCEPT ![c] = n]
  /\ UNCHANGED <<calloutVars, wheel, next, clockVars, softVars>>

(* The call on c returns.                                                  *)
Return(c) ==
  /\ op' = [op EXCEPT ![c] = <<"none", "idle">>]
  /\ opcpu' = [opcpu EXCEPT ![c] = NULL]
  /\ stopcpu' = [stopcpu EXCEPT ![c] = NULL]
  /\ optick' = [optick EXCEPT ![c] = 0]

(* Slip: every call waits for the callback.                                *)
AfterStop_Waits(p, c, call) ==
  /\ op' = [op EXCEPT ![c] = <<call, "wait">>]
  /\ opcpu' = [opcpu EXCEPT ![c] = p]
  /\ stopcpu' = [stopcpu EXCEPT ![c] = c_gd[c]]
  /\ UNCHANGED optick

(* callout_stop() has returned to call on p: stop is done, stop_sync and   *)
(* terminate go on to watch sc->running of the callout's cpu.              *)
AfterStop(p, c, call) ==
  IF call \in {"stop_sync", "terminate"}
  THEN /\ op' = [op EXCEPT ![c] = <<call, "wait">>]
       /\ opcpu' = [opcpu EXCEPT ![c] = p]
       /\ stopcpu' = [stopcpu EXCEPT ![c] = c_gd[c]]
       /\ UNCHANGED optick
  ELSE Return(c)

(* callout_stop(), from the client or from a call that begins with it.     *)
Stop(p, c, call) ==
  \/ /\ Local(p, c)
     /\ StopHere(c)
     /\ AfterStop(p, c, call)
     /\ UNCHANGED <<c_time, c_gd, clockVars, softVars>>
  \/ /\ ~Local(p, c)
     /\ SendStop(p, c, call, 0)

Idle(c) == op[c] = <<"none", "idle">>

callout_reset(p, c, n) ==
  /\ "reset" \in Ops /\ Idle(c) /\ ~Spinning(p) /\ p \in Home[c]
  /\ "DID_INIT" \in c_flags[c]
  /\ IF "ACTIVE" \notin c_flags[c] \/ Local(p, c)
     THEN ResetHere(p, c, n) /\ UNCHANGED <<clockVars, softVars, opVars>>
     ELSE SendStop(p, c, "reset", n)

callout_stop(p, c) ==
  /\ "stop" \in Ops /\ Idle(c) /\ ~Spinning(p)
  /\ "DID_INIT" \in c_flags[c]
  /\ Stop(p, c, "stop")

(* The callout's cpu answers the IPI, also while it waits for one itself.  *)
StopIpi(c) ==
  /\ op[c][2] = "ipi"
  /\ StopHere(c)
  /\ op' = [op EXCEPT ![c] = <<@[1], "stopped">>]
  /\ UNCHANGED <<c_time, c_gd, clockVars, softVars, opcpu, stopcpu, optick>>

(* lwkt_wait_ipiq() returns and the call goes on where it was made.        *)
IpiWaited(c) ==
  /\ op[c][2] = "stopped"
  /\ IF op[c][1] = "reset"
     THEN /\ Arm(opcpu[c], c, optick[c], wheel)
          /\ Return(c)
          /\ UNCHANGED <<next, clockVars, softVars>>
     ELSE /\ AfterStop(opcpu[c], c, op[c][1])
          /\ UNCHANGED <<calloutVars, wheel, next, clockVars, softVars>>

-----------------------------------------------------------------------------
(* The calls that wait for the callback, the callback's own calls, Next.   *)

callout_stop_sync(p, c) ==
  /\ "stop_sync" \in Ops /\ Idle(c) /\ ~Spinning(p)
  /\ "DID_INIT" \in c_flags[c]
  /\ Stop(p, c, "stop_sync")

(* The structure must have been reset once: the code looks up c_gd.        *)
callout_terminate(p, c) ==
  /\ "terminate" \in Ops /\ Idle(c) /\ ~Spinning(p)
  /\ "DID_INIT" \in c_flags[c] /\ c_gd[c] # NULL
  /\ Stop(p, c, "terminate")

(* The client sleeps a tick at a time while the callback runs.             *)
Asleep(c) ==
  /\ op[c][2] = "wait"
  /\ stopcpu[c] # NULL
  /\ running[stopcpu[c]] = c

(* Slip: the wait for the callback is left out.                            *)
RaceWaited_Not(c) ==
  /\ op[c][2] = "wait" /\ ~Spinning(opcpu[c])
  /\ op' = [op EXCEPT ![c] = <<@[1], "check">>]
  /\ UNCHANGED <<calloutVars, wheel, next, clockVars, softVars, opcpu, stopcpu, optick>>

(* sc->running was not, or is no longer, c.                                *)
RaceWaited(c) ==
  /\ op[c][2] = "wait" /\ ~Asleep(c) /\ ~Spinning(opcpu[c])
  /\ op' = [op EXCEPT ![c] = <<@[1], "check">>]
  /\ UNCHANGED <<calloutVars, wheel, next, clockVars, softVars, opcpu, stopcpu, optick>>

(* callout_stop_sync() returns, or warns of a callout race and starts over.*)
StopSyncCheck(c) ==
  /\ op[c] = <<"stop_sync", "check">> /\ ~Spinning(opcpu[c])
  /\ IF c_flags[c] \cap {"PENDING", "ACTIVE"} = {}
     THEN Return(c) /\ UNCHANGED <<calloutVars, wheel, next, clockVars, softVars>>
     ELSE Stop(opcpu[c], c, "stop_sync")

(* callout_terminate() returns, and the structure may be freed: it has     *)
(* asserted that the callback did not leave the callout armed.             *)
TerminateCheck(c) ==
  /\ op[c] = <<"terminate", "check">> /\ ~Spinning(opcpu[c])
  /\ c_flags[c] \cap {"PENDING", "ACTIVE"} = {}
  /\ Return(c)
  /\ c_flags' = [c_flags EXCEPT ![c] = @ \ {"DID_INIT"}]
  /\ UNCHANGED <<c_time, c_gd, wheel, next, clockVars, softVars>>

(* The assertion fails: the callback has reset the callout meanwhile, and  *)
(* unlike callout_stop_sync() this does not start over.                    *)
TerminatePanic(c) ==
  /\ op[c] = <<"terminate", "check">> /\ ~Spinning(opcpu[c])
  /\ c_flags[c] \cap {"PENDING", "ACTIVE"} # {}
  /\ op' = [op EXCEPT ![c] = <<"terminate", "panic">>]
  /\ UNCHANGED <<calloutVars, wheel, next, clockVars, softVars, opcpu, stopcpu, optick>>

(* The client makes a new callout of the structure.                        *)
callout_init(c) ==
  /\ Idle(c) /\ "DID_INIT" \notin c_flags[c]
  /\ c_flags' = [c_flags EXCEPT ![c] = {"DID_INIT"}]
  /\ c_time' = [c_time EXCEPT ![c] = 0]
  /\ c_gd' = [c_gd EXCEPT ![c] = NULL]
  /\ UNCHANGED <<wheel, next, clockVars, softVars, opVars>>

(* The callback may touch its callout: no client call is in progress, save *)
(* one that sleeps and so has given up the client's token.                 *)
InCallback(p, c) ==
  /\ pc[p] = "func" /\ running[p] = c /\ ~Spinning(p)
  /\ Idle(c) \/ Asleep(c)
  /\ "DID_INIT" \in c_flags[c] /\ c_gd[c] = p

(* The callback resets its callout, also while a client sleeps in          *)
(* callout_stop_sync() or callout_terminate().                             *)
Rearm(p, c, n) ==
  /\ "rearm" \in Ops /\ InCallback(p, c)
  /\ ResetHere(p, c, n)
  /\ UNCHANGED <<clockVars, softVars, opVars>>

(* The callback's callout_deactivate(), allowed before a reset only.       *)
callout_deactivate(p, c) ==
  /\ "deactivate" \in Ops /\ InCallback(p, c)
  /\ c_flags[c] \cap {"ACTIVE", "PENDING"} = {"ACTIVE"}
  /\ c_flags' = [c_flags EXCEPT ![c] = @ \ {"ACTIVE"}]
  /\ UNCHANGED <<c_time, c_gd, wheel, next, clockVars, softVars, opVars>>

ClientStep(c) ==
  \/ callout_init(c)
  \/ \E p \in Cpu :
       \/ \E n \in 0 .. MaxTicks : callout_reset(p, c, n) \/ Rearm(p, c, n)
       \/ callout_stop(p, c)
       \/ callout_stop_sync(p, c)
       \/ callout_terminate(p, c)
       \/ callout_deactivate(p, c)

(* What a call does on its own once it is made.                            *)
CallStep(c) ==
  \/ IpiWaited(c)
  \/ RaceWaited(c)
  \/ StopSyncCheck(c)
  \/ TerminateCheck(c)
  \/ TerminatePanic(c)

SoftStep(p) == softclock_handler(p) \/ GotMplock(p) \/ FuncDone(p)

(* Only the clocks of these cpus matter: the wheels of others stay empty.  *)
WheelCpu == UNION {Home[c] : c \in Callout}

Next ==
  \/ \E p \in WheelCpu : hardclock_softtick(p) \/ SoftStep(p)
  \/ \E c \in Callout : StopIpi(c) \/ CallStep(c) \/ ClientStep(c)

Spec == swi_softclock_setup /\ [][Next]_vars

(***************************************************************************)
(* The clock ticks, IPIs are answered, callbacks return, the MP lock is    *)
(* obtained, and the scheduler gives the softclock thread and a caller the *)
(* cpu again and again, though another call may spin on it in between.     *)
(***************************************************************************)
FairSpec ==
  /\ Spec
  /\ \A p \in WheelCpu : WF_vars(hardclock_softtick(p)) /\ SF_vars(SoftStep(p))
  /\ \A c \in Callout : WF_vars(StopIpi(c)) /\ WF_vars(CallStep(c))

-----------------------------------------------------------------------------
(* Properties.                                                             *)

(***************************************************************************)
(* A callout with CALLOUT_PENDING is once on the bucket of its c_time on   *)
(* the wheel of its cpu and nowhere else, and one without is on no wheel,  *)
(* whatever order resets, stops from other cpus and the softclock's        *)
(* dispatches come in.  The TAILQ_REMOVEs rely on it.                      *)
(***************************************************************************)
WheelSound ==
  \A c \in Callout, p \in Cpu, b \in Bucket :
    Count(wheel[p][b], c) =
      IF "PENDING" \in c_flags[c] /\ p = c_gd[c] /\ b = c_time[c] % WheelSize
      THEN 1 ELSE 0

(***************************************************************************)
(* softticks never passes a pending callout: its c_time still lies ahead   *)
(* of the bucket being scanned, or in it.  A callout that was passed would *)
(* fire only once the tick counter has gone round.                         *)
(***************************************************************************)
NeverMissed ==
  \A c \in Callout :
    "PENDING" \in c_flags[c] =>
      Since(softticks[c_gd[c]], c_time[c]) <= MaxTicks + MaxLag

(***************************************************************************)
(* sc->next is a callout of the bucket being scanned while the softclock   *)
(* is outside its critical section, so that going on from it is safe: each *)
(* removal that races the callback or the wait for the MP lock must move   *)
(* it.                                                                     *)
(***************************************************************************)
NextOnBucket ==
  \A p \in Cpu :
    pc[p] \in {"mplock", "func"} /\ next[p] # NULL =>
      Count(BucketOf(p, softticks[p]), next[p]) = 1

(***************************************************************************)
(* callout_stop_sync() "ensure[s] that any callout race completes before   *)
(* returning", and callout_terminate() blocks "while the callout's         *)
(* function is running": when they return the callout is neither pending   *)
(* nor being run by any cpu, also if the callback has reset it while they  *)
(* slept.  The first then starts over, the second panics and never does.   *)
(***************************************************************************)
SyncComplete ==
  [][\A c \in Callout :
       op[c][1] \in {"stop_sync", "terminate"} /\ op'[c][1] = "none" =>
         /\ c_flags'[c] \cap {"PENDING", "ACTIVE"} = {}
         /\ \A p \in Cpu : running'[p] # c]_vars

(***************************************************************************)
(* The softclock calls a callout in the tick it was set for.  The comment  *)
(* at get_mplock() holds the test of sc->next to be enough to know that    *)
(* the callout found expired before the wait was not removed since.        *)
(***************************************************************************)
FiresOnTime ==
  [][\A p \in Cpu, c \in Callout :
       running'[p] = c /\ running[p] # c => c_time[c] = softticks[p]]_vars

(***************************************************************************)
(* No armed callout is forgotten: none stays pending for one and the same  *)
(* tick for ever, it is called, stopped or reset sooner or later.          *)
(***************************************************************************)
Expires ==
  \A c \in Callout :
    \/ []<>("PENDING" \notin c_flags[c])
    \/ []<><<c_time'[c] # c_time[c]>>_vars

=============================================================================
