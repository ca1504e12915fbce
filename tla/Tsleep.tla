------------------------------- MODULE Tsleep -------------------------------
(***************************************************************************)
(* The tsleep()/wakeup() rendezvous of sys/kern/kern_synch.c, as seen by   *)
(* the locks built on it.  A thread queues itself on a wait channel with   *)
(* tsleep_interlock(), deschedules itself with tsleep(), and is removed    *)
(* and rescheduled by wakeup().                                            *)
(*                                                                         *)
(* Every thread runs on a cpu of its own.  A wakeup() then reaches a       *)
(* sleeper as an IPI: the waker samples slpque_cpumasks, which says where  *)
(* somebody is queued on the channel, and each of those cpus runs _wakeup  *)
(* some time later.  Threads sharing a cpu only lose interleavings.        *)
(***************************************************************************)
EXTENDS Naturals

CONSTANTS
  Thread,     \* the kernel threads
  NULL        \* no wait channel, no owner, no thread

ASSUME NullAssumption == NULL \notin Thread

VARIABLES
  wchan,      \* td_wchan: the channel a thread is queued on (TDF_TSLEEPQ)
  tdstate,    \* "run"; "asleep": descheduled by tsleep; "ready": about to
              \*   return from tsleep
  intr,       \* a timeout (TDF_TIMEOUT) or a signal will fail this tsleep
  ipiq,       \* the _wakeup IPIs in flight: pairs <<thread, channel>>
  ipidup      \* those of them of which several are in flight

ipiVars == <<ipiq, ipidup>>
sleepVars == <<wchan, tdstate, intr, ipiVars>>

SleepInit ==
  /\ wchan   = [t \in Thread |-> NULL]
  /\ tdstate = [t \in Thread |-> "run"]
  /\ intr    = [t \in Thread |-> FALSE]
  /\ ipiq    = {}
  /\ ipidup  = {}

SleepTypeOK(Channel) ==
  /\ wchan   \in [Thread -> Channel \cup {NULL}]
  /\ tdstate \in [Thread -> {"run", "asleep", "ready"}]
  /\ intr    \in [Thread -> BOOLEAN]
  /\ ipiq    \subseteq Thread \X Channel
  /\ ipidup  \subseteq ipiq

(* Queue t on chan without descheduling it; it leaves any other queue.     *)
tsleep_interlock(t, chan) ==
  /\ wchan' = [wchan EXCEPT ![t] = chan]
  /\ UNCHANGED <<tdstate, intr, ipiVars>>

(* Take t off the sleep queue.                                             *)
tsleep_remove(t) ==
  /\ wchan' = [wchan EXCEPT ![t] = NULL]
  /\ UNCHANGED <<tdstate, intr, ipiVars>>

(***************************************************************************)
(* Go to sleep.  Without PINTERLOCKED the thread is queued afresh, so a    *)
(* wakeup it received since an earlier tsleep_interlock() is forgotten;    *)
(* with it, a thread that is no longer queued returns at once.  With       *)
(* PCATCH a pending signal also makes it return at once, still queued.     *)
(***************************************************************************)
tsleep(t, chan, flags) ==
  LET queued == IF "PINTERLOCKED" \in flags THEN wchan[t] ELSE chan IN
  /\ tdstate[t] = "run"
  /\ wchan' = [wchan EXCEPT ![t] = queued]
  /\ \/ /\ tdstate' = [tdstate EXCEPT ![t] =
                         IF queued = NULL THEN "ready" ELSE "asleep"]
        /\ UNCHANGED intr
     \/ /\ "PCATCH" \in flags
        /\ tdstate' = [tdstate EXCEPT ![t] = "ready"]
        /\ intr' = [intr EXCEPT ![t] = TRUE]
  /\ UNCHANGED ipiVars

(* The thread runs again and returns from tsleep(); intr[t] is the error.  *)
tsleep_return(t) ==
  /\ tdstate[t] = "ready"
  /\ tdstate' = [tdstate EXCEPT ![t] = "run"]
  /\ intr' = [intr EXCEPT ![t] = FALSE]
  /\ UNCHANGED <<wchan, ipiVars>>

(***************************************************************************)
(* The timeout fires or a signal arrives.  It may also do so after a       *)
(* wakeup has rescheduled the thread and before the thread has run: the    *)
(* thread then returns an error although it was woken.                     *)
(***************************************************************************)
endtsleep(t) ==
  /\ tdstate[t] \in {"asleep", "ready"}
  /\ ~intr[t]
  /\ wchan' = [wchan EXCEPT ![t] = NULL]
  /\ tdstate' = [tdstate EXCEPT ![t] = "ready"]
  /\ intr' = [intr EXCEPT ![t] = TRUE]
  /\ UNCHANGED ipiVars

(***************************************************************************)
(* t takes the threads of its own cpu, that is itself, off the queue and   *)
(* sends an IPI to every other cpu with a thread queued on chan.           *)
(***************************************************************************)
wakeup(t, chan) ==
  LET sent == {<<u, chan>> : u \in {v \in Thread \ {t} : wchan[v] = chan}} IN
  /\ wchan' = [wchan EXCEPT ![t] = IF @ = chan THEN NULL ELSE @]
  /\ ipiq' = ipiq \cup sent
  /\ ipidup' = ipidup \cup (ipiq \cap sent)
  /\ UNCHANGED <<tdstate, intr>>

(***************************************************************************)
(* t's cpu runs _wakeup(chan) on its own sleep queue.  Where several such  *)
(* IPIs were in flight one or several are left, and the next of them may   *)
(* find t queued on chan again.                                            *)
(***************************************************************************)
wakeup_ipi(t, chan) ==
  LET ipi == <<t, chan>> IN
  /\ ipi \in ipiq
  /\ ipiq' = IF ipi \in ipidup THEN ipiq ELSE ipiq \ {ipi}
  /\ ipidup' \in {ipidup, ipidup \ {ipi}}
  /\ IF wchan[t] = chan
     THEN /\ wchan' = [wchan EXCEPT ![t] = NULL]
          /\ tdstate' = [tdstate EXCEPT ![t] =
                           IF @ = "asleep" THEN "ready" ELSE @]
     ELSE UNCHANGED <<wchan, tdstate>>
  /\ UNCHANGED intr
=============================================================================
