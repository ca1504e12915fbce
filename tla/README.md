# A verification project for the DragonFly kernel's synchronization core

The repository is DragonFly BSD 3.0.2 with the beginning of a port of the BHyVe
hypervisor. Its own logic is the kernel under `sys/`; most of the rest is
contributed software (`contrib`, `crypto`, `gnu`), userland, drivers and data.
This project models the part of the kernel on which everything else stands and
which is the hardest to test: the primitives with which threads on different
cpus exclude, wait for and wake each other. They are short, they are entered
from every subsystem, and their bugs show up as a hang or a corrupted structure
somewhere else, once in a great many runs.

Source paths below are relative to the repository.

## 1. Inventory

| component | source | state it keeps | operations | what is hard | what makes it correct |
|---|---|---|---|---|---|
| sleep queues | `sys/kern/kern_synch.c` | per-cpu hash of queued threads, `slpque_cpumasks`, each thread's `td_wchan` and `td_flags` | `tsleep_interlock`, `tsleep`, `wakeup*`, `endtsleep` | a wakeup on another cpu is an asynchronous IPI naming a channel, not a thread; it may come before the sleep, after it, or with a timeout or a signal | a thread queued when the wakeup is sent does not stay asleep |
| serializer | `sys/kern/lwkt_serialize.c`, `atomic_intr_cond_*` in `sys/cpu/x86_64/include/atomic.h` | one word (lock bit, handler-disable bit, request count), the recorded owner | enter, adaptive enter, try, exit, handler call and try, handler enable and disable | an exit is three bus-locked instructions, and the sleeper's retest races all of them | exclusion, exact request count, no lost wakeup, disabled handlers stay quiet |
| mutex | `sys/kern/kern_mutex.c`, `sys/sys/mutex.h`, `mutex2.h` | `mtx_lock` (count, EXCLUSIVE, SHWANTED, EXWANTED, EXLINK), `mtx_owner`, the ring of waiting links | exclusive, shared, try and spin locks, unlock, downgrade, upgrade, abort of a queued link | the lock is handed to the first link of the ring; owner and word are separate; waits are timed out, signalled and aborted | exclusion, exact count, a sound ring, no waiter overlooked, the new owner runs |
| tokens | `sys/kern/lwkt_token.c`, `lwkt_switch()` in `lwkt_thread.c` | `t_count`, `t_ref`, each thread's stack of token references | get, get shared, try, release, swap, `lwkt_getalltokens`, `lwkt_relalltokens` | tokens are given up on every switch and must be regained as a set; `t_ref` is briefly cleared during a release | exclusion among running threads, no starvation among overlapping sets |
| spinlocks | `sys/kern/kern_spinlock.c`, `sys/sys/spinlock2.h` | `counta`, `countb` | lock, try, unlock, contested path | the count and the contested spin | exclusion, progress |
| IPI queues | `sys/kern/lwkt_ipiq.c` | one ring for each pair of cpus, `gd_ipimask`, `gd_npoll`, the cpusync poll lists | send, passive and non-blocking send, wait, process, cpusync interlock and deinterlock | a ring fills while its target waits on a full ring of its own; processing is reentrant; two cpus interlock each other | no overrun, no lost signal, every call returns, the others are quiescent during a cpusync |
| message ports | `sys/kern/lwkt_msgport.c` | queues, `ms_flags` | send, forward, reply, wait, drop, abort | ports owned by threads of other cpus, which migrate; a reply racing a wait | each message in one place, no lost wait, every wait ends |
| LWKT scheduler | `sys/kern/lwkt_thread.c` | run queues, `td_flags` | schedule, deschedule, switch, migrate | remote schedule by IPI, preemption | a runnable thread is on one queue |
| lockmgr | `sys/kern/kern_lock.c` | `lk_flags`, counts, holder | shared, exclusive, upgrade, downgrade, drain | upgrades racing drains | exclusion, no lost wakeup |
| callouts | `sys/kern/kern_timeout.c` | per-cpu wheels, `sc->next`, `sc->running`, tick counters, callout flags | reset, stop, stop_sync, terminate, tick, softclock | stop racing the dispatch or the callback on another cpu, the wait for the MP lock, wrapping tick counters | each armed callout on one bucket, none passed over, a synchronous stop outlasts the callback |
| sysref | `sys/kern/kern_sysref.c` | the reference count with its phases | init, activate, get, put | termination racing a new reference | terminated once |
| vnode life cycle | `sys/kern/vfs_lock.c` | `v_sysref`, `v_auxrefs`, flags, free list | vref, vget, vrele, reclaim | reactivation racing reclamation | a referenced vnode is not reclaimed |
| record locks | `sys/kern/kern_lockf.c` | range lists of a file | set, clear, get | splitting, merging, the wait-for check | equals a map from bytes to owners |
| bitmap allocator | `sys/kern/subr_blist.c` | radix tree with size hints | alloc, free, fill | stale hints | equals a set of free blocks |
| task queues | `sys/kern/subr_taskqueue.c` | queue, running task | enqueue, run, drain | enqueue while the task runs | an enqueued task runs again |
| BHyVe, HAMMER and other file systems, network stack, drivers, userland | see `PROJECT.json` | | | | not modelled, reasons in section 8 |

How they interact. `wakeup()` reaches other cpus through the IPI queues and
reschedules threads through the LWKT scheduler. The serializer, the mutex and
lockmgr block with `tsleep_interlock()` and `tsleep()` and are released with
`wakeup()`. A thread that blocks gives up its tokens in `lwkt_switch()`.
Drivers enter the network stack's and their own serializers, and interrupt
threads run handlers inside a serializer. Message ports wake their owners by
scheduling or by `wakeup()`. Nothing of this is persistent: there is no crash
recovery in these components, and failure means a timeout, a signal or an
abort.

The list of what can go wrong in them, at the line where it would, is
`hazards` in `PROJECT.json`.

## 2. Modules

| module | contents |
|---|---|
| `LockSpec` | what a lock promises its callers |
| `Tsleep` | the sleep/wakeup rendezvous, as operators that a lock conjoins with its own steps |
| `LwktSerialize` | the serializer; extends `Tsleep`, implements `LockSpec` |
| `KernMutex` | the mutex; extends `Tsleep` |
| `TokenSpec` | what tokens promise: all of a thread's tokens at once, or none |
| `LwktToken` | tokens and the part of `lwkt_switch()` that gives them up and gets them back; implements `TokenSpec` |
| `Callout` | callouts, the clock interrupt and the softclock thread |
| `LwktIpiq` | IPI FIFOs and cpu synchronization |
| `LwktMsgport` | messages and thread ports |
| `Tailq` | the tail queues of `sys/sys/queue.h` as sequences; extended by `Callout` and `LwktMsgport` |
| `LwktSerialize_proofs`, `KernMutex_proofs`, `LwktToken_proofs`, `LwktIpiq_proofs`, `LwktMsgport_proofs`, `Callout_proofs` | theorems about the module of that name |
| `Tailq_proofs` | lemmas about queues without repetitions, used by the last two |
| `MC...` | threads, cpus and symmetry for TLC |

Definitions named `<Action>_<Slip>` beside an action are deliberately wrong
variants of it. No specification uses them: each is substituted for its action
to show that a property would notice that mistake.

### Tsleep

Every thread has a cpu of its own. `wchan` is `td_wchan` together with
`TDF_TSLEEPQ`; `tdstate` says whether the thread runs, is descheduled in
`tsleep()`, or has been made runnable; `intr` is the error `tsleep()` will
return; `ipiq` holds the `_wakeup` IPIs in flight as pairs of thread and
channel, and `ipidup` those of which there are several. `wakeup` samples who is
queued and sends IPIs to them, `wakeup_ipi` is what the target cpu does some
time later. A sleeper is sent an IPI by every wakeup until the first arrives;
the late ones may find it queued on the same channel again, and that spurious
wakeup is modelled. How many more than one are in flight is abstracted, so that
nothing needs a bound. Delivery is unordered, which allows more than the FIFO
of `lwkt_ipiq.c`. Two threads of one cpu would take the local path of
`_wakeup()`, atomic with the caller, so sharing a cpu removes interleavings and
adds none. Channels that share a hash bucket of the sleep queue are kept apart:
an IPI for a neighbour's channel finds no thread to wake.

`tsleep()` without `PINTERLOCKED` queues the thread again
(`kern_synch.c:511-513`) and so forgets a wakeup it has already received; with
it, a thread no longer queued returns at once. `PCATCH` with a signal pending
returns at once too, with the thread still on the queue. `endtsleep` may fire
when the thread is asleep, and also after a wakeup has rescheduled it and
before it has run, in which case the sleep fails although it was woken.

### LwktSerialize

`running`, `disabled` and `requests` are bits 31, 30 and 0-29 of
`interlock`; `last_td` is the owner field that INVARIANTS kernels keep. Each
bus-locked instruction is an action: `Incl`, `Acquire`/`Contend` (the two
outcomes of `btsl`), `Decl`, `Btrl`, `Testl`. `Interlock`, `Retest`, `Sleep`
and `Wake` are `lwkt_serialize_sleep()`; `Backoff` is a round of
`lwkt_serialize_adaptive_sleep()`, whose delays are not modelled and whose
choice between another round and sleeping is therefore nondeterministic.
`Call` is an entry point being called, with the first look at the disable bit
for the two handler functions; `Recheck` is the second look that only
`lwkt_serialize_handler_call()` takes. `last_td` is written with the
instruction next to it, since only its own thread compares itself with it.
`lwkt_serialize_handler_disable()` is called by a thread that holds the
serializer. A handler that disables itself while it runs (`bce_intr()` does, by
way of `bce_init()`, `if_bce.c:5440` and `4735`) is left out: it goes on with
its own bit set, and `DisabledHandlerQuiet` is about the handlers that another
thread has disabled. The logging macros are left out.

`ImplementsLock` maps each thread's program counter to a standing of
`LockSpec`: out, asking from `incl` on, refused between the failed `btsl` of a
try and its `decl`, in. `FreeLockGranted` is the liveness half of `LockSpec`.

### KernMutex

`mtx_lock` is a record of the four bits and the count, `mtx_owner` the owner
word, `mtx_link` the ring from `mtx->mtx_link` on, `link[t]` the state of
thread `t`'s link (it has at most one, on its stack or given by the caller),
`op`, `target` and `error` the local variables, and `exheld` and `shheld` what
each thread believes to hold, which is compared with the word.

A load of `mtx_lock` and the `cmpset` that depends on it are one action, taken
when the `cmpset` succeeds; a failed one is a retry without effect. Writes of
`mtx_owner` and calls of `wakeup()` are separate actions because other cpus can
run in between. The ring is changed under `MTX_EXLINK` only, and these sections
are single actions, except `mtx_chain_link()`. There the word, the ring and the
owner are changed one after the other, and a waiter whose sleep has ended reads
its own `link->state` (168, 170) without the bit: so the store of the state
(657, `ChainPick`) and that of the owner (658, `ChainOwner`) are two actions.
The second reads `link->owner`, and if the waiter has returned in between the
link is a dead piece of its stack, from which any owner may be read.

| code | actions |
|---|---|
| `__mtx_lock_ex`, the spin and try variants | `CallEx`, `ExFree`, `SetOwner`, `ExRecurse`, `ExTryFail`, `ExWant`, `ExLink`, `EarlyAbort`, `EarlyRead`, `EarlyClear`, `ExSleep`, `ExWake`, `ExWoken`, `ExDone`, `ExPanic`, `ExRetry` |
| `mtx_delete_link` | `DeleteLock`, `mtx_delete_link` |
| `__mtx_lock_sh`, `_mtx_lock_sh_try` | `CallSh`, `ShFree`, `ShTryFail`, `ShInterlock`, `ShWant`, `ShRetry`, `ShSleep`, `ShWake` |
| `_mtx_unlock` | `CallUnlock`, `UnShared`, `UnOwner`, `UnExclusive`, `UnChain`, `UnCount`, `WakeShared` |
| `mtx_chain_link` | `ChainPick`, `ChainOwner`, `ChainHandOff`, `ChainRelease`, `ChainNull`, `WakeLink` |
| `mtx_downgrade`, `_mtx_downgrade` | `Downgrade`, `DowngradeFast`, `DowngradeSlow`, `_mtx_downgrade`, `DowngradeNop` |
| `mtx_upgrade_try`, `_mtx_upgrade_try` | `CallUpgrade`, `UpgradeFast`, `_mtx_upgrade_try`, `UpgradeNop` |
| `mtx_abort_ex_link` | `CallAbort`, `AbortLock`, `mtx_abort_ex_link` |

`KKASSERT`s are not modelled as stops, because kernels without INVARIANTS run
on; what they assert is left to the properties. The exceptions are two that the
code can fail and that decide how it goes on, here `kern_mutex.c:171`
(`ExPanic`) and in the callouts `kern_timeout.c:554`. An unlock that finds the
count zero (615-623) panics; callers hold the lock they release, and in the
model a thread that finds none stops there. A word of 1 that
`_mtx_upgrade_try()` meets after the inline `cmpset` has failed (502) is left
to the action of the inline one, `UpgradeFast`. The constants `Ops` and
`Flags` say which operations the callers use and what blocking calls pass to
`tsleep()`, so that a run can ask its question of a particular kind of caller.

### LwktToken

`t_count` is a record of `TOK_EXCLUSIVE`, `TOK_EXCLREQ` and the count, `t_ref`
names a reference by thread and index, `toks` is the stack of references
between `td_toks_base` and `td_toks_stop`. Every thread has a cpu of its own;
`pc`, `ctx` and `cur` say where that cpu is in a scan of the stack and for
whom, and `sorted` whether the scan goes by address.

| code | actions |
|---|---|
| `lwkt_gettoken*`, `lwkt_trytoken` | `Push`, then the steps of `_lwkt_trytokref` |
| `_lwkt_trytokref` | `TryExclusive`, `SetRef`, `TryOwn`, `TryShared`, `TryFail`, `SetReq` |
| `_lwkt_reltokref` | `RelRef`, `RelExclusive`, `RelShared` |
| `lwkt_getalltokens`, sorted and not | `Acquired`, `GetallFailed`, `Released` between those steps |
| `lwkt_switch` | `lwkt_switch`, `Round`, `Contested`, `Wakeup` |
| `lwkt_token_swap`, `lwkt_reltoken` | the same names |

The model has the two ways in which `lwkt_switch()` goes on after a failed
scan: a thread on the run queue counts the round in `spinning` and changes to
the sorted scan in the end; after a sleep the idle thread calls `lwkt_switch()`
anew and counts from zero. A thread does not ask for an exclusive token that it
has only shared, which `DEBUG_LOCKS` kernels assert against. `TokenSpec` hides
all of this: threads either run, with all their references and no conflict, or
do not.

### Callout

Each cpu has its wheel, `next` and `running` of its `softclock_pcpu`, tick
counters modulo `TickRange`, and a softclock thread. What the code does inside
one critical section is one action; the softclock thread leaves it for the
callback (`pc = "func"`) and for `get_mplock()` (`"mplock"`). `op` is the call
that the client of a callout is in: waiting for the stop IPI, watching
`sc->running`, or checking the flags again. A cpu that waits for an IPI is in a
critical section and runs nothing else but IPIs. Clients serialize their calls
on one callout, as the source asks; a client that sleeps in `callout_stop_sync()`
or `callout_terminate()` lets the callback go on, which may reset or deactivate
its callout. `callout_stop_sync()` then starts over. `callout_terminate()` does
not: it asserts that the callout is neither pending nor active (554), and where
that fails (`TerminatePanic`) the call does not return. It is modelled for
callouts that have been reset once, whose `c_gd` is set.

| code | actions |
|---|---|
| `hardclock_softtick` | the same name |
| `softclock_handler` | `softclock_handler`, `GotMplock`, `FuncDone`, over `ScanRest` and `Dispatch` |
| `callout_reset` | `callout_reset`, `Rearm` (from the callback), `IpiWaited` |
| `callout_stop` and its IPI | `callout_stop`, `StopIpi`, `IpiWaited` |
| `callout_stop_sync`, `callout_terminate` | the same names, `RaceWaited`, `StopSyncCheck`, `TerminateCheck`, `TerminatePanic` |
| `callout_init`, `callout_deactivate` | the same names |

### LwktIpiq

`fifo` holds the messages between `ip_rindex` and `ip_windex` for each ordered
pair of cpus. `stack` is the stack of calls each cpu is in, since a function
run by `lwkt_process_ipiq()` may send, a send that finds its FIFO too full
processes what comes in, and so on inside. Each access to something another
cpu reads or writes is an action: the entry and `ip_windex`, `gd_ipimask`,
`gd_npoll` with the hardware IPI, `ip_xindex`, `cs_mack`. Messages are a plain
function, a relay that answers with a plain one, a passive free, and
`lwkt_cpusync_remote1`. A cpusync is `lwkt_cpusync_simple()` of all cpus, with
`lwkt_cpusync_interlock()` and `_deinterlock()` step by step, and the poll list
that cpus which master a cpusync of their own go over once at a time.
A hardware IPI is taken when the cpu's stack is empty: in a critical section it
is noted and made up for at the end.

The poll list `gd_cpusyncq` is a ring of `MAXCPUFIFO` entries in the code and a
sequence here. The two are the same as long as the sequence fits
(`PollRingFits`, the assertion at `lwkt_ipiq.c:900`), which is proved for up to
`MAXCPUFIFO + 1` cpus (`FewCpus`, 33 in the code); what is proved of cpusync is
stated with that hypothesis.

### LwktMsgport

Clients own messages; servers get, forward, drop and reply to them. A port is
meant to be touched on its owner's cpu only; a message for a port elsewhere
travels as an IPI record in `ipis`, unordered. `lwkt_thread_putport()`,
`lwkt_thread_replyport()` and the remote half of each (`IpiRuns`) do three
things, and each is a step: look at `td_gd`, and send the message on if the
thread is on another cpu (`Chase` for an IPI that missed it); queue the message
or, if it is waited for, complete it (`Push`); schedule the thread if its port
says that it waits (`Look`). Likewise a wait tests first and then sets
`MSGPORTF_WAITING` and sleeps (`NotYet`, `Sleep`). `work` is what each cpu is in
the middle of: it does nothing else before it has finished, because it is in a
critical section or, in the one instruction before it, could only be interrupted
by IPIs for the same ports.

The steps are apart because of migration. `lwkt_setcpu_self()` deschedules the
thread; once it is switched out (`lwkt_thread.c:970-976`) an IPI is sent, and
`lwkt_setcpu_remote()` stores `td_gd` on the target cpu (1620), which nothing
keeps from happening while the old cpu is between its look at `td_gd` and the
queue. `raced` records that this has happened: two cpus may then work on one
port, the tail queue itself is no longer what a sequence describes, and what is
checked and proved of ports is stated for behaviours in which it has not
(section 5). The migration of a thread whose port nobody is at work on, at any
other moment, with IPIs for it under way, is covered.

`lwkt_sendmsg`, `lwkt_domsg`, `WaitBegins`, `lwkt_thread_waitmsg`,
`lwkt_thread_waitport`, `lwkt_thread_getport` and `Interrupt` are the client's
side, `lwkt_replymsg`, `lwkt_forwardmsg` and `lwkt_thread_dropmsg` the server's.
`lwkt_abortmsg()` of an interrupted wait is the flag `sentabort`: none of the
modelled messages has an abort callback, and without one the call has no effect
on the message.

### How the modules meet

The serializer and the mutex are composed with the sleep queues (they extend
`Tsleep`, and its variables are theirs). `Tsleep`, `Callout` and `LwktMsgport`
use IPIs as `LwktIpiq` provides them: sent once, delivered eventually
(`Delivered`), answered although the sender waits (`CallsReturn`). They assume
no order, which is less than the FIFO gives.

## 3. Runs

| run | instance | shows |
|---|---|---|
| `serialize` | 2 threads, all entry points | `MutualExclusion`, `OwnerRecorded`, `RequestsCounted`, `NoLostWakeup`, `DisabledHandlerQuiet` in every interleaving of the instructions; `SleepersWoken`; the refinement of `LockSpec` with its liveness |
| `mutex_safe` | 3 threads, shared, exclusive, try and spin locks, recursion 2, uninterrupted waits | `Exclusion`, `CountExact`, `OwnerExact` |
| `mutex_modes` | 2 threads, shared and exclusive, downgrades, upgrades and timeouts | `WaitersSeen`, `SharedWantsExclusive`: neither kind of waiter becomes invisible when the kind of the lock changes under it, or when a waiter that gave up leaves `MTX_EXWANTED` behind |
| `mutex_live` | 2 threads, timeouts, signals and aborts | `HandedOverReturns`: a thread that was handed the lock returns with it, or is stopped by the assertion at 171, whatever races the hand-over; `RingSound`, `RingLocked` |
| `mutex_wakeup` | 2 threads | violation, finding 1 |
| `token` | 2 threads, 2 tokens, stacks of 2 references | `TokenExclusion`, `TokenCountExact`, `RefExact`; `AllOrNone`, the refinement of `TokenSpec`; `SomeThreadRuns` |
| `token_idle` | the same without try, share, swap and yield | violation, finding 2 |
| `callout` | 2 cpus, 2 callouts of which one needs the MP lock | `WheelSound`, `NeverMissed`, `NextOnBucket`, `SyncComplete`, `Expires` |
| `callout_early` | the same, resets and stops only | violation, finding 3 |
| `ipiq` | 2 cpus, FIFOs of 5, 2 calls from each cpu | `FifoBounded`, `Quiescent`, `CpusyncReleased`, `CallsReturn`, `Delivered` |
| `ipiq_xindex` | the same without cpusync | violation, finding 4 |
| `msgport` | 1 client, 1 server that may forward to itself, 2 messages, 2 cpus | `Custody`, `NoMissedWakeup`, `Answered`, as long as no migration overtakes the work on a port |

Each passing run also checks the type invariant of its module, except
`mutex_modes` and `mutex_live`.

The bounds.

- Threads. Three are needed where a holder, a waiter and an intruder meet (a
  hand-over while another thread queues). Two suffice where the question
  concerns a thread and its waker or two cpus in opposite order; that the safety
  properties of all components hold of more threads, cpus and callouts is proved
  (section 6).
- `MaxHold` 2, `MaxRefs` 2: recursion once, which is where the last release
  differs from an earlier one; two references are also what two overlapping
  scans in opposite order need.
- `TokenSpin` 1 and `SpinLoops` 1: each loop can fail, be repeated and come to
  its end. In `token_idle` the inner retries are left out, which only shortens
  the counterexample.
- `WheelSize` 2, `TickRange` 4, `MaxTicks` 1, `MaxLag` 1: callouts of different
  ticks share a bucket, the counters wrap, softticks is level with curticks, one
  ahead or behind. `Home` gives each callout one cpu on which it is reset, from
  which the stops of the other cpu are remote (see the observations in
  section 5). The proofs cover any wheel, counters and timeouts, and, except for
  `SyncComplete`, callouts that are reset on several cpus.
- `MAXCPUFIFO` 5 is the smallest for which the thresholds a half, a quarter and
  two thirds leave the room the sender's assertion asks for; with a `Backlog` of
  2 passive messages the blocking path is reached by the first sends.
  `MaxCalls` 2 lets a cpusync meet a full FIFO, a wait and another cpusync.
- `MaxMoves` 2, `MaxHops` 1: a message can miss its thread twice, and can be
  forwarded once. One server suffices because a message forwarded to the same
  server takes the same path as one forwarded to another; the proofs have any
  number.

All these state spaces are explored completely. Threads are interchangeable
where the run says `SYMMETRY`, which only runs without temporal properties do.

The mutex runs do not treat a stopped system as an error, because finding 1 is
that the code can stop; the IPI runs do not because their threads stop calling
after `MaxCalls`.

`mutex_safe` is restricted to callers for which the code keeps its properties:
without interrupted waits and without mode changes, by the second and third
observations of section 5. The ring properties and the types are proved for every
operation and flag.

## 4. Fairness

- Serializer: weak fairness of each thread's `Step` and of `Ipi`. A cpu keeps
  executing the straight-line code of a thread that is not asleep, an IPI sent
  is delivered, and an owner leaves (`Exit` is in `Step`). Nothing is assumed of
  callers, of handler enabling, or of how often an adaptive enter backs off
  before it sleeps.
- Mutex: the same, and that a holder unlocks (`CallUnlock`), that a sleep with
  a timeout times out (`Interrupt`; `endtsleep` is a callout), and strong
  fairness of `DeleteLock`. A timed-out waiter polls `MTX_EXLINK` in a loop; the
  bit is held for a few instructions at a time by threads that do not block
  while they hold it, so the polling cpu is enabled again and again, and the
  hardware arbitrates. What it excludes are behaviours in which other cpus win
  the bit every single time for ever.
- Tokens: weak fairness of the cpus' steps. Nothing is assumed of the threads'
  calls, nor that a sleeper is woken. No step waits for a token word, since a
  failed try is a step too; so nothing but weak fairness is needed.
- Callouts: the clock ticks and IPIs are answered (weak), a call goes on (weak),
  and the softclock thread gets the cpu and the MP lock again and again
  (strong, because a call that spins for an IPI on its cpu keeps it off for a
  while).
- IPI queues: weak fairness of each cpu, with its interrupts.
- Message ports: a cpu finishes what it is in the middle of (weak); IPIs, those
  of migration included, are taken (strong, because the cpu may be busy with
  something else and turns to them whenever it is done); a client that waits for
  a message, and a server, get the cpu again and again (strong, for the same
  reason), and a server waits for messages and replies to the one it has.
  Nothing is assumed of what clients do next.

## 5. What the violations show

1. `mutex_wakeup` (`kern_mutex.c:161` and `252`). `tsleep_interlock()` is
   followed by a `tsleep()` without `PINTERLOCKED`, which queues the thread
   again; a wakeup between the two is forgotten.
2. `token_idle` (`lwkt_thread.c:825`). Two threads that slept and hold the same
   two tokens in opposite order are looked after by the idle threads of their
   cpus. Each call of `lwkt_switch()` from an idle thread starts with
   `spinning = 0`, so the sorted scan, which ends such conflicts, is not
   reached, and both can undo each other's scans for ever. It takes a
   persistent coincidence of two cpus, which real timing makes unlikely.
3. `callout_early` (`kern_timeout.c:291`). After `get_mplock()` the softclock
   thread compares its callout with `sc->next`. If the callout is stopped
   meanwhile, `sc->next` moves to its successor in the bucket; it is reset onto
   the same bucket, behind the successor, and when the successor is removed too
   it is `sc->next` again, and is called before its time. Without a successor
   `sc->next` is null, and nothing goes wrong.
4. `ipiq_xindex` (`lwkt_ipiq.c:678`). A function that waits for room in its own
   FIFO processes the next message inside it; `ip_xindex` is then set to
   `ip_rindex`, which covers both, and `lwkt_wait_ipiq()` returns before the
   outer function has finished.

Met while modelling, not subjects of a run:

- `lwkt_serialize_handler_try()` (`lwkt_serialize.c:253`) looks at the disable
  bit before it has the serializer and not again, unlike
  `lwkt_serialize_handler_call()`; `DisabledHandlerQuiet` is about the latter;
- when a timed-out waiter has left the ring empty, `mtx_chain_link()`
  (`kern_mutex.c:664`) releases the mutex and leaves `mtx_owner` as it was; until
  the next holder has set it the old owner passes the recursion test;
- the inline `cmpset` of `mtx_downgrade()` (`mutex2.h:246`) stores 0, an unlocked
  mutex, where one shared lock should be left; the function clears `mtx_owner`
  (`mutex2.h:245`) before `_mtx_downgrade()` asserts that the caller is the owner
  (`kern_mutex.c:467`); and the inline `mtx_upgrade_try()` (`mutex2.h:264`) does
  not set `mtx_owner`;
- a waiter aborted before it linked (`kern_mutex.c:133`) gives up `MTX_EXLINK`,
  then looks at the ring, then clears `MTX_EXWANTED`; a waiter that links in
  between is no longer announced;
- `mtx_notlocked_ex()` (`mutex2.h:368-372`) returns the inverse of what its
  comment says, and the comment at `kern_mutex.c:76`, that an error can only be
  returned with `PCATCH`, overlooks the timeout;
- `callout_stop_sync()` and `callout_terminate()` watch `sc->running` of the cpu
  that `c_gd` names (`kern_timeout.c:505-507`); a callout that was reset on
  another cpu while its callback ran may still be running on the old one;
- `callout_terminate()` of a callout that was never reset looks up the cpu of a
  null `c_gd`;
- two cpus that cpusync each other are both in the section between interlock
  and deinterlock at once: each is quiescent for the other, in that its threads
  do not run, but the masters go on;
- the thresholds of the IPI FIFO need `MAXCPUFIFO` of at least 5 for the
  sender's assertion; the code has 32;
- `lwkt_spin_replyport()` (`lwkt_msgport.c:888-892`) reads `ms_flags` after it
  has set `MSGF_DONE`, when the waiter may have returned;
- `mtx_chain_link()` stores `MTX_LINK_ACQUIRED` (`kern_mutex.c:657`) before the
  owner (658). A waiter whose sleep has just been ended by a timeout or a signal
  reads its state without `MTX_EXLINK` and may find itself the holder while
  `mtx_owner` is still another: the assertion at 171 fails (`ExPanic`). Without
  INVARIANTS it returns, and 658 reads a link that may be gone. It takes a
  timeout or a signal: for uninterrupted waits the proof of `MutexOwners` shows
  that the assertion holds;
- a callback that resets its callout while `callout_terminate()` sleeps for it
  makes the assertion at `kern_timeout.c:554` fail (`TerminatePanic`); without
  INVARIANTS the call would return with the callout armed. Nothing in the
  comment above the function asks callers to prevent that;
- `lwkt_msgport.c:425-426` and `477-479` say that messages are queued, and
  replies completed, on the cpu of the thread that owns the port. But `td_gd` is
  tested (448, 500, 525, 584, 612) before the message is queued, and the thread
  may have arrived on another cpu in between: two cpus are then at one tail
  queue, and the look at `MSGPORTF_WAITING` on the old cpu may come before the
  thread sets it on the new one, after it found its port empty, and the wakeup
  is lost. In the model four states lead to the first and nine to the second.
  The window is a few instructions against two context switches and an IPI, so
  it takes an interrupt or a stalled cpu in it;
- the ring `gd_cpusyncq` has 32 entries (`lwkt_ipiq.c:900`) and `SMP_MAXCPU` is
  63: with more than 33 cpus all of which cpusync at once it can be overrun.

## 6. Proofs

Assumed of the constants: `Thread` is finite and does not contain `NULL`,
`NULL` is no channel, the mutex's own channel is no thread, `Ops` and `Flags`
are subsets of the known ones, `MaxHold` is positive; tokens are numbered (by
their addresses) and the bounds of the token model are naturals; there are at
least two cpus, the IPI FIFOs have at least 5 entries and the backlog fits in
them; clients and servers of ports are different threads and each message has a
client; the wheel, the longest timeout and the lag of the softclock are positive,
the range of the tick counters is a multiple of the wheel's size and exceeds
timeout and lag together by more than 1 (in the code 2^32 against a power of two
and positive `int`s). TLC evaluates each of these on the runs. Nothing else is assumed; where a
theorem holds of some callers only, its statement says so.

Serializer, for any number of threads and any selection of entry points:

- `RequestsAreCounted`: `TypeOK /\ RequestsCounted`. The two are inductive
  together; the count stays a natural number only because it is a
  cardinality. The lemma `CountedMoves` says how that cardinality changes when
  one thread moves, and each action cites it. `SerializerTypes` is its first
  half.
- `SerializerExcludes`: `MutualExclusion` is inductive given the types, since it
  ties bit 31 to the program counters.
- `SerializerImplementsLock`: every step of the serializer maps to a step of
  `LockSpec` or to none. Exclusion gives the guards of its `Grant` and `Refuse`.
- `OwnerIsRecorded`: from exclusion, because the owner field is overwritten on
  entry and would otherwise lose somebody.
- `WakeupsNotLost`: `NoLostWakeup` is not inductive, for it says nothing of a
  thread that has queued itself, has seen the lock held and has not yet slept.
  `WakeupComing` extends it to those, and `SleepInv` (`SleepersQueued`) says
  that whoever sleeps is queued. The exit that finds the request count zero
  needs `RequestsCounted`: sleepers are counted, so there are none.
- `DisabledHandlersQuiet`: exclusion is what keeps the bit from changing between
  `Recheck` and the end of the handler.

Mutex, for any number of threads, every operation and every flag:

- `RingIsLocked`: `MTX_EXLINK` excludes. `RingLocked` with the types of the
  word and the program counters (`WordOK`) is inductive. It does not rest on
  the count, so it survives the observations above.
- `RingIsSound`: `TypeOK /\ RingSound`, from `IInv`, which is `TypeOK`,
  `HeldInv` and `RingSound`, together with `RingLocked`. `HeldInv` says that a
  thread about to release believes to hold something and that a releaser or
  aborter knows its target; without it the held counts might leave the natural
  numbers. `RingLocked` is needed because a thread inside a ring section relies
  on nobody unlinking it there. The lemmas `RemoveFromRing`, `AddToRing` and
  `PopRing` say what the sequence operations do to a ring without repetitions;
  one lemma for each group of actions then covers the step. `MutexTypes` is the
  first half.
- `SharedWaitersSeen`: `SharedWantsExclusive`, from `BitInv`, which adds that a
  word with the count zero has none of the bits that say who holds or wants the
  lock (`BitsCounted`).

Mutex, for the callers of which the code keeps the property:

- `WaitersAreSeen`: `WaitersSeen` where nobody calls `mtx_abort_ex_link()`. The
  hypothesis is needed: a waiter aborted before it linked clears
  `MTX_EXWANTED` when it no longer has the ring (fourth observation of
  section 5). `SeenInv` adds that whoever is about to link has set the bit and
  that a release that clears it has found the ring empty.
- `MutexExcludes`, `MutexCounts`, `MutexOwners`: `Exclusion`, `CountExact` and
  `OwnerExact` under `Uninterrupted`, that is, no timeouts, signals, aborts,
  downgrades or upgrades. These are the callers of the run `mutex_safe`; for the
  others the second and third observations of section 5 are counterexamples.
  All three come from `LockInvariant`, `WaitInv /\ HoldInv`. `WaitInv` is about
  the hand-over: link and sleep agree with the program counter, a link that was
  picked is woken once and only then (`WakeOK`), and a release that sees
  `MTX_EXWANTED` finds a link (`WantOK`). Without `WakeOK` a second wakeup could
  let a waiter go on whose next link has not been picked. `HoldInv` is about the
  word: what each place says of the locks its thread holds, and who is the owner
  there, including the gaps in which word and owner differ, between `ExFree` and
  `SetOwner`, between `UnOwner` and the release and, in a hand-over, between
  `ChainPick` and `ChainOwner`. The lemma `NoPanic` says that the assertion at
  171 does not fail: nobody but the releaser wakes the thread it has picked, and
  it does so after `ChainOwner`.

Tokens, for any finite number of threads and any set of tokens:

- `TokenInvariant`: `TokenInv` is inductive. `LocalInv` says where a thread can
  be in a scan of its own stack (`Placed`); `WordInv` says of each token that
  `t_count` is exactly the held references, that there is at most one exclusive
  one, that shared ones beside it are of the same thread, and that `t_ref` names
  it unless its holder is just before setting or after clearing it (`Exact`,
  `Withdrawn`). What is held is defined by the position of the scan, so that
  the half-done acquisitions of `lwkt_getalltokens()` and their undoing are
  counted too.
- `TokenTypes`, `TokensExclude`, `TokenCountsExact`, `TokenRefsExact`: `TypeOK`,
  `TokenExclusion`, `TokenCountExact` and `RefExact` follow from it.
- `TokensAllOrNone`: the refinement of `TokenSpec`. Every step maps to a step of
  it or to none. `StackInv` is needed beside `TokenInv`: no stack has two
  exclusive references to one token, since the second finds the first by
  `t_ref`; so the try that the abstract specification would grant succeeds.

IPI queues, for any number of cpus, any length of the FIFOs from 5 on and any
nesting of calls:

- `FifosBounded`: `FifoBounded` with the types and `StackInv`, the shape of each
  call and how calls nest: only the innermost call of a cpu is not waiting for
  one inside it, so a cpu is between the test of a FIFO and its write at most
  once for each FIFO. `IpiqTypes` is part of it.
- `PollRing`: `PollRingFits` under `FewCpus`. A cpu has each other cpu on its
  poll list once at most and never itself, which is part of `PollInv` below; a
  list of different cpus is no longer than there are cpus.
- `CpusyncQuiescent`, `CpusyncReleases`: `Quiescent` and `CpusyncReleased`, each
  together with `PollRingFits` and under `FewCpus`, without which the model's
  poll list would not be the code's. They come from `SyncInv`. It follows the
  request of each cpusync to each cpu through the places it can be in (to be
  sent, being sent, in the FIFO, being answered;
  then held in a function or on the poll list), says that it is in one of them
  only, and ties that place to `cs_mack` in each stage of the master
  (`RequestInv`). `PollInv` says that a cpu with a poll list has a call under
  way that will look at it.

Message ports, for any number of clients, servers, messages and cpus:

- `MsgportInvariant`: `Inv` is inductive. `PortInv` says that the two queues of
  a port have no repetitions and nothing in common; `PlaceInv` that every
  message is in exactly one place, which also fixes its flags: back with its
  client, on the reply port, on a server's port, carried by an IPI to the port
  of a thread that may have moved, in the hands of a server, or of a cpu that has
  yet to queue it. `ThreadInv` and `CpuInv` tie program counters, what a thread
  waits for and what its cpu does. `SleepInv` is about sleep, unless `raced`: work
  on a port is then done on the cpu of its thread (`AboutOK`), so that no other
  cpu queues anything between the thread's test and its sleep.
- `MsgportTypes`, `MessagesInCustody`: `TypeOK` and `Custody`. The counts of
  `Custody` follow since each place holds a message once at most. `Custody` is
  stated for behaviours without an overtaking migration (`raced`), because after
  one the queues of the code need not be sequences any more.
- `WaitsNotMissed`: `NoMissedWakeup`, of the same behaviours; of others it is
  false (section 5). It needs `ThreadInv`: a client waits for
  messages of its own only, and not for those that may be dropped, so that only
  a reply to its port, which schedules it, completes what it waits for.

Callouts, for any number of cpus and callouts and any size of the wheel and of
the counters:

- `CalloutInvariant`: `Inv` is inductive. `Sound` is the wheels: no bucket has a
  callout twice, a callout is on a bucket exactly when it is pending there
  (`BucketOK`), and while the softclock is outside its critical section every
  callout of the current bucket that is due is `sc->next` or after it in the
  queue (`ScanOK`). `NeverMissed` alone is not inductive: the end of a bucket
  moves softticks on, and only `ScanOK` says that nothing due is left there.
  `ClockOK` bounds how far softticks is behind (`Lag`), without which a timeout
  could come to lie behind it when the counters wrap. `FlagsOK` ties the flags
  to the call under way, so that the removals find what they remove. `Sound`
  has the set of callouts taken off as a parameter, since `callout_reset()`
  removes and inserts in one step. The lemmas on ticks (`SinceIs`, `PlusIs`,
  `Distances`, `Timeout`) do the arithmetic modulo the range once.
- `CalloutTypes`, `WheelsAreSound`, `NothingMissed`, `NextIsOnBucket`: `TypeOK`,
  `WheelSound`, `NeverMissed` and `NextOnBucket` follow from it.
- `SynchronousStops`: `SyncComplete` where each callout is reset on one cpu only
  (`OneHome`), which the observation on `kern_timeout.c:505-507` in section 5
  makes necessary. `SyncInv` says that a callout runs on the cpu that `c_gd`
  names, which is also the one the caller watches, and that one still running
  when the caller checks the flags again has been reset, and so is active. The
  callback is free to reset the callout while either call sleeps: the caller then
  finds it active, and `callout_stop_sync()` starts over and `callout_terminate()`
  fails its assertion.
- `TerminateReturns`: that assertion (554) does not fail where callbacks do not
  reset their callout (`"rearm"` is not in `Ops`), by `FlagsOK`.
- `MpSafeOnTime`: a callout that does not need the MP lock is called in the tick
  it was set for. Finding 3 is thus confined to the others.

Only model-checked: the liveness properties (`SleepersWoken`, `FreeLockGranted`,
`HandedOverReturns`, `SomeThreadRuns`, `Expires`, `CallsReturn`, `Delivered`,
`Answered`), which are out of the proof system's reach. Every other property of
the passing runs is stated by a theorem.

## 7. Plan

1. The spinlock, which the lockmgr lock and the spin ports rest on; then
   `lockmgr()` with its upgrades and drains, and `sysref` with the vnode life
   cycle on top of it.
2. `subr_blist.c` and `kern_lockf.c` as pure algorithms against a set of free
   blocks and a map from bytes to owners.

## 8. Not modelled

- Of the sleep queues: `wakeup_one` and wakeup domains, `ssleep`, `lksleep`,
  `mtxsleep` and `zsleep` (wrappers that release a lock between interlock and
  sleep), process stop and resume, load averages, the scheduler clock.
- Spinlocks, lockmgr locks, reference-counted structures, the vnode life cycle,
  record locks, the bitmap allocator and task queues: within reach of the same
  method, and in the plan; not begun.
- Of the message ports: the abort callback of a message, and the spin,
  serializer, null and panic backends.
- Of the IPI queues: `lwkt_synchronize_ipiqs()`, a send to the own cpu, which is
  a function call, and the clock tick's poll for passive messages.
- Of the scheduler: the order of the run queue, preemption, and the interplay
  with the user scheduler. Migration is modelled in `LwktMsgport` as far as the
  ports depend on it, without the queues of all threads (`gd_tdallq`).
- Of the mutex: `mtx_hold()`/`mtx_drop()`, a reference count that the lock does
  not read, and statistics.
- The x86_64 memory order: every modelled access to a shared word is a
  bus-locked instruction, or a plain load or store that x86 does not reorder
  with those.
- BHyVe (`sys/platform/pc64/vmm`): the port is incomplete and consists mostly of
  VT-x register programming.
- HAMMER and the other file systems, the network stack: very large; the
  flush order of HAMMER and the dispatch of packets by message port would each
  be a project.
- Drivers, platform and boot code, userland and contributed software: hardware
  access, third-party code, or programs without shared state.

## 9. Running the checks

```
tlc -config serialize.cfg MCLwktSerialize
tlc -config mutex_safe.cfg MCKernMutex
tlc -config token.cfg MCLwktToken
tlc -config callout.cfg MCCallout
tlc -config ipiq.cfg MCLwktIpiq
tlc -config msgport.cfg MCLwktMsgport
tlapm LwktSerialize_proofs.tla
tlapm KernMutex_proofs.tla
tlapm LwktToken_proofs.tla
tlapm LwktIpiq_proofs.tla
tlapm LwktMsgport_proofs.tla
tlapm Callout_proofs.tla
tlapm Tailq_proofs.tla
```

`PROJECT.json` lists every run with its configuration and what it shows, the
source lines of every definition, and the theorems.
