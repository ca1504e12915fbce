------------------------------ MODULE KernMutex ------------------------------
(***************************************************************************)
(* The kernel mutex (sys/kern/kern_mutex.c, sys/sys/mutex.h, mutex2.h): a  *)
(* recursive shared/exclusive lock held across blocking.  Waiters for an   *)
(* exclusive lock queue a link in a ring, and the last release hands the   *)
(* lock to the first of them; waiters for a shared lock get a mass wakeup. *)
(*                                                                         *)
(* A load of mtx_lock followed by a cmpset of it that either succeeds or   *)
(* is retried is one action, taken when the cmpset succeeds.  The writes   *)
(* of mtx_owner, which is a word of its own, and the calls of wakeup() are *)
(* actions of their own.  What a thread does while it holds MTX_EXLINK is  *)
(* one action up to the release of the bit, except in mtx_chain_link(): a  *)
(* sleeper whose sleep has failed reads the state of its link without the  *)
(* bit, between any two of the stores made there.                          *)
(***************************************************************************)
EXTENDS Tsleep, FiniteSets, Sequences

CONSTANTS
  Ops,        \* the operations the threads call
  Flags,      \* what a blocking call passes to tsleep(): "PCATCH", and
              \*   "TIMO" for a timeout
  MaxHold     \* bound: how often a thread recurses

ExOps == {"ex", "ex_link", "ex_try", "spin", "spin_try"}
ShOps == {"sh", "sh_try"}
AllOps == ExOps \cup ShOps \cup {"downgrade", "upgrade_try", "abort"}

ASSUME OpsAssumption == Ops \subseteq AllOps
ASSUME FlagsAssumption == Flags \subseteq {"PCATCH", "TIMO"}
ASSUME MaxHoldAssumption == MaxHold \in Nat \ {0}
ASSUME ThreadAssumption == IsFiniteSet(Thread)

VARIABLES
  mtx_lock,   \* the word: MTX_EXCLUSIVE, MTX_SHWANTED, MTX_EXWANTED,
              \*   MTX_EXLINK and the count under MTX_MASK
  mtx_owner,  \* the exclusive owner
  mtx_link,   \* the ring of links from mtx->mtx_link on, by their threads
  link,       \* the state of each thread's link
  pc,         \* where each thread is
  op,         \* the operation it is in
  target,     \* the link a releaser chained to, or an abort is about
  error,      \* the result of its tsleep()
  exheld,     \* the exclusive and the shared counts each thread believes
  shheld      \*   it holds

mtxVars == <<mtx_lock, mtx_owner, mtx_link>>
heldVars == <<exheld, shheld>>
vars == <<mtxVars, link, pc, op, target, error, heldVars, sleepVars>>

Mtx == "mtx"                         \* the channel of the shared waiters
Chan == {Mtx} \cup Thread            \* each link is a channel too

ASSUME ChanAssumption == NULL \notin Chan /\ Mtx \notin Thread

LinkStates == {"IDLE", "LINKED", "ACQUIRED", "ABORTED"}

PCs == {"idle", "ex", "ex_owner", "ex_link", "early_read", "early_clear",
        "ex_tsleep", "ex_asleep", "ex_woken", "del_wait", "del", "ex_check",
        "sh", "sh_want", "sh_tsleep", "sh_asleep",
        "un", "un_ex", "chain", "chain_owner", "chain_clear", "chain_null",
        "wake_sh", "wake_link", "down", "down_slow", "upgrade", "ab_wait",
        "ab", "panic"}

TypeOK ==
  /\ mtx_lock \in [ex : BOOLEAN, shw : BOOLEAN, exw : BOOLEAN,
                   exlink : BOOLEAN, cnt : Nat]
  /\ mtx_owner \in Thread \cup {NULL}
  /\ mtx_link \in Seq(Thread)
  /\ link \in [Thread -> LinkStates]
  /\ pc \in [Thread -> PCs]
  /\ op \in [Thread -> AllOps \cup {"none"}]
  /\ target \in [Thread -> Thread \cup {NULL}]
  /\ error \in [Thread -> BOOLEAN]
  /\ exheld \in [Thread -> Nat]
  /\ shheld \in [Thread -> Nat]
  /\ SleepTypeOK(Chan)

Unlocked == [ex |-> FALSE, shw |-> FALSE, exw |-> FALSE, exlink |-> FALSE,
             cnt |-> 0]

mtx_init ==
  /\ mtx_lock = Unlocked
  /\ mtx_owner = NULL
  /\ mtx_link = << >>
  /\ link = [t \in Thread |-> "IDLE"]
  /\ pc = [t \in Thread |-> "idle"]
  /\ op = [t \in Thread |-> "none"]
  /\ target = [t \in Thread |-> NULL]
  /\ error = [t \in Thread |-> FALSE]
  /\ exheld = [t \in Thread |-> 0]
  /\ shheld = [t \in Thread |-> 0]
  /\ SleepInit

Goto(t, from, to) ==
  /\ pc[t] = from
  /\ pc' = [pc EXCEPT ![t] = to]
  /\ UNCHANGED op

(* t's call returns.                                                       *)
Return(t, from) ==
  /\ pc[t] = from
  /\ pc' = [pc EXCEPT ![t] = "idle"]
  /\ op' = [op EXCEPT ![t] = "none"]

Gain(held, t) == held' = [held EXCEPT ![t] = @ + 1]
Lose(held, t) == held' = [held EXCEPT ![t] = @ - 1]

(* t gives up one of the locks it holds.                                   *)
Drop(t) ==
  \/ exheld[t] > 0 /\ Lose(exheld, t) /\ UNCHANGED shheld
  \/ exheld[t] = 0 /\ Lose(shheld, t) /\ UNCHANGED exheld

-----------------------------------------------------------------------------
(* Calls.  A thread recurses in the mode in which it holds the mutex: in   *)
(* the other one it would wait for itself.                                 *)

CallEx(t, o) ==
  /\ o \in Ops \cap ExOps
  /\ pc[t] = "idle" /\ shheld[t] = 0 /\ exheld[t] < MaxHold
  /\ pc' = [pc EXCEPT ![t] = "ex"]
  /\ op' = [op EXCEPT ![t] = o]
  /\ link' = [link EXCEPT ![t] = "IDLE"]        \* mtx_link_init()
  /\ UNCHANGED <<mtxVars, target, error, heldVars, sleepVars>>

CallSh(t, o) ==
  /\ o \in Ops \cap ShOps
  /\ pc[t] = "idle" /\ exheld[t] = 0 /\ shheld[t] < MaxHold
  /\ pc' = [pc EXCEPT ![t] = "sh"]
  /\ op' = [op EXCEPT ![t] = o]
  /\ UNCHANGED <<mtxVars, link, target, error, heldVars, sleepVars>>

CallUnlock(t) ==
  /\ exheld[t] + shheld[t] > 0
  /\ Goto(t, "idle", "un")
  /\ UNCHANGED <<mtxVars, link, target, error, heldVars, sleepVars>>

-----------------------------------------------------------------------------
(* __mtx_lock_ex(), _mtx_lock_ex_try(), _mtx_spinlock(),                   *)
(* _mtx_spinlock_try() and the inline cmpset in front of each.             *)

(* The mutex is free: take it.                                             *)
ExFree(t) ==
  /\ mtx_lock = Unlocked
  /\ Goto(t, "ex", "ex_owner")
  /\ mtx_lock' = [mtx_lock EXCEPT !.ex = TRUE, !.cnt = 1]
  /\ Gain(exheld, t)
  /\ UNCHANGED <<mtx_owner, mtx_link, link, target, error, shheld, sleepVars>>

SetOwner(t) ==
  /\ Return(t, "ex_owner")
  /\ mtx_owner' = t
  /\ UNCHANGED <<mtx_lock, mtx_link, link, target, error, heldVars, sleepVars>>

(* t owns the mutex already.                                               *)
ExRecurse(t) ==
  /\ mtx_lock.ex /\ mtx_owner = t
  /\ Return(t, "ex")
  /\ mtx_lock' = [mtx_lock EXCEPT !.cnt = @ + 1]
  /\ Gain(exheld, t)
  /\ UNCHANGED <<mtx_owner, mtx_link, link, target, error, shheld, sleepVars>>

Held(t) == mtx_lock # Unlocked /\ ~(mtx_lock.ex /\ mtx_owner = t)

(* EAGAIN.                                                                 *)
ExTryFail(t) ==
  /\ op[t] \in {"ex_try", "spin_try"}
  /\ Held(t)
  /\ Return(t, "ex")
  /\ UNCHANGED <<mtxVars, link, target, error, heldVars, sleepVars>>

(* Announce the wait and get the ring; a spinlock just spins.              *)
ExWant(t) ==
  /\ op[t] \in {"ex", "ex_link"}
  /\ Held(t) /\ ~mtx_lock.exlink
  /\ Goto(t, "ex", "ex_link")
  /\ mtx_lock' = [mtx_lock EXCEPT !.exw = TRUE, !.exlink = TRUE]
  /\ UNCHANGED <<mtx_owner, mtx_link, link, target, error, heldVars, sleepVars>>

(* Link in at the end of the ring, queue for the wakeup, release the ring. *)
ExLink(t) ==
  /\ link[t] # "ABORTED"
  /\ Goto(t, "ex_link", "ex_tsleep")
  /\ link' = [link EXCEPT ![t] = "LINKED"]
  /\ mtx_link' = Append(mtx_link, t)
  /\ mtx_lock' = [mtx_lock EXCEPT !.exlink = FALSE]
  /\ tsleep_interlock(t, t)
  /\ UNCHANGED <<mtx_owner, target, error, heldVars>>

(* Early abort: release the ring, then look at it, then clear EXWANTED.    *)
EarlyAbort(t) ==
  /\ link[t] = "ABORTED"
  /\ Goto(t, "ex_link", "early_read")
  /\ mtx_lock' = [mtx_lock EXCEPT !.exlink = FALSE]
  /\ UNCHANGED <<mtx_owner, mtx_link, link, target, error, heldVars, sleepVars>>

EarlyRead(t) ==
  /\ \/ mtx_link = << >> /\ Goto(t, "early_read", "early_clear")
     \/ mtx_link # << >> /\ Return(t, "early_read")
  /\ UNCHANGED <<mtxVars, link, target, error, heldVars, sleepVars>>

EarlyClear(t) ==
  /\ Return(t, "early_clear")
  /\ mtx_lock' = [mtx_lock EXCEPT !.exw = FALSE]
  /\ UNCHANGED <<mtx_owner, mtx_link, link, target, error, heldVars, sleepVars>>

ExSleep(t) ==
  /\ Goto(t, "ex_tsleep", "ex_asleep")
  /\ tsleep(t, t, Flags)
  /\ UNCHANGED <<mtxVars, link, target, error, heldVars>>

ExWake(t) ==
  /\ Goto(t, "ex_asleep", "ex_woken")
  /\ tsleep_return(t)
  /\ error' = [error EXCEPT ![t] = intr[t]]
  /\ UNCHANGED <<mtxVars, link, target, heldVars>>

(* mtx_delete_link() is called if the link is still queued.                *)
ExWoken(t) ==
  /\ Goto(t, "ex_woken", IF link[t] = "LINKED" THEN "del_wait" ELSE "ex_check")
  /\ UNCHANGED <<mtxVars, link, target, error, heldVars, sleepVars>>

(* Take t's link out: the ring now starts at its successor.                *)
Unlink(t) ==
  LET i == CHOOSE j \in DOMAIN mtx_link : mtx_link[j] = t
  IN  mtx_link' = SubSeq(mtx_link, i + 1, Len(mtx_link))
                    \o SubSeq(mtx_link, 1, i - 1)

(* Slip: the ring is entered while another thread is in it.                *)
LockRing_NoWait(t, from, to) ==
  /\ Goto(t, from, to)
  /\ mtx_lock' = [mtx_lock EXCEPT !.exlink = TRUE]
  /\ UNCHANGED <<mtx_owner, mtx_link, link, target, error, heldVars, sleepVars>>

LockRing(t, from, to) ==
  /\ ~mtx_lock.exlink
  /\ Goto(t, from, to)
  /\ mtx_lock' = [mtx_lock EXCEPT !.exlink = TRUE]
  /\ UNCHANGED <<mtx_owner, mtx_link, link, target, error, heldVars, sleepVars>>

DeleteLock(t) == LockRing(t, "del_wait", "del")

(* Slip: the link is marked idle but stays in the ring.                    *)
mtx_delete_link_Gone(t) ==
  /\ Goto(t, "del", "ex_check")
  /\ \/ /\ link[t] = "LINKED"
        /\ UNCHANGED mtx_link
        /\ link' = [link EXCEPT ![t] = "IDLE"]
     \/ link[t] # "LINKED" /\ UNCHANGED <<mtx_link, link>>
  /\ mtx_lock' = [mtx_lock EXCEPT !.exlink = FALSE]
  /\ UNCHANGED <<mtx_owner, target, error, heldVars, sleepVars>>

mtx_delete_link(t) ==
  /\ Goto(t, "del", "ex_check")
  /\ \/ /\ link[t] = "LINKED"
        /\ Unlink(t)
        /\ link' = [link EXCEPT ![t] = "IDLE"]
     \/ link[t] # "LINKED" /\ UNCHANGED <<mtx_link, link>>
  /\ mtx_lock' = [mtx_lock EXCEPT !.exlink = FALSE]
  /\ UNCHANGED <<mtx_owner, target, error, heldVars, sleepVars>>

(* Slip: a lock that was handed over is not noticed.                       *)
ExDone_NotAcquired(t) ==
  /\ link[t] = "ABORTED" \/ error[t]
  /\ Return(t, "ex_check")
  /\ link' = [link EXCEPT ![t] = "IDLE"]
  /\ error' = [error EXCEPT ![t] = FALSE]
  /\ UNCHANGED <<mtxVars, target, heldVars, sleepVars>>

(* The lock was handed to t, or its wait was aborted or failed; the link   *)
(* is dead then and reads as IDLE.                                         *)
ExDone(t) ==
  /\ \/ link[t] = "ACQUIRED" /\ mtx_owner = t
     \/ link[t] = "ABORTED"
     \/ link[t] # "ACQUIRED" /\ error[t]
  /\ Return(t, "ex_check")
  /\ link' = [link EXCEPT ![t] = "IDLE"]
  /\ error' = [error EXCEPT ![t] = FALSE]
  /\ UNCHANGED <<mtxVars, target, heldVars, sleepVars>>

(* KKASSERT(mtx->mtx_owner == link->owner) fails: t never returns.         *)
ExPanic(t) ==
  /\ link[t] = "ACQUIRED" /\ mtx_owner # t
  /\ Goto(t, "ex_check", "panic")
  /\ UNCHANGED <<mtxVars, link, target, error, heldVars, sleepVars>>

(* A spurious wakeup: try again.                                           *)
ExRetry(t) ==
  /\ link[t] = "IDLE" /\ ~error[t]
  /\ Goto(t, "ex_check", "ex")
  /\ UNCHANGED <<mtxVars, link, target, error, heldVars, sleepVars>>

-----------------------------------------------------------------------------
(* __mtx_lock_sh(), _mtx_lock_sh_try().                                    *)

ShFree(t) ==
  /\ ~mtx_lock.ex
  /\ Return(t, "sh")
  /\ mtx_lock' = [mtx_lock EXCEPT !.cnt = @ + 1]
  /\ Gain(shheld, t)
  /\ UNCHANGED <<mtx_owner, mtx_link, link, target, error, exheld, sleepVars>>

ShTryFail(t) ==
  /\ op[t] = "sh_try" /\ mtx_lock.ex
  /\ Return(t, "sh")
  /\ UNCHANGED <<mtxVars, link, target, error, heldVars, sleepVars>>

ShInterlock(t) ==
  /\ op[t] = "sh" /\ mtx_lock.ex
  /\ Goto(t, "sh", "sh_want")
  /\ tsleep_interlock(t, Mtx)
  /\ UNCHANGED <<mtxVars, link, target, error, heldVars>>

ShWant(t) ==
  /\ mtx_lock.ex
  /\ Goto(t, "sh_want", "sh_tsleep")
  /\ mtx_lock' = [mtx_lock EXCEPT !.shw = TRUE]
  /\ UNCHANGED <<mtx_owner, mtx_link, link, target, error, heldVars, sleepVars>>

(* The cmpset fails, for any bit or count that changed since the load, and *)
(* the value loaded is not kept here: leave the sleep queue and try again. *)
ShRetry(t) ==
  /\ Goto(t, "sh_want", "sh")
  /\ tsleep_remove(t)
  /\ UNCHANGED <<mtxVars, link, target, error, heldVars>>

ShSleep(t) ==
  /\ Goto(t, "sh_tsleep", "sh_asleep")
  /\ tsleep(t, Mtx, Flags)
  /\ UNCHANGED <<mtxVars, link, target, error, heldVars>>

ShWake(t) ==
  /\ IF intr[t] THEN Return(t, "sh_asleep") ELSE Goto(t, "sh_asleep", "sh")
  /\ tsleep_return(t)
  /\ UNCHANGED <<mtxVars, link, target, error, heldVars>>

-----------------------------------------------------------------------------
(* _mtx_unlock() and the inline forms of mtx_unlock().                     *)

(* Only EXLINK survives the last release.                                  *)
Released == [Unlocked EXCEPT !.exlink = mtx_lock.exlink]

(* Slip: the last count is taken twice.                                    *)
UnShared_Under(t) ==
  /\ ~mtx_lock.ex /\ ~mtx_lock.exw /\ mtx_lock.cnt = 1
  /\ Return(t, "un")
  /\ mtx_lock' = [mtx_lock EXCEPT !.cnt = @ - 2]
  /\ Drop(t)
  /\ UNCHANGED <<mtx_owner, mtx_link, link, target, error, sleepVars>>

(* Last release, shared lock, no exclusive waiters.                        *)
UnShared(t) ==
  /\ ~mtx_lock.ex /\ ~mtx_lock.exw /\ mtx_lock.cnt = 1
  /\ Return(t, "un")
  /\ mtx_lock' = Released
  /\ Drop(t)
  /\ UNCHANGED <<mtx_owner, mtx_link, link, target, error, sleepVars>>

(* Slip: the owner is not forgotten.                                       *)
UnOwner_Keep(t) ==
  /\ mtx_lock.ex /\ ~mtx_lock.exw /\ mtx_lock.cnt = 1
  /\ Goto(t, "un", "un_ex")
  /\ UNCHANGED <<mtxVars, link, target, error, heldVars, sleepVars>>

(* Last release, exclusive lock, no exclusive waiters: first the owner.    *)
UnOwner(t) ==
  /\ mtx_lock.ex /\ ~mtx_lock.exw /\ mtx_lock.cnt = 1
  /\ Goto(t, "un", "un_ex")
  /\ mtx_owner' = NULL
  /\ UNCHANGED <<mtx_lock, mtx_link, link, target, error, heldVars, sleepVars>>

(* Then the word; an exclusive waiter may have come between the two.       *)
UnExclusive(t) ==
  /\ IF mtx_lock.ex /\ ~mtx_lock.exw /\ mtx_lock.cnt = 1
     THEN /\ IF mtx_lock.shw THEN Goto(t, "un_ex", "wake_sh") ELSE Return(t, "un_ex")
          /\ mtx_lock' = Released
          /\ Drop(t)
     ELSE Goto(t, "un_ex", "un") /\ UNCHANGED <<mtx_lock, heldVars>>
  /\ UNCHANGED <<mtx_owner, mtx_link, link, target, error, sleepVars>>

(* Last release with exclusive waiters: keep the lock, or make the shared  *)
(* one exclusive, and get the ring.                                        *)
UnChain(t) ==
  /\ mtx_lock.exw /\ mtx_lock.cnt = 1 /\ ~mtx_lock.exlink
  /\ Goto(t, "un", "chain")
  /\ mtx_lock' = [mtx_lock EXCEPT !.ex = TRUE, !.exlink = TRUE]
  /\ \/ exheld[t] > 0 /\ UNCHANGED heldVars
     \/ exheld[t] = 0 /\ Gain(exheld, t) /\ Lose(shheld, t)
  /\ UNCHANGED <<mtx_owner, mtx_link, link, target, error, sleepVars>>

(* Not the last release.  A caller holds the lock, so the count is not 0.  *)
UnCount(t) ==
  /\ mtx_lock.cnt > 1
  /\ Return(t, "un")
  /\ mtx_lock' = [mtx_lock EXCEPT !.cnt = @ - 1]
  /\ Drop(t)
  /\ UNCHANGED <<mtx_owner, mtx_link, link, target, error, sleepVars>>

(* mtx_chain_link(): the first link in the ring gets the lock ...          *)
ChainPick(t) ==
  /\ Goto(t, "chain", IF mtx_link = << >> THEN "chain_clear" ELSE "chain_owner")
  /\ \/ /\ mtx_link # << >>
        /\ LET next == Head(mtx_link) IN
           /\ link' = [link EXCEPT ![next] = "ACQUIRED"]
           /\ target' = [target EXCEPT ![t] = next]
           /\ exheld' = [exheld EXCEPT ![t] = @ - 1, ![next] = @ + 1]
        /\ mtx_link' = Tail(mtx_link)
     \/ /\ mtx_link = << >>
        /\ UNCHANGED <<link, target, exheld, mtx_link>>
  /\ UNCHANGED <<mtx_lock, mtx_owner, error, shheld, sleepVars>>

(* Slip: the new owner is not recorded.                                    *)
ChainOwner_Not(t) ==
  /\ Goto(t, "chain_owner", "chain_clear")
  /\ UNCHANGED <<mtxVars, link, target, error, heldVars, sleepVars>>

(* ... and is then recorded as the owner.  A timeout or a signal may have  *)
(* ended the sleep of the thread in between, and a link that has gone off  *)
(* its stack is read for whatever is there.                                *)
ChainOwner(t) ==
  /\ Goto(t, "chain_owner", "chain_clear")
  /\ mtx_owner' \in IF link[target[t]] = "ACQUIRED" THEN {target[t]}
                                                   ELSE Thread \cup {NULL}
  /\ UNCHANGED <<mtx_lock, mtx_link, link, target, error, heldVars, sleepVars>>

(* Slip: the count is released although the lock is handed over.           *)
ChainHandOff_Count(t) ==
  /\ target[t] # NULL
  /\ Goto(t, "chain_clear", "wake_link")
  /\ mtx_lock' = [mtx_lock EXCEPT !.exlink = FALSE, !.cnt = 0,
                                  !.exw = @ /\ mtx_link # << >>]
  /\ UNCHANGED <<mtx_owner, mtx_link, link, target, error, heldVars, sleepVars>>

(* Release the ring, and EXWANTED with the last link ...                   *)
ChainHandOff(t) ==
  /\ target[t] # NULL
  /\ Goto(t, "chain_clear", "wake_link")
  /\ mtx_lock' = [mtx_lock EXCEPT !.exlink = FALSE,
                                  !.exw = @ /\ mtx_link # << >>]
  /\ UNCHANGED <<mtx_owner, mtx_link, link, target, error, heldVars, sleepVars>>

(* ... or, the ring being empty, the lock's last count and all its bits.   *)
ChainRelease(t) ==
  /\ target[t] = NULL
  /\ IF mtx_lock.shw THEN Goto(t, "chain_clear", "chain_null")
                     ELSE Return(t, "chain_clear")
  /\ mtx_lock' = [Unlocked EXCEPT !.cnt = mtx_lock.cnt - (mtx_lock.cnt % 2)]
  /\ Lose(exheld, t)
  /\ UNCHANGED <<mtx_owner, mtx_link, link, target, error, shheld, sleepVars>>

ChainNull(t) ==
  /\ Goto(t, "chain_null", "wake_sh")
  /\ mtx_owner' = NULL
  /\ UNCHANGED <<mtx_lock, mtx_link, link, target, error, heldVars, sleepVars>>

WakeShared(t) ==
  /\ Return(t, "wake_sh")
  /\ wakeup(t, Mtx)
  /\ UNCHANGED <<mtxVars, link, target, error, heldVars>>

WakeLink(t) ==
  /\ Return(t, "wake_link")
  /\ wakeup(t, target[t])
  /\ target' = [target EXCEPT ![t] = NULL]
  /\ UNCHANGED <<mtxVars, link, error, heldVars>>

-----------------------------------------------------------------------------
(* mtx_downgrade(), mtx_upgrade_try().                                     *)

Downgrade(t) ==
  /\ "downgrade" \in Ops
  /\ exheld[t] + shheld[t] > 0
  /\ pc[t] = "idle"
  /\ pc' = [pc EXCEPT ![t] = "down"]
  /\ op' = [op EXCEPT ![t] = "downgrade"]
  /\ mtx_owner' = NULL
  /\ UNCHANGED <<mtx_lock, mtx_link, link, target, error, heldVars, sleepVars>>

ToShared(t) ==
  /\ shheld' = [shheld EXCEPT ![t] = @ + exheld[t]]
  /\ exheld' = [exheld EXCEPT ![t] = 0]

(* The inline cmpset of an uncontended single count.                       *)
DowngradeFast(t) ==
  /\ mtx_lock = [Unlocked EXCEPT !.ex = TRUE, !.cnt = 1]
  /\ Return(t, "down")
  /\ mtx_lock' = Unlocked
  /\ ToShared(t)
  /\ UNCHANGED <<mtx_owner, mtx_link, link, target, error, sleepVars>>

DowngradeSlow(t) ==
  /\ mtx_lock # [Unlocked EXCEPT !.ex = TRUE, !.cnt = 1]
  /\ Goto(t, "down", "down_slow")
  /\ UNCHANGED <<mtxVars, link, target, error, heldVars, sleepVars>>

(* Slip: SHWANTED survives the downgrade.                                  *)
_mtx_downgrade_KeepWanted(t) ==
  /\ mtx_lock.ex
  /\ IF mtx_lock.shw THEN Goto(t, "down_slow", "wake_sh") ELSE Return(t, "down_slow")
  /\ mtx_lock' = [mtx_lock EXCEPT !.ex = FALSE]
  /\ ToShared(t)
  /\ UNCHANGED <<mtx_owner, mtx_link, link, target, error, sleepVars>>

_mtx_downgrade(t) ==
  /\ mtx_lock.ex
  /\ IF mtx_lock.shw THEN Goto(t, "down_slow", "wake_sh") ELSE Return(t, "down_slow")
  /\ mtx_lock' = [mtx_lock EXCEPT !.ex = FALSE, !.shw = FALSE]
  /\ ToShared(t)
  /\ UNCHANGED <<mtx_owner, mtx_link, link, target, error, sleepVars>>

(* A shared lock is left as it is.                                         *)
DowngradeNop(t) ==
  /\ ~mtx_lock.ex
  /\ Return(t, "down_slow")
  /\ UNCHANGED <<mtxVars, link, target, error, heldVars, sleepVars>>

CallUpgrade(t) ==
  /\ "upgrade_try" \in Ops
  /\ exheld[t] + shheld[t] > 0
  /\ pc[t] = "idle"
  /\ pc' = [pc EXCEPT ![t] = "upgrade"]
  /\ op' = [op EXCEPT ![t] = "upgrade_try"]
  /\ UNCHANGED <<mtxVars, link, target, error, heldVars, sleepVars>>

ToExclusive(t) ==
  /\ mtx_lock' = [mtx_lock EXCEPT !.ex = TRUE]
  /\ exheld' = [exheld EXCEPT ![t] = @ + shheld[t]]
  /\ shheld' = [shheld EXCEPT ![t] = 0]
  /\ UNCHANGED <<mtx_owner, mtx_link, link, target, error, sleepVars>>

(* The inline cmpset, which leaves mtx_owner alone ...                     *)
UpgradeFast(t) ==
  /\ mtx_lock = [Unlocked EXCEPT !.cnt = 1]
  /\ Return(t, "upgrade")
  /\ ToExclusive(t)

(* Slip: the upgrade loses EXWANTED.                                       *)
_mtx_upgrade_try_Assign(t) ==
  /\ mtx_lock = [Unlocked EXCEPT !.cnt = 1, !.exw = TRUE]
  /\ Goto(t, "upgrade", "ex_owner")
  /\ mtx_lock' = [Unlocked EXCEPT !.ex = TRUE, !.cnt = 1]
  /\ exheld' = [exheld EXCEPT ![t] = @ + shheld[t]]
  /\ shheld' = [shheld EXCEPT ![t] = 0]
  /\ UNCHANGED <<mtx_owner, mtx_link, link, target, error, sleepVars>>

(* ... and _mtx_upgrade_try(), which sets it.  The inline cmpset has to    *)
(* fail first; a word of 1 that it finds later is left to UpgradeFast.     *)
_mtx_upgrade_try(t) ==
  /\ mtx_lock = [Unlocked EXCEPT !.cnt = 1, !.exw = TRUE]
  /\ Goto(t, "upgrade", "ex_owner")
  /\ ToExclusive(t)

(* The lock is exclusive already, or EDEADLK.                              *)
UpgradeNop(t) ==
  /\ [mtx_lock EXCEPT !.exw = FALSE] # [Unlocked EXCEPT !.cnt = 1]
  /\ Return(t, "upgrade")
  /\ UNCHANGED <<mtxVars, link, target, error, heldVars, sleepVars>>

-----------------------------------------------------------------------------
(* mtx_abort_ex_link(): u gives up the wait of t, whose link is valid from *)
(* its initialization on to the return of mtx_lock_ex_link().              *)

CallAbort(u, t) ==
  /\ "abort" \in Ops
  /\ op[t] = "ex_link"
  /\ pc[u] = "idle"
  /\ pc' = [pc EXCEPT ![u] = "ab_wait"]
  /\ op' = [op EXCEPT ![u] = "abort"]
  /\ target' = [target EXCEPT ![u] = t]
  /\ UNCHANGED <<mtxVars, link, error, heldVars, sleepVars>>

AbortLock(u) == LockRing(u, "ab_wait", "ab")

mtx_abort_ex_link(u) ==
  LET t == target[u] IN
  /\ Return(u, "ab")
  /\ \/ /\ link[t] = "IDLE"
        /\ link' = [link EXCEPT ![t] = "ABORTED"]
        /\ UNCHANGED <<mtx_link, sleepVars>>
     \/ /\ link[t] = "LINKED"
        /\ Unlink(t)
        /\ link' = [link EXCEPT ![t] = "ABORTED"]
        /\ wakeup(u, t)
     \/ /\ link[t] \in {"ACQUIRED", "ABORTED"}
        /\ UNCHANGED <<mtx_link, link, sleepVars>>
  /\ mtx_lock' = [mtx_lock EXCEPT !.exlink = FALSE]
  /\ target' = [target EXCEPT ![u] = NULL]
  /\ UNCHANGED <<mtx_owner, error, heldVars>>

-----------------------------------------------------------------------------
(* A wakeup arrives at t's cpu; a timeout or a signal ends t's sleep.      *)
Ipi(t) ==
  /\ \E c \in Chan : wakeup_ipi(t, c)
  /\ UNCHANGED <<mtxVars, link, pc, op, target, error, heldVars>>

Interrupt(t) ==
  /\ Flags # {}
  /\ endtsleep(t)
  /\ UNCHANGED <<mtxVars, link, pc, op, target, error, heldVars>>

(* What a thread does once it is called.                                   *)
StepEx(t) ==
  \/ ExFree(t) \/ SetOwner(t) \/ ExRecurse(t) \/ ExTryFail(t) \/ ExWant(t)
  \/ ExLink(t) \/ EarlyAbort(t) \/ EarlyRead(t) \/ EarlyClear(t)
  \/ ExSleep(t) \/ ExWake(t) \/ ExWoken(t) \/ DeleteLock(t)
  \/ mtx_delete_link(t) \/ ExDone(t) \/ ExPanic(t) \/ ExRetry(t)

StepSh(t) ==
  \/ ShFree(t) \/ ShTryFail(t) \/ ShInterlock(t) \/ ShWant(t) \/ ShRetry(t)
  \/ ShSleep(t) \/ ShWake(t)

StepUn(t) ==
  \/ UnShared(t) \/ UnOwner(t) \/ UnExclusive(t) \/ UnChain(t) \/ UnCount(t)
  \/ ChainPick(t) \/ ChainOwner(t) \/ ChainHandOff(t) \/ ChainRelease(t)
  \/ ChainNull(t) \/ WakeShared(t) \/ WakeLink(t)

StepMode(t) ==
  \/ DowngradeFast(t) \/ DowngradeSlow(t) \/ _mtx_downgrade(t)
  \/ DowngradeNop(t)
  \/ UpgradeFast(t) \/ _mtx_upgrade_try(t) \/ UpgradeNop(t)
  \/ AbortLock(t) \/ mtx_abort_ex_link(t)

Step(t) == StepEx(t) \/ StepSh(t) \/ StepUn(t) \/ StepMode(t)

Call(t) ==
  \/ \E o \in Ops : CallEx(t, o) \/ CallSh(t, o)
  \/ CallUnlock(t) \/ Downgrade(t) \/ CallUpgrade(t)
  \/ \E u \in Thread : CallAbort(t, u)

Next == \E t \in Thread : Call(t) \/ Step(t) \/ Ipi(t) \/ Interrupt(t)

Spec == mtx_init /\ [][Next]_vars

(***************************************************************************)
(* Cpus keep executing, IPIs are delivered, a holder unlocks, and a sleep  *)
(* with a timeout times out.  A cpu that polls MTX_EXLINK, which is held   *)
(* for a few instructions at a time, gets it in the end.                   *)
(***************************************************************************)
FairSpec ==
  /\ Spec
  /\ \A t \in Thread : WF_vars(Step(t)) /\ WF_vars(CallUnlock(t))
  /\ \A t \in Thread : WF_vars(Ipi(t)) /\ WF_vars(Interrupt(t))
  /\ \A t \in Thread : SF_vars(DeleteLock(t))

-----------------------------------------------------------------------------
(* Properties.                                                             *)

(***************************************************************************)
(* An exclusive lock excludes every other thread's, shared or exclusive,   *)
(* whether it was taken free, recursed into or handed over in the ring.    *)
(***************************************************************************)
Exclusion ==
  \A t, u \in Thread :
    exheld[t] > 0 /\ t # u => exheld[u] = 0 /\ shheld[u] = 0

(***************************************************************************)
(* The count under MTX_MASK is the number of locks the threads hold, and   *)
(* MTX_EXCLUSIVE says of which kind they are: no release is the last one   *)
(* too early or too late (kern_mutex.c:534-626).                           *)
(***************************************************************************)
Units == {u \in Thread \X (1 .. MaxHold) : u[2] <= exheld[u[1]] + shheld[u[1]]}
CountExact ==
  /\ mtx_lock.cnt = Cardinality(Units)
  /\ mtx_lock.ex <=> \E t \in Thread : exheld[t] > 0

(***************************************************************************)
(* The ring holds each LINKED link once and no other, and only while its   *)
(* thread is inside __mtx_lock_ex(), on whose stack the link lives: a      *)
(* release never hands the lock to a thread that has gone away             *)
(* (kern_mutex.c:648 KKASSERT, 733-745).                                   *)
(***************************************************************************)
Waiting == {"ex_tsleep", "ex_asleep", "ex_woken", "del_wait", "del"}
RingSound ==
  /\ \A i, j \in DOMAIN mtx_link : mtx_link[i] = mtx_link[j] => i = j
  /\ \A t \in Thread :
       /\ link[t] = "LINKED" <=> \E i \in DOMAIN mtx_link : mtx_link[i] = t
       /\ link[t] = "LINKED" => pc[t] \in Waiting

(***************************************************************************)
(* MTX_EXLINK is a lock: the bit is set exactly while one thread is inside *)
(* a section that changes the ring.                                        *)
(***************************************************************************)
InRing == {"ex_link", "del", "ab", "chain", "chain_owner", "chain_clear"}
RingLocked ==
  /\ \A t, u \in Thread : pc[t] \in InRing /\ pc[u] \in InRing => t = u
  /\ mtx_lock.exlink <=> \E t \in Thread : pc[t] \in InRing

(***************************************************************************)
(* A queued waiter is seen by the last release: while the ring is not      *)
(* empty somebody holds the mutex and MTX_EXWANTED is set.                 *)
(***************************************************************************)
WaitersSeen ==
  mtx_link # << >> => mtx_lock.exw /\ mtx_lock.cnt > 0

(***************************************************************************)
(* MTX_SHWANTED is set only while the lock is exclusive: no release leaves *)
(* "mtx_lock unlocked with MTX_SHWANTED still set" (kern_mutex.c:668-670). *)
(***************************************************************************)
SharedWantsExclusive == mtx_lock.shw => mtx_lock.ex

(***************************************************************************)
(* Both lock functions "block until acquired" (kern_mutex.c:73,224): a     *)
(* thread asleep in one of them is still marked as waiting, in the ring or *)
(* by MTX_SHWANTED, or the wakeup that ends its sleep is on its way.       *)
(***************************************************************************)
WakeupsKept ==
  \A t \in Thread : tdstate[t] = "asleep" =>
    \/ IF pc[t] = "sh_asleep" THEN mtx_lock.shw ELSE link[t] = "LINKED"
    \/ <<t, wchan[t]>> \in ipiq
    \/ \E u \in Thread :
         \/ pc[u] \in {"chain_owner", "chain_clear", "wake_link"} /\ target[u] = t
         \/ pc[u] \in {"chain_null", "wake_sh"}

(***************************************************************************)
(* mtx_owned() is right: a thread that is not in the middle of a call      *)
(* finds itself recorded as the owner exactly when it holds the mutex      *)
(* exclusively (mutex2.h:374-382, KKASSERT at kern_mutex.c:171).           *)
(***************************************************************************)
OwnerExact ==
  \A t \in Thread :
    pc[t] = "idle" => (mtx_lock.ex /\ mtx_owner = t <=> exheld[t] > 0)

(***************************************************************************)
(* A waiter to whom the lock was handed returns with it ("block until      *)
(* acquired", kern_mutex.c:73), whatever timeout, signal or abort races    *)
(* with the hand-over, unless it read its link before the new owner was    *)
(* recorded and was stopped by the assertion at 171.                       *)
(***************************************************************************)
HandedOverReturns ==
  \A t \in Thread :
    link[t] = "ACQUIRED" ~> pc[t] \in {"idle", "panic"} /\ exheld[t] > 0
=============================================================================
