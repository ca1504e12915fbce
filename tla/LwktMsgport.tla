----------------------------- MODULE LwktMsgport -----------------------------
(***************************************************************************)
(* LWKT messages and thread ports (sys/kern/lwkt_msgport.c).  A client     *)
(* sends a message to a server's port, synchronously or not; the server    *)
(* takes it off its port, may forward it, and replies to the client's      *)
(* port.  A port is owned by one thread and meant to be touched on that    *)
(* thread's cpu only: a message for a port elsewhere travels as an IPI,    *)
(* and chases the thread if it has moved.  IPIs are a set here: they may   *)
(* overtake one another.                                                   *)
(*                                                                         *)
(* A handler looks where the thread is (td_gd), queues the message and     *)
(* looks whether the thread waits.  These are three steps, because td_gd   *)
(* is stored by another cpu, the one a migrating thread arrives on; so are *)
(* the test and the sleep of a thread that waits.  Between them the cpu    *)
(* does nothing else: it is in a critical section or, before it, could     *)
(* only run IPIs for the same ports, whose order makes no difference.      *)
(***************************************************************************)
EXTENDS Tailq

CONSTANTS
  Client, Server,
  Msg,
  Owner,        \* for each message, the client whose port is ms_reply_port
  Dropable,     \* the messages with MSGF_DROPABLE
  Priority,     \* the messages with MSGF_PRIORITY
  Cpu,
  NULL,
  MaxMoves,     \* bound: how often threads migrate, in all
  MaxHops       \* bound: how often a message is forwarded

Thread == Client \cup Server

(* What a cpu is in the middle of: to queue a message ("put", "reply"), to *)
(* look whether the thread waits for it, to put the thread to sleep.       *)
Work == [fn : {"put", "reply", "look", "sleep"}, msg : Msg \cup {NULL}, port : Thread]

ASSUME MsgportAssumption ==
  /\ Client \cap Server = {} /\ NULL \notin Thread \cup Msg \cup Cpu \cup Work
  /\ Owner \in [Msg -> Client]
  /\ Dropable \subseteq Msg /\ Priority \subseteq Msg
  /\ MaxMoves \in Nat /\ MaxHops \in Nat

VARIABLES
  ms_flags,     \* the MSGF_ flags of each message that change
  hops,         \* how often it was forwarded
  msgq,         \* mp_msgq of each thread's port
  msgq_prio,    \* mp_msgq_prio
  waiting,      \* MSGPORTF_WAITING
  td_gd,        \* the cpu of each thread
  migrating,    \* where a thread with TDF_MIGRATING is on its way to
  moves,        \* how often threads migrated
  pc,           \* what the thread is in
  asleep,       \* it is in lwkt_sleep() and not scheduled
  held,         \* the message it works on, or waits for
  sentabort,    \* its wait was interrupted, and the message aborted
  ipis,         \* the IPIs under way
  work,         \* what each cpu is in the middle of
  raced         \* history: a thread got to another cpu while the one it left
                \*   was still at work on its port

portVars == <<msgq, msgq_prio>>
placeVars == <<td_gd, migrating, moves, raced>>
threadVars == <<placeVars, pc, held, sentabort>>
vars == <<ms_flags, hops, portVars, waiting, threadVars, asleep, ipis, work>>

Ipi == [fn : {"put", "reply"}, msg : Msg, port : Thread, cpu : Cpu]

TypeOK ==
  /\ ms_flags \in [Msg -> SUBSET {"DONE", "REPLY", "QUEUED", "SYNC", "INTRANSIT"}]
  /\ hops \in [Msg -> 0 .. MaxHops]
  /\ msgq \in [Thread -> Seq(Msg)] /\ msgq_prio \in [Thread -> Seq(Msg)]
  /\ waiting \in [Thread -> BOOLEAN] /\ asleep \in [Thread -> BOOLEAN]
  /\ td_gd \in [Thread -> Cpu] /\ moves \in 0 .. MaxMoves
  /\ migrating \in [Thread -> Cpu \cup {NULL}] /\ raced \in BOOLEAN
  /\ pc \in [Thread -> {"run", "waitmsg", "waitport"}]
  /\ held \in [Thread -> Msg \cup {NULL}]
  /\ \A c \in Client : held[c] # NULL <=> pc[c] = "waitmsg"
  /\ sentabort \in [Thread -> BOOLEAN]
  /\ \A t \in Thread : pc[t] = "run" => ~waiting[t] /\ ~asleep[t] /\ ~sentabort[t]
  /\ ipis \subseteq Ipi
  /\ work \in [Cpu -> Work \cup {NULL}]

Init ==
  /\ ms_flags = [m \in Msg |-> {"DONE"}]
  /\ hops = [m \in Msg |-> 0]
  /\ msgq = [t \in Thread |-> <<>>]
  /\ msgq_prio = [t \in Thread |-> <<>>]
  /\ waiting = [t \in Thread |-> FALSE]
  /\ td_gd \in [Thread -> Cpu]
  /\ migrating = [t \in Thread |-> NULL]
  /\ moves = 0
  /\ pc = [t \in Thread |-> "run"]
  /\ asleep = [t \in Thread |-> FALSE]
  /\ held = [t \in Thread |-> NULL]
  /\ sentabort = [t \in Thread |-> FALSE]
  /\ ipis = {}
  /\ work = [g \in Cpu |-> NULL]
  /\ raced = FALSE

_lwkt_pushmsg(t, m) ==
  IF m \in Priority
  THEN msgq_prio' = [msgq_prio EXCEPT ![t] = Append(@, m)] /\ UNCHANGED msgq
  ELSE msgq' = [msgq EXCEPT ![t] = Append(@, m)] /\ UNCHANGED msgq_prio

_lwkt_pullmsg(t, m) ==
  IF m \in Priority
  THEN msgq_prio' = [msgq_prio EXCEPT ![t] = Without(@, m)] /\ UNCHANGED msgq
  ELSE msgq' = [msgq EXCEPT ![t] = Without(@, m)] /\ UNCHANGED msgq_prio

(* The next message of t's port, those with priority first.                *)
_lwkt_pollmsg(t) ==
  CASE msgq_prio[t] # <<>> -> Head(msgq_prio[t])
    [] msgq_prio[t] = <<>> /\ msgq[t] # <<>> -> Head(msgq[t])
    [] OTHER -> NULL

SetFlags(m, f) == ms_flags' = [ms_flags EXCEPT ![m] = f]

(* Slip: the thread is not scheduled.                                      *)
_lwkt_schedule_msg_Not(t) == UNCHANGED asleep

(* The thread is scheduled if its port says that it waits.                 *)
_lwkt_schedule_msg(t) ==
  asleep' = [asleep EXCEPT ![t] = @ /\ ~waiting[t]]

SendIpi(fn, m, t) == [fn |-> fn, msg |-> m, port |-> t, cpu |-> td_gd[t]]

(* cpu g goes on with fn.                                                  *)
Begin(g, fn, m, t) == work' = [work EXCEPT ![g] = [fn |-> fn, msg |-> m, port |-> t]]

-----------------------------------------------------------------------------
(* Putting a message on a port, and replying to it.                        *)

(* lwkt_thread_putport() on cpu g, with the other flags of m.  td_gd is    *)
(* read again for the IPI; the thread having moved in between is the same  *)
(* as an IPI that has to chase it.                                         *)
lwkt_thread_putport(g, t, m, flags) ==
  IF td_gd[t] = g
  THEN SetFlags(m, flags) /\ Begin(g, "put", m, t) /\ UNCHANGED ipis
  ELSE /\ SetFlags(m, flags \cup {"INTRANSIT"})
       /\ ipis' = ipis \cup {SendIpi("put", m, t)}
       /\ UNCHANGED work

lwkt_thread_replyport(g, t, m) ==
  IF td_gd[t] = g
  THEN Begin(g, "reply", m, t) /\ UNCHANGED <<ms_flags, ipis>>
  ELSE /\ SetFlags(m, ms_flags[m] \cup {"INTRANSIT", "REPLY"})
       /\ ipis' = ipis \cup {SendIpi("reply", m, t)}
       /\ UNCHANGED work

(* Slip: the IPI is sent again to where it was.                            *)
Chase_Stale(i) == ipis' = ipis

(* The thread has moved: the IPI follows it.                               *)
Chase(i) == ipis' = (ipis \ {i}) \cup {SendIpi(i.fn, i.msg, i.port)}

(* lwkt_thread_putport_remote() and lwkt_thread_replyport_remote().        *)
IpiRuns(i) ==
  /\ work[i.cpu] = NULL
  /\ IF td_gd[i.port] # i.cpu
     THEN Chase(i) /\ UNCHANGED <<ms_flags, work>>
     ELSE /\ ipis' = ipis \ {i}
          /\ SetFlags(i.msg, ms_flags[i.msg] \ {"INTRANSIT"})
          /\ Begin(i.cpu, i.fn, i.msg, i.port)
  /\ UNCHANGED <<hops, portVars, waiting, threadVars, asleep>>

(* m is queued on the port of t.                                           *)
Enqueue(t, m, flags) ==
  /\ SetFlags(m, flags \cup {"QUEUED"})
  /\ _lwkt_pushmsg(t, m)

(* Each of the four functions above, having found the thread on this cpu,  *)
(* queues the message, or completes one that is waited for ...             *)
Push(g) ==
  LET w == work[g] IN
  /\ w # NULL /\ w.fn \in {"put", "reply"}
  /\ \/ w.fn = "put" /\ Enqueue(w.port, w.msg, ms_flags[w.msg])
     \/ /\ w.fn = "reply" /\ "SYNC" \notin ms_flags[w.msg]
        /\ Enqueue(w.port, w.msg, ms_flags[w.msg] \cup {"DONE", "REPLY"})
     \/ /\ w.fn = "reply" /\ "SYNC" \in ms_flags[w.msg]
        /\ SetFlags(w.msg, ms_flags[w.msg] \cup {"DONE", "REPLY"})
        /\ UNCHANGED portVars
  /\ Begin(g, "look", NULL, w.port)
  /\ UNCHANGED <<hops, waiting, threadVars, asleep, ipis>>

(* ... and schedules the thread if it waits.                               *)
Look(g) ==
  /\ work[g] # NULL /\ work[g].fn = "look"
  /\ _lwkt_schedule_msg(work[g].port)
  /\ work' = [work EXCEPT ![g] = NULL]
  /\ UNCHANGED <<ms_flags, hops, portVars, waiting, threadVars, ipis>>

-----------------------------------------------------------------------------
(* Clients.                                                                *)

(* t can take a step where it is.                                          *)
OnCpu(t) == ~asleep[t] /\ migrating[t] = NULL /\ work[td_gd[t]] = NULL
Running(t) == pc[t] = "run" /\ OnCpu(t)

(* lwkt_sendmsg() of a message that is back with its client.               *)
lwkt_sendmsg(c, m, s) ==
  /\ Running(c) /\ Owner[m] = c
  /\ ms_flags[m] \cap {"DONE", "QUEUED"} = {"DONE"}
  /\ lwkt_thread_putport(td_gd[c], s, m, {})
  /\ hops' = [hops EXCEPT ![m] = 0]
  /\ UNCHANGED <<portVars, waiting, threadVars, asleep>>

(* lwkt_domsg(): the same, and the client waits for the reply.             *)
lwkt_domsg(c, m, s) ==
  /\ Running(c) /\ Owner[m] = c /\ m \notin Dropable
  /\ ms_flags[m] \cap {"DONE", "QUEUED"} = {"DONE"}
  /\ lwkt_thread_putport(td_gd[c], s, m, {"SYNC"})
  /\ hops' = [hops EXCEPT ![m] = 0]
  /\ pc' = [pc EXCEPT ![c] = "waitmsg"]
  /\ held' = [held EXCEPT ![c] = m]
  /\ UNCHANGED <<portVars, waiting, placeVars, sentabort, asleep>>

(* The client turns to a message it has sent, or to its port.              *)
WaitBegins(c) ==
  /\ Running(c)
  /\ \/ /\ pc' = [pc EXCEPT ![c] = "waitport"]
        /\ UNCHANGED held
     \/ \E m \in Msg \ Dropable :
          /\ Owner[m] = c /\ ms_flags[m] \cap {"DONE", "QUEUED"} # {"DONE"}
          /\ pc' = [pc EXCEPT ![c] = "waitmsg"]
          /\ held' = [held EXCEPT ![c] = m]
  /\ UNCHANGED <<ms_flags, hops, portVars, waiting, placeVars, sentabort, asleep, ipis, work>>

(* The wait of t ends.                                                     *)
WaitOver(t, m) ==
  /\ pc' = [pc EXCEPT ![t] = "run"]
  /\ held' = [held EXCEPT ![t] = m]
  /\ waiting' = [waiting EXCEPT ![t] = FALSE]
  /\ sentabort' = [sentabort EXCEPT ![t] = FALSE]
  /\ UNCHANGED <<hops, placeVars, asleep, ipis, work>>

(* What t waits for is not there ...                                       *)
NotYet(t) ==
  /\ Begin(td_gd[t], "sleep", NULL, t)
  /\ UNCHANGED <<ms_flags, hops, portVars, waiting, threadVars, asleep, ipis>>

(* ... so it sets MSGPORTF_WAITING and sleeps.                             *)
Sleep(g) ==
  /\ work[g] # NULL /\ work[g].fn = "sleep"
  /\ waiting' = [waiting EXCEPT ![work[g].port] = TRUE]
  /\ asleep' = [asleep EXCEPT ![work[g].port] = TRUE]
  /\ work' = [work EXCEPT ![g] = NULL]
  /\ UNCHANGED <<ms_flags, hops, portVars, threadVars, ipis>>

(* Slip: a message that is queued on the port is left there.               *)
lwkt_thread_waitmsg_Leave(c) ==
  /\ pc[c] = "waitmsg" /\ OnCpu(c)
  /\ IF "DONE" \in ms_flags[held[c]]
     THEN /\ SetFlags(held[c], ms_flags[held[c]] \ {"QUEUED"})
          /\ UNCHANGED portVars
          /\ WaitOver(c, NULL)
     ELSE NotYet(c)

lwkt_thread_waitmsg(c) ==
  LET m == held[c] IN
  /\ pc[c] = "waitmsg" /\ OnCpu(c)
  /\ IF "DONE" \in ms_flags[m]
     THEN /\ IF "QUEUED" \in ms_flags[m]
             THEN _lwkt_pullmsg(c, m) /\ SetFlags(m, ms_flags[m] \ {"QUEUED"})
             ELSE UNCHANGED <<portVars, ms_flags>>
          /\ WaitOver(c, NULL)
     ELSE NotYet(c)

(* A server works on what it gets, a client is done with it.               *)
lwkt_thread_waitport(t) ==
  LET m == _lwkt_pollmsg(t) IN
  /\ pc[t] = "waitport" /\ OnCpu(t)
  /\ IF m # NULL
     THEN /\ _lwkt_pullmsg(t, m)
          /\ SetFlags(m, ms_flags[m] \ {"QUEUED"})
          /\ WaitOver(t, IF t \in Server THEN m ELSE NULL)
     ELSE NotYet(t)

(* lwkt_thread_getport(): the same without waiting.                        *)
lwkt_thread_getport(t) ==
  LET m == _lwkt_pollmsg(t) IN
  /\ Running(t) /\ held[t] = NULL /\ m # NULL
  /\ _lwkt_pullmsg(t, m)
  /\ SetFlags(m, ms_flags[m] \ {"QUEUED"})
  /\ WaitOver(t, IF t \in Server THEN m ELSE NULL)

(* Slip: MSGPORTF_WAITING stays set when the wait is interrupted.          *)
Interrupt_KeepWaiting(t) ==
  /\ asleep[t] /\ work[td_gd[t]] = NULL
  /\ asleep' = [asleep EXCEPT ![t] = FALSE]
  /\ \/ /\ pc[t] = "waitmsg" /\ ~sentabort[t]
        /\ sentabort' = [sentabort EXCEPT ![t] = TRUE]
        /\ UNCHANGED pc
     \/ /\ pc[t] = "waitport"
        /\ pc' = [pc EXCEPT ![t] = "run"]
        /\ UNCHANGED sentabort
  /\ UNCHANGED <<ms_flags, hops, portVars, waiting, placeVars, held, ipis, work>>

(***************************************************************************)
(* A signal ends the sleep.  A wait for a message goes on, uninterruptibly *)
(* after lwkt_abortmsg(); a wait on the port returns NULL.                 *)
(***************************************************************************)
Interrupt(t) ==
  /\ asleep[t] /\ work[td_gd[t]] = NULL
  /\ asleep' = [asleep EXCEPT ![t] = FALSE]
  /\ waiting' = [waiting EXCEPT ![t] = FALSE]
  /\ \/ /\ pc[t] = "waitmsg" /\ ~sentabort[t]
        /\ sentabort' = [sentabort EXCEPT ![t] = TRUE]
        /\ UNCHANGED pc
     \/ /\ pc[t] = "waitport"
        /\ pc' = [pc EXCEPT ![t] = "run"]
        /\ UNCHANGED sentabort
  /\ UNCHANGED <<ms_flags, hops, portVars, placeVars, held, ipis, work>>

-----------------------------------------------------------------------------
(* Servers, migration, Next.                                               *)

ServerWaits(s) ==
  /\ Running(s) /\ held[s] = NULL
  /\ pc' = [pc EXCEPT ![s] = "waitport"]
  /\ UNCHANGED <<ms_flags, hops, portVars, waiting, placeVars, held, sentabort,
                 asleep, ipis, work>>

lwkt_replymsg(s) ==
  /\ Running(s) /\ held[s] # NULL
  /\ lwkt_thread_replyport(td_gd[s], Owner[held[s]], held[s])
  /\ held' = [held EXCEPT ![s] = NULL]
  /\ UNCHANGED <<hops, portVars, waiting, placeVars, pc, sentabort, asleep>>

lwkt_forwardmsg(s, s2) ==
  LET m == held[s] IN
  /\ Running(s) /\ m # NULL /\ hops[m] < MaxHops
  /\ lwkt_thread_putport(td_gd[s], s2, m, ms_flags[m])
  /\ hops' = [hops EXCEPT ![m] = @ + 1]
  /\ held' = [held EXCEPT ![s] = NULL]
  /\ UNCHANGED <<portVars, waiting, placeVars, pc, sentabort, asleep>>

(* The server takes back a dropable message that waits on its port.        *)
lwkt_thread_dropmsg(s, m) ==
  /\ Running(s) /\ m \in Dropable /\ "DONE" \notin ms_flags[m]
  /\ \E i \in 1 .. Len(msgq[s] \o msgq_prio[s]) : (msgq[s] \o msgq_prio[s])[i] = m
  /\ _lwkt_pullmsg(s, m)
  /\ SetFlags(m, (ms_flags[m] \ {"QUEUED"}) \cup {"DONE"})
  /\ UNCHANGED <<hops, waiting, threadVars, asleep, ipis, work>>

(* t asks to go to cpu g: it is descheduled, and once it is switched out   *)
(* the IPI lwkt_setcpu_remote() is sent.                                   *)
lwkt_setcpu_self(t, g) ==
  /\ Running(t) /\ td_gd[t] # g /\ moves < MaxMoves
  /\ migrating' = [migrating EXCEPT ![t] = g]
  /\ moves' = moves + 1
  /\ UNCHANGED <<ms_flags, hops, portVars, waiting, td_gd, raced, pc, held, sentabort,
                 asleep, ipis, work>>

(* The IPI arrives: t is there, and runs as soon as that cpu lets it.      *)
lwkt_setcpu_remote(t) ==
  /\ migrating[t] # NULL /\ work[migrating[t]] = NULL
  /\ td_gd' = [td_gd EXCEPT ![t] = migrating[t]]
  /\ migrating' = [migrating EXCEPT ![t] = NULL]
  /\ raced' = (raced \/ \E g \in Cpu : work[g] # NULL /\ work[g].port = t)
  /\ UNCHANGED <<ms_flags, hops, portVars, waiting, moves, pc, held, sentabort,
                 asleep, ipis, work>>

Next ==
  \/ \E i \in ipis : IpiRuns(i)
  \/ \E c \in Client :
       \/ \E m \in Msg, s \in Server : lwkt_sendmsg(c, m, s) \/ lwkt_domsg(c, m, s)
       \/ WaitBegins(c)
       \/ lwkt_thread_waitmsg(c)
  \/ \E s \in Server :
       \/ ServerWaits(s)
       \/ lwkt_replymsg(s)
       \/ \E s2 \in Server : lwkt_forwardmsg(s, s2)
       \/ \E m \in Msg : lwkt_thread_dropmsg(s, m)
  \/ \E t \in Thread :
       \/ lwkt_thread_waitport(t) \/ lwkt_thread_getport(t)
       \/ Interrupt(t)
       \/ \E g \in Cpu : lwkt_setcpu_self(t, g)
       \/ lwkt_setcpu_remote(t)
  \/ \E g \in Cpu : Push(g) \/ Look(g) \/ Sleep(g)

Spec == Init /\ [][Next]_vars

(***************************************************************************)
(* Cpus finish what they are in the middle of and then take the IPIs that  *)
(* have arrived; a thread that can run gets its cpu again and again;       *)
(* servers wait for messages and reply to them.                            *)
(***************************************************************************)
Finish(g) == Push(g) \/ Look(g) \/ Sleep(g)
TakeIpi(g) ==
  \/ \E i \in ipis : i.cpu = g /\ IpiRuns(i)
  \/ \E t \in Thread : migrating[t] = g /\ lwkt_setcpu_remote(t)
Serve(s) == lwkt_thread_waitport(s) \/ ServerWaits(s) \/ lwkt_replymsg(s)

FairSpec ==
  /\ Spec
  /\ \A g \in Cpu : WF_vars(Finish(g)) /\ SF_vars(TakeIpi(g))
  /\ \A c \in Client : SF_vars(lwkt_thread_waitmsg(c))
  /\ \A s \in Server : SF_vars(Serve(s))

-----------------------------------------------------------------------------
(* Properties.                                                             *)

(* How often m is on the port of t, in an IPI, with a cpu that is about to *)
(* queue or complete it, and with a server.                                *)
OnPort(t, m) == Count(msgq[t], m) + Count(msgq_prio[t], m)
InIpi(m) == Cardinality({i \in ipis : i.msg = m})
InHand(m) == Cardinality({g \in Cpu : work[g] # NULL /\ work[g].msg = m})
WithServer(m) == Cardinality({s \in Server : held[s] = m})

(***************************************************************************)
(* As long as no migration overtook the work on a port (raced), a message  *)
(* that is not back with its client is in exactly one place, the one its   *)
(* flags tell: on the port of one server or, once done, of its client, in  *)
(* one IPI, or with one server or one cpu that has yet to queue it, and    *)
(* there with none of the flags lwkt_replymsg() and lwkt_forwardmsg()      *)
(* assert against.  One that is back is nowhere else, so that the client   *)
(* may use it again.                                                       *)
(***************************************************************************)
Custody ==
  ~raced => \A m \in Msg :
    LET f == ms_flags[m]
        ports == {t \in Thread : OnPort(t, m) > 0}
    IN
    /\ InIpi(m) = IF "INTRANSIT" \in f THEN 1 ELSE 0
    /\ Cardinality(ports) = IF "QUEUED" \in f THEN 1 ELSE 0
    /\ \A t \in ports :
         /\ OnPort(t, m) = 1
         /\ "DONE" \in f <=> t = Owner[m]
    /\ WithServer(m) + InHand(m)
         = IF f \cap {"DONE", "QUEUED", "INTRANSIT"} = {} THEN 1 ELSE 0
    /\ WithServer(m) = 1 => "REPLY" \notin f

(***************************************************************************)
(* As long as no migration overtook the work on a port, a thread does not  *)
(* sleep on what it already has: when one waits for a message that is      *)
(* done, or on a port that is not empty, its cpu is about to see that its  *)
(* port says that it waits, and to schedule it.                            *)
(***************************************************************************)
NoMissedWakeup ==
  ~raced => \A t \in Thread : asleep[t] =>
    /\ waiting[t]
    /\ \/ work[td_gd[t]] # NULL /\ work[td_gd[t]].fn = "look" /\ work[td_gd[t]].port = t
       \/ /\ pc[t] = "waitmsg" => "DONE" \notin ms_flags[held[t]]
          /\ pc[t] = "waitport" => _lwkt_pollmsg(t) = NULL

(* Whoever waits for a message gets it back, wherever threads move to, if  *)
(* no migration overtook the work on a port.                               *)
Answered == \A c \in Client : (pc[c] = "waitmsg") ~> (pc[c] = "run" \/ raced)
=============================================================================
