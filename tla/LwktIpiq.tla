------------------------------ MODULE LwktIpiq ------------------------------
(***************************************************************************)
(* IPI messages and cpu synchronization (sys/kern/lwkt_ipiq.c).  Each cpu  *)
(* owns a FIFO of function calls for every other cpu.  gd_ipimask tells a  *)
(* cpu whose FIFOs to look at, and gd_npoll is the interlock that keeps    *)
(* all but the first sender from raising the hardware IPI.                 *)
(*                                                                         *)
(* lwkt_process_ipiq() is reentrant: a function may send an IPI, and a     *)
(* sender that finds its FIFO too full, or waits for an answer, processes  *)
(* the messages that come in meanwhile.  So each cpu has a stack of the    *)
(* calls it is in, the top one last, and each access to what another cpu   *)
(* reads or writes is a step.  A cpu with an empty stack runs its thread.  *)
(***************************************************************************)
EXTENDS Integers, Sequences, FiniteSets

CONSTANTS
  NCpu,         \* ncpus
  MAXCPUFIFO,
  Ops,          \* what the thread of each cpu calls
  Funcs,        \* the functions it sends
  MaxCalls,     \* bound: how many calls the thread of each cpu makes
  Backlog       \* how many passive messages wait in each FIFO at the start

Cpu == 0 .. NCpu - 1

(* The ways to send, and lwkt_cpusync_simple().                            *)
AllOps == {"send", "send_wait", "passive", "nowait", "cpusync"}

(* A plain function just runs, a relay sends a plain one back.  What is    *)
(* sent passively is a free.                                               *)
AllFuncs == {"plain", "relay"}

(* Below 5 the FIFO may come to hold MAXCPUFIFO - 1, which is asserted     *)
(* against.                                                                *)
ASSUME IpiqAssumption ==
  /\ NCpu \in Nat \ {0, 1} /\ MaxCalls \in Nat
  /\ MAXCPUFIFO \in Nat /\ MAXCPUFIFO >= 5
  /\ Backlog \in 0 .. MAXCPUFIFO \div 2
  /\ Ops \in [Cpu -> SUBSET AllOps] /\ Funcs \in [Cpu -> SUBSET AllFuncs]

VARIABLES
  fifo,         \* ip_info from ip_rindex to ip_windex, for <<source, target>>
  rindex,       \* ip_rindex
  xindex,       \* ip_xindex
  ipimask,      \* gd_ipimask
  npoll,        \* gd_npoll
  hwipi,        \* a hardware IPI is on its way, or noted as RQF_IPIQ
  cpusyncq,     \* gd_cpusyncq: the cpus whose cpusync the cpu polls
  cs_mack,      \* of the cpusync of each cpu
  td_cscount,
  ran,          \* how often each cpu ran cs_func for the cpusync of a cpu
  stack,        \* the calls each cpu is in
  calls         \* how many calls its thread has made

queueVars == <<fifo, rindex, xindex>>
signalVars == <<ipimask, npoll, hwipi>>
syncVars == <<cpusyncq, cs_mack, td_cscount, ran>>
vars == <<queueVars, signalVars, syncVars, stack, calls>>

Pair == {pq \in Cpu \X Cpu : pq[1] # pq[2]}
Msg == AllFuncs \cup {"free", "remote1"}

(***************************************************************************)
(* A call: the function and where it is in it, the other cpu it is about,  *)
(* the message it sends or runs, its seq or cached windex, and its mask.   *)
(***************************************************************************)
Place == {"test", "loop", "mask", "signal", "call", "again", "clear", "core", "sync",
          "release", "recheck", "remote1", "remote2", "done", "send", "interlock",
          "held", "deinterlock"}

Frame == [fn : {"send", "passive", "process", "func", "wait", "cpusync"},
          at : Place, cpu : Cpu, msg : Msg, seq : Nat, mask : SUBSET Cpu]

Call(fn, at, q, m, seq, mask) ==
  [fn |-> fn, at |-> at, cpu |-> q, msg |-> m, seq |-> seq, mask |-> mask]

TypeOK ==
  /\ fifo \in [Pair -> Seq(Msg)]
  /\ rindex \in [Pair -> Nat] /\ xindex \in [Pair -> Nat]
  /\ ipimask \in [Cpu -> SUBSET Cpu]
  /\ npoll \in [Cpu -> BOOLEAN] /\ hwipi \in [Cpu -> BOOLEAN]
  /\ cpusyncq \in [Cpu -> Seq(Cpu)]
  /\ cs_mack \in [Cpu -> SUBSET Cpu]
  /\ td_cscount \in [Cpu -> 0 .. 1]
  /\ ran \in [Cpu -> [Cpu -> 0 .. 2]]
  /\ stack \in [Cpu -> Seq(Frame)]
  /\ calls \in [Cpu -> 0 .. MaxCalls]

(* The threads have sent nothing yet but a backlog of passive messages.    *)
Init ==
  /\ fifo = [pq \in Pair |-> [i \in 1 .. Backlog |-> "free"]]
  /\ rindex = [pq \in Pair |-> 0]
  /\ xindex = [pq \in Pair |-> 0]
  /\ ipimask = [p \in Cpu |-> IF Backlog = 0 THEN {} ELSE Cpu \ {p}]
  /\ npoll = [p \in Cpu |-> FALSE]
  /\ hwipi = [p \in Cpu |-> FALSE]
  /\ cpusyncq = [p \in Cpu |-> <<>>]
  /\ cs_mack = [p \in Cpu |-> {}]
  /\ td_cscount = [p \in Cpu |-> 0]
  /\ ran = [p \in Cpu |-> [q \in Cpu |-> 0]]
  /\ stack = [p \in Cpu |-> <<>>]
  /\ calls = [p \in Cpu |-> 0]

Top(p) == stack[p][Len(stack[p])]
In(p, fn, at) == stack[p] # <<>> /\ Top(p).fn = fn /\ Top(p).at = at
Sending(p, at) == In(p, "send", at) \/ In(p, "passive", at)
Below(p) == SubSeq(stack[p], 1, Len(stack[p]) - 1)

(* p's innermost call goes on as f, calls g, goes on as f and calls g, or  *)
(* returns.                                                                *)
Goto(p, f) == stack' = [stack EXCEPT ![p] = Append(Below(p), f)]
Push(p, g) == stack' = [stack EXCEPT ![p] = Append(@, g)]
GotoPush(p, f, g) == stack' = [stack EXCEPT ![p] = Append(Append(Below(p), f), g)]
Return(p) == stack' = [stack EXCEPT ![p] = Below(p)]

At(p, at) == [Top(p) EXCEPT !.at = at]
lwkt_process_ipiq(p) == Call("process", "again", p, "plain", 0, {})

windex(p, q) == rindex[<<p, q>>] + Len(fifo[<<p, q>>])
Depth(p, q) == Len(fifo[<<p, q>>])       \* ip_windex - ip_rindex

(* atomic_poll_acquire_int() of q's gd_npoll, and cpu_send_ipiq() if it    *)
(* was free.                                                               *)
Signal(q) ==
  /\ npoll' = [npoll EXCEPT ![q] = TRUE]
  /\ hwipi' = [hwipi EXCEPT ![q] = @ \/ ~npoll[q]]

-----------------------------------------------------------------------------
(* lwkt_send_ipiq3(), its _passive and _nowait forms, lwkt_wait_ipiq().    *)

SendCall(q, m) == Call("send", "test", q, m, 0, {})

(* The thread of p makes a call.                                           *)
Enter(p, op) ==
  /\ op \in Ops[p]
  /\ stack[p] = <<>> /\ calls[p] < MaxCalls
  /\ calls' = [calls EXCEPT ![p] = @ + 1]

(* The message of f is written, and ip_windex moves; below is what p       *)
(* returns to.                                                             *)
SendQueue(p, below, f) ==
  /\ fifo' = [fifo EXCEPT ![<<p, f.cpu>>] = Append(@, f.msg)]
  /\ stack' = [stack EXCEPT ![p] = Append(below, [f EXCEPT !.at = "mask"])]

(* A send, by the test of the FIFO that it begins with.                    *)
SendTest(p, below, f) ==
  IF Depth(p, f.cpu) > MAXCPUFIFO \div 2
  THEN /\ stack' = [stack EXCEPT ![p] = Append(below, [f EXCEPT !.at = "loop"])]
       /\ UNCHANGED fifo
  ELSE SendQueue(p, below, f)

lwkt_send_ipiq3(p, q, m) ==
  /\ Enter(p, "send")
  /\ SendTest(p, <<>>, SendCall(q, m))
  /\ UNCHANGED <<rindex, xindex, signalVars, syncVars>>

lwkt_send_ipiq3_passive(p, q) ==
  /\ Enter(p, "passive")
  /\ SendTest(p, <<>>, [SendCall(q, "free") EXCEPT !.fn = "passive"])
  /\ UNCHANGED <<rindex, xindex, signalVars, syncVars>>

(* Slip: the FIFO is not looked at.                                        *)
lwkt_send_ipiq3_nowait_Always(p, q, m) ==
  /\ Enter(p, "nowait")
  /\ SendQueue(p, <<>>, SendCall(q, m))
  /\ UNCHANGED <<rindex, xindex, signalVars, syncVars>>

(* ENOENT if the FIFO is two thirds full, else it is not waited for.       *)
lwkt_send_ipiq3_nowait(p, q, m) ==
  /\ Enter(p, "nowait")
  /\ IF Depth(p, q) >= (MAXCPUFIFO * 2) \div 3
     THEN UNCHANGED <<fifo, stack>>
     ELSE SendQueue(p, <<>>, SendCall(q, m))
  /\ UNCHANGED <<rindex, xindex, signalVars, syncVars>>

(* seq = lwkt_send_ipiq(); lwkt_wait_ipiq(seq).                            *)
SendAndWait(p, q, m) ==
  /\ Enter(p, "send_wait")
  /\ SendTest(p, <<Call("wait", "call", q, "plain", 0, {})>>, SendCall(q, m))
  /\ UNCHANGED <<rindex, xindex, signalVars, syncVars>>

(* A send from a function or a cpusync begins.                             *)
SendBegin(p) ==
  /\ In(p, "send", "test")
  /\ SendTest(p, Below(p), Top(p))
  /\ UNCHANGED <<rindex, xindex, signalVars, syncVars, calls>>

(* Slip: the FIFO is waited for without processing what comes in.          *)
SendLoop_Deaf(p) ==
  LET q == Top(p).cpu IN
  /\ Sending(p, "loop")
  /\ IF Depth(p, q) > MAXCPUFIFO \div 4
     THEN Signal(q) /\ UNCHANGED <<queueVars, ipimask, stack>>
     ELSE SendQueue(p, Below(p), Top(p)) /\ UNCHANGED <<rindex, xindex, signalVars>>
  /\ UNCHANGED <<syncVars, calls>>

(* While the FIFO is more than a quarter full the target is signalled and  *)
(* the messages that come in are processed.                                *)
SendLoop(p) ==
  LET q == Top(p).cpu IN
  /\ Sending(p, "loop")
  /\ IF Depth(p, q) > MAXCPUFIFO \div 4
     THEN Signal(q) /\ Push(p, lwkt_process_ipiq(p)) /\ UNCHANGED <<queueVars, ipimask>>
     ELSE SendQueue(p, Below(p), Top(p)) /\ UNCHANGED <<rindex, xindex, signalVars>>
  /\ UNCHANGED <<syncVars, calls>>

(* The send returns; what was sent last is what a wait is for.             *)
SendReturn(p) ==
  LET s == Below(p)
      n == Len(s)
  IN  stack' = [stack EXCEPT ![p] =
        IF n > 0 /\ s[n].fn = "wait"
        THEN [s EXCEPT ![n].at = "loop", ![n].seq = windex(p, Top(p).cpu)]
        ELSE s]

SendMask(p) ==
  /\ Sending(p, "mask")
  /\ ipimask' = [ipimask EXCEPT ![Top(p).cpu] = @ \cup {p}]
  /\ IF Top(p).fn = "send" THEN Goto(p, At(p, "signal")) ELSE SendReturn(p)
  /\ UNCHANGED <<queueVars, npoll, hwipi, syncVars, calls>>

SendSignal(p) ==
  /\ In(p, "send", "signal")
  /\ Signal(Top(p).cpu)
  /\ SendReturn(p)
  /\ UNCHANGED <<queueVars, ipimask, syncVars, calls>>

lwkt_wait_ipiq(p) ==
  /\ In(p, "wait", "loop")
  /\ IF xindex[<<p, Top(p).cpu>>] < Top(p).seq
     THEN Push(p, lwkt_process_ipiq(p))
     ELSE Return(p)
  /\ UNCHANGED <<queueVars, signalVars, syncVars, calls>>

-----------------------------------------------------------------------------
(* lwkt_process_ipiq().                                                    *)

(* The hardware IPI arrives outside any critical section, or is made up    *)
(* for at the end of it.                                                   *)
Xipiq(p) ==
  /\ hwipi[p] /\ stack[p] = <<>>
  /\ hwipi' = [hwipi EXCEPT ![p] = FALSE]
  /\ Push(p, lwkt_process_ipiq(p))
  /\ UNCHANGED <<queueVars, ipimask, npoll, syncVars, calls>>

(* The lowest cpu of the mask is next, then the polled cpusyncs, one pass. *)
Scan(p, mask) ==
  IF mask = {}
  THEN [Top(p) EXCEPT !.at = IF cpusyncq[p] = <<>> THEN "test" ELSE "sync",
                      !.cpu = p, !.mask = {}, !.seq = Len(cpusyncq[p])]
  ELSE [Top(p) EXCEPT !.at = "core", !.mask = mask,
                      !.cpu = CHOOSE q \in mask : \A r \in mask : q <= r]

ProcessAgain(p) ==
  /\ In(p, "process", "again")
  /\ Goto(p, [At(p, "clear") EXCEPT !.mask = ipimask[p]])
  /\ UNCHANGED <<queueVars, signalVars, syncVars, calls>>

ProcessClear(p) ==
  /\ In(p, "process", "clear")
  /\ ipimask' = [ipimask EXCEPT ![p] = @ \ Top(p).mask]
  /\ Goto(p, Scan(p, Top(p).mask))
  /\ UNCHANGED <<queueVars, npoll, hwipi, syncVars, calls>>

(* The function of message m from q, up to where other cpus notice it: a   *)
(* relay answers with a message, a cpusync is acknowledged first.          *)
FuncCalls(q, m, seq) ==
  LET func == Call("func", IF m = "remote1" THEN "remote1" ELSE "done", q, m, seq, {})
  IN  IF m = "relay" THEN <<func, SendCall(q, "plain")>> ELSE <<func>>

(***************************************************************************)
(* lwkt_process_ipiq_core(), called until the FIFO is empty: take the next *)
(* message and call its function.  What is left of the mask comes after.   *)
(***************************************************************************)
lwkt_process_ipiq_core(p) ==
  LET f == Top(p)
      pq == <<f.cpu, p>>
  IN
  /\ In(p, "process", "core")
  /\ IF fifo[pq] # <<>>
     THEN /\ rindex' = [rindex EXCEPT ![pq] = @ + 1]
          /\ fifo' = [fifo EXCEPT ![pq] = Tail(@)]
          /\ stack' = [stack EXCEPT ![p] =
                         @ \o FuncCalls(f.cpu, Head(fifo[pq]), rindex[pq] + 1)]
     ELSE Goto(p, Scan(p, f.mask \ {f.cpu})) /\ UNCHANGED <<rindex, fifo>>
  /\ UNCHANGED <<xindex, signalVars, syncVars, calls>>

(* The function of a message has returned.                                 *)
FuncDone(p) ==
  LET pq == <<Top(p).cpu, p>> IN
  /\ In(p, "func", "done")
  /\ xindex' = [xindex EXCEPT ![pq] = rindex[pq]]
  /\ Return(p)
  /\ UNCHANGED <<fifo, rindex, signalVars, syncVars, calls>>

(* Slip: gd_ipimask is not looked at again.                                *)
ProcessRelease_NoRecheck(p) ==
  /\ In(p, "process", "release")
  /\ npoll' = [npoll EXCEPT ![p] = FALSE]
  /\ Return(p)
  /\ UNCHANGED <<queueVars, ipimask, hwipi, syncVars, calls>>

(* gd_npoll is released, to be followed by another look at gd_ipimask.     *)
ProcessRelease(p) ==
  /\ In(p, "process", "release")
  /\ npoll' = [npoll EXCEPT ![p] = FALSE]
  /\ Goto(p, At(p, "recheck"))
  /\ UNCHANGED <<queueVars, ipimask, hwipi, syncVars, calls>>

ProcessTest(p) ==
  /\ In(p, "process", "test") \/ In(p, "process", "recheck")
  /\ IF ipimask[p] # {} THEN Goto(p, At(p, "again"))
     ELSE IF Top(p).at = "test" THEN Goto(p, At(p, "release"))
     ELSE Return(p)
  /\ UNCHANGED <<queueVars, signalVars, syncVars, calls>>

-----------------------------------------------------------------------------
(* Cpu synchronization.                                                    *)

(* The cs_mask of a cpusync of p, less p itself.                           *)
Others(p) == Cpu \ {p}

(* lwkt_cpusync_simple() of all cpus: lwkt_cpusync_interlock() begins.     *)
lwkt_cpusync_interlock(p) ==
  /\ Enter(p, "cpusync")
  /\ Push(p, Call("cpusync", "send", p, "remote1", 0, Others(p)))
  /\ cs_mack' = [cs_mack EXCEPT ![p] = {}]
  /\ td_cscount' = [td_cscount EXCEPT ![p] = @ + 1]
  /\ ran' = [ran EXCEPT ![p] = [q \in Cpu |-> 0]]
  /\ UNCHANGED <<queueVars, signalVars, cpusyncq>>

(* lwkt_send_ipiq_mask(), one cpu after the other.                         *)
CpusyncSend(p) ==
  LET f == Top(p)
      n == CHOOSE q \in f.mask : \A r \in f.mask : q <= r
  IN
  /\ In(p, "cpusync", "send")
  /\ GotoPush(p, [f EXCEPT !.mask = @ \ {n},
                           !.at = IF f.mask = {n} THEN "interlock" ELSE "send"],
              SendCall(n, "remote1"))
  /\ UNCHANGED <<queueVars, signalVars, syncVars, calls>>

(* All others have acknowledged: the cpus are interlocked and p goes on.   *)
CpusyncInterlocked(p) ==
  /\ In(p, "cpusync", "interlock")
  /\ IF cs_mack[p] = Others(p) THEN Goto(p, At(p, "held"))
     ELSE Push(p, lwkt_process_ipiq(p))
  /\ UNCHANGED <<queueVars, signalVars, syncVars, calls>>

(* Slip: cs_mack is not cleared for the second stage.                      *)
lwkt_cpusync_deinterlock_KeepMack(p) ==
  /\ In(p, "cpusync", "held")
  /\ ran' = [ran EXCEPT ![p][p] = @ + 1]
  /\ Goto(p, At(p, "deinterlock"))
  /\ UNCHANGED <<queueVars, signalVars, cpusyncq, cs_mack, td_cscount, calls>>

lwkt_cpusync_deinterlock(p) ==
  /\ In(p, "cpusync", "held")
  /\ cs_mack' = [cs_mack EXCEPT ![p] = {}]
  /\ ran' = [ran EXCEPT ![p][p] = @ + 1]
  /\ Goto(p, At(p, "deinterlock"))
  /\ UNCHANGED <<queueVars, signalVars, cpusyncq, td_cscount, calls>>

(* Slip: td_cscount is not taken back.                                     *)
CpusyncFinish_KeepCount(p) ==
  /\ In(p, "cpusync", "deinterlock")
  /\ IF cs_mack[p] = Others(p)
     THEN Goto(p, lwkt_process_ipiq(p))
     ELSE Push(p, lwkt_process_ipiq(p))
  /\ UNCHANGED <<queueVars, signalVars, syncVars, calls>>

(* Slip: the laggards are not processed.                                   *)
CpusyncFinish_Laggards(p) ==
  /\ In(p, "cpusync", "deinterlock")
  /\ IF cs_mack[p] = Others(p)
     THEN /\ td_cscount' = [td_cscount EXCEPT ![p] = @ - 1]
          /\ Return(p)
     ELSE /\ Push(p, lwkt_process_ipiq(p))
          /\ UNCHANGED td_cscount
  /\ UNCHANGED <<queueVars, signalVars, cpusyncq, cs_mack, ran, calls>>

(* All others have run cs_func: td_cscount drops and laggards are          *)
(* processed.                                                              *)
CpusyncFinish(p) ==
  /\ In(p, "cpusync", "deinterlock")
  /\ IF cs_mack[p] = Others(p)
     THEN /\ td_cscount' = [td_cscount EXCEPT ![p] = @ - 1]
          /\ Goto(p, lwkt_process_ipiq(p))
     ELSE /\ Push(p, lwkt_process_ipiq(p))
          /\ UNCHANGED td_cscount
  /\ UNCHANGED <<queueVars, signalVars, cpusyncq, cs_mack, ran, calls>>

(* p acknowledges, then looks whether it may finish at once.               *)
lwkt_cpusync_remote1(p) ==
  /\ In(p, "func", "remote1")
  /\ cs_mack' = [cs_mack EXCEPT ![Top(p).cpu] = @ \cup {p}]
  /\ Goto(p, At(p, "remote2"))
  /\ UNCHANGED <<queueVars, signalVars, cpusyncq, td_cscount, ran, calls>>

(* The cpusync of m is polled on p: once m has cleared p's bit cs_func is  *)
(* run, until then the request is queued again, behind the rest.  The list *)
(* has no limit here; where the code's has room for it is PollRingFits.    *)
lwkt_cpusync_remote2(p, m, rest) ==
  IF p \notin cs_mack[m]
  THEN /\ ran' = [ran EXCEPT ![m][p] = @ + 1]
       /\ cs_mack' = [cs_mack EXCEPT ![m] = @ \cup {p}]
       /\ cpusyncq' = [cpusyncq EXCEPT ![p] = rest]
  ELSE /\ cpusyncq' = [cpusyncq EXCEPT ![p] = Append(rest, m)]
       /\ UNCHANGED <<ran, cs_mack>>

Remote1Polls(p) ==
  /\ In(p, "func", "remote2")
  /\ lwkt_cpusync_remote2(p, Top(p).cpu, cpusyncq[p])
  /\ Goto(p, At(p, "done"))
  /\ UNCHANGED <<queueVars, signalVars, td_cscount, calls>>

(* One pass over gd_cpusyncq; the cpu stays here until it is empty, unless *)
(* its thread is in a cpusync of its own.                                  *)
ProcessSync(p) ==
  LET f == Top(p) IN
  /\ In(p, "process", "sync")
  /\ lwkt_cpusync_remote2(p, Head(cpusyncq[p]), Tail(cpusyncq[p]))
  /\ Goto(p, IF f.seq > 1 THEN [f EXCEPT !.seq = @ - 1]
             ELSE [f EXCEPT !.seq = 0,
                            !.at = IF cpusyncq'[p] # <<>> /\ td_cscount[p] = 0
                                   THEN "again" ELSE "test"])
  /\ UNCHANGED <<queueVars, signalVars, td_cscount, calls>>

-----------------------------------------------------------------------------
ThreadCall(p) ==
  \/ \E q \in Others(p) :
       \/ \E m \in Funcs[p] :
            \/ lwkt_send_ipiq3(p, q, m)
            \/ lwkt_send_ipiq3_nowait(p, q, m)
            \/ SendAndWait(p, q, m)
       \/ lwkt_send_ipiq3_passive(p, q)
  \/ lwkt_cpusync_interlock(p)

SendStep(p) ==
  \/ SendBegin(p) \/ SendLoop(p) \/ SendMask(p) \/ SendSignal(p)
  \/ lwkt_wait_ipiq(p)

ProcessStep(p) ==
  \/ ProcessAgain(p) \/ ProcessClear(p)
  \/ lwkt_process_ipiq_core(p) \/ FuncDone(p)
  \/ ProcessSync(p) \/ ProcessTest(p) \/ ProcessRelease(p)

CpusyncStep(p) ==
  \/ CpusyncSend(p) \/ CpusyncInterlocked(p) \/ lwkt_cpusync_deinterlock(p)
  \/ CpusyncFinish(p)
  \/ lwkt_cpusync_remote1(p) \/ Remote1Polls(p)

(* What cpu p does on its own.                                             *)
CpuStep(p) == Xipiq(p) \/ SendStep(p) \/ ProcessStep(p) \/ CpusyncStep(p)

Next == \E p \in Cpu : ThreadCall(p) \/ CpuStep(p)

Spec == Init /\ [][Next]_vars

(* Each cpu goes on, and the hardware delivers its interrupts.             *)
FairSpec == Spec /\ \A p \in Cpu : WF_vars(CpuStep(p))

-----------------------------------------------------------------------------
(* Properties.                                                             *)

CallsOf(p) == {stack[p][i] : i \in 1 .. Len(stack[p])}

(***************************************************************************)
(* No FIFO comes to hold MAXCPUFIFO - 1 messages, as the sender's loop     *)
(* asserts, so none is overwritten, whatever mix of blocking, passive and  *)
(* non-blocking sends fills it, also from functions run inside a send.     *)
(***************************************************************************)
FifoBounded == \A pq \in Pair : Len(fifo[pq]) < MAXCPUFIFO - 1

(***************************************************************************)
(* gd_cpusyncq is a ring of MAXCPUFIFO entries, which cpusyncq stands for  *)
(* as long as it fits: lwkt_cpusync_remote2() asserts that it did before   *)
(* each entry is counted.  A cpu polls each other cpu at most once, but    *)
(* SMP_MAXCPU exceeds MAXCPUFIFO.                                          *)
(***************************************************************************)
FewCpus == NCpu <= MAXCPUFIFO + 1

PollRingFits == \A p \in Cpu : Len(cpusyncq[p]) <= MAXCPUFIFO

(***************************************************************************)
(* While p holds the others interlocked each of them polls p's cpusync and *)
(* runs no thread: lwkt_cpusync_interlock() places them "in a quiescent    *)
(* state".                                                                 *)
(***************************************************************************)
Quiescent ==
  \A p \in Cpu : In(p, "cpusync", "held") =>
    \A q \in Others(p) :
      /\ stack[q] # <<>>
      /\ ran[p][q] = 0
      /\ \/ \E i \in 1 .. Len(cpusyncq[q]) : cpusyncq[q][i] = p
         \/ \E f \in CallsOf(q) : f.fn = "func" /\ f.at = "remote2" /\ f.cpu = p

(***************************************************************************)
(* When lwkt_cpusync_simple() returns, every cpu has run cs_func once, and *)
(* none refers to the cpusync on the caller's stack any more: not from a   *)
(* FIFO, a poll list or a function it is in.                               *)
(***************************************************************************)
CpusyncReleased ==
  \A p \in Cpu : td_cscount[p] = 0 =>
    \A q \in Others(p) :
      /\ ran[p][q] = ran[p][p]
      /\ \A i \in 1 .. Len(cpusyncq[q]) : cpusyncq[q][i] # p
      /\ \A i \in 1 .. Len(fifo[<<p, q>>]) : fifo[<<p, q>>][i] # "remote1"
      /\ \A f \in CallsOf(q) : ~(f.fn = "func" /\ f.at \in {"remote1", "remote2"}
                                   /\ f.cpu = p)

(***************************************************************************)
(* ip_xindex: "xindex is only updated after we are sure the function has   *)
(* finished execution."  It does not cover a message whose function is     *)
(* still being run.                                                        *)
(***************************************************************************)
XindexFinished ==
  \A q \in Cpu : \A f \in CallsOf(q) :
    f.fn = "func" => xindex[<<f.cpu, q>>] < f.seq

(***************************************************************************)
(* Every call returns: no two cpus end up waiting for one another, with    *)
(* both FIFOs too full, each for the other's answer or in each other's     *)
(* cpusync.                                                                *)
(***************************************************************************)
CallsReturn == \A p \in Cpu : []<>(stack[p] = <<>>)

(* No message but a passive one is left in a FIFO, with its signal lost    *)
(* between the sender's gd_npoll and the target's release of it.           *)
Delivered ==
  \A pq \in Pair : []<>(\A i \in 1 .. Len(fifo[pq]) : fifo[pq][i] = "free")
=============================================================================
