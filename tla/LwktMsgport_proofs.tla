------------------------ MODULE LwktMsgport_proofs ------------------------
(***************************************************************************)
(* Every message is in one place, and nobody sleeps on what he has, for    *)
(* every number of clients, servers, messages and cpus.                    *)
(***************************************************************************)
EXTENDS LwktMsgport, Tailq_proofs

-----------------------------------------------------------------------------
(* Ports.                                                                  *)

On(t, m) == In(m, msgq[t]) \/ In(m, msgq_prio[t])

(* The queues of a port hold each message once, those with MSGF_PRIORITY   *)
(* in mp_msgq_prio.                                                        *)
PortOK(t) ==
  /\ Distinct(msgq[t]) /\ Distinct(msgq_prio[t])
  /\ \A m \in Msg : /\ In(m, msgq[t]) => m \notin Priority
                    /\ In(m, msgq_prio[t]) => m \in Priority

PortInv ==
  /\ msgq \in [Thread -> Seq(Msg)] /\ msgq_prio \in [Thread -> Seq(Msg)]
  /\ \A t \in Thread : PortOK(t)

(* _lwkt_pushmsg() adds the message to one port.                           *)
LEMMA Pushed ==
  ASSUME PortInv, NEW t \in Thread, NEW m \in Msg, ~On(t, m), _lwkt_pushmsg(t, m)
  PROVE  /\ PortInv'
         /\ \A u \in Thread, x \in Msg : On(u, x)' <=> On(u, x) \/ (u = t /\ x = m)
<1>1. msgq[t] \in Seq(Msg) /\ msgq_prio[t] \in Seq(Msg) /\ PortOK(t)
  BY DEF PortInv
<1>2. ~In(m, msgq[t]) /\ ~In(m, msgq_prio[t])
  BY DEF On
<1>3. CASE m \in Priority
  <2>1. msgq' = msgq /\ msgq_prio' = [msgq_prio EXCEPT ![t] = Append(msgq_prio[t], m)]
    BY <1>3 DEF _lwkt_pushmsg
  <2>2. PICK s : s = Append(msgq_prio[t], m)
    OBVIOUS
  <2>3. /\ s \in Seq(Msg) /\ Distinct(s)
        /\ \A x : In(x, s) <=> In(x, msgq_prio[t]) \/ x = m
    BY <1>1, <1>2, <2>2, AppendQueue DEF PortOK
  <2>4. msgq_prio' \in [Thread -> Seq(Msg)] /\ msgq_prio'[t] = s
        /\ \A u \in Thread : u # t => msgq_prio'[u] = msgq_prio[u]
    BY <2>1, <2>2, <2>3 DEF PortInv
  <2>5. ASSUME NEW u \in Thread PROVE PortOK(u)'
    <3>1. CASE u = t
      BY <3>1, <2>1, <2>3, <2>4, <1>1, <1>3 DEF PortOK
    <3>2. CASE u # t
      BY <3>2, <2>1, <2>4 DEF PortInv, PortOK
    <3> QED BY <3>1, <3>2
  <2>6. ASSUME NEW u \in Thread, NEW x \in Msg
        PROVE  On(u, x)' <=> On(u, x) \/ (u = t /\ x = m)
    BY <2>1, <2>3, <2>4 DEF On
  <2> QED BY <2>1, <2>4, <2>5, <2>6 DEF PortInv
<1>4. CASE m \notin Priority
  <2>1. msgq_prio' = msgq_prio /\ msgq' = [msgq EXCEPT ![t] = Append(msgq[t], m)]
    BY <1>4 DEF _lwkt_pushmsg
  <2>2. PICK s : s = Append(msgq[t], m)
    OBVIOUS
  <2>3. /\ s \in Seq(Msg) /\ Distinct(s)
        /\ \A x : In(x, s) <=> In(x, msgq[t]) \/ x = m
    BY <1>1, <1>2, <2>2, AppendQueue DEF PortOK
  <2>4. msgq' \in [Thread -> Seq(Msg)] /\ msgq'[t] = s
        /\ \A u \in Thread : u # t => msgq'[u] = msgq[u]
    BY <2>1, <2>2, <2>3 DEF PortInv
  <2>5. ASSUME NEW u \in Thread PROVE PortOK(u)'
    <3>1. CASE u = t
      BY <3>1, <2>1, <2>3, <2>4, <1>1, <1>4 DEF PortOK
    <3>2. CASE u # t
      BY <3>2, <2>1, <2>4 DEF PortInv, PortOK
    <3> QED BY <3>1, <3>2
  <2>6. ASSUME NEW u \in Thread, NEW x \in Msg
        PROVE  On(u, x)' <=> On(u, x) \/ (u = t /\ x = m)
    BY <2>1, <2>3, <2>4 DEF On
  <2> QED BY <2>1, <2>4, <2>5, <2>6 DEF PortInv
<1> QED BY <1>3, <1>4

(* _lwkt_pullmsg() takes it off.                                           *)
LEMMA Pulled ==
  ASSUME PortInv, NEW t \in Thread, NEW m \in Msg, On(t, m), _lwkt_pullmsg(t, m)
  PROVE  /\ PortInv'
         /\ \A u \in Thread, x \in Msg : On(u, x)' <=> On(u, x) /\ ~(u = t /\ x = m)
<1>1. msgq[t] \in Seq(Msg) /\ msgq_prio[t] \in Seq(Msg) /\ PortOK(t)
  BY DEF PortInv
<1>3. CASE m \in Priority
  <2>1. msgq' = msgq /\ msgq_prio' = [msgq_prio EXCEPT ![t] = Without(msgq_prio[t], m)]
    BY <1>3 DEF _lwkt_pullmsg
  <2>2. PICK s : s = Without(msgq_prio[t], m)
    OBVIOUS
  <2>0. In(m, msgq_prio[t]) /\ ~In(m, msgq[t])
    BY <1>1, <1>3 DEF On, PortOK
  <2>3. /\ s \in Seq(Msg) /\ Distinct(s)
        /\ \A x : In(x, s) <=> In(x, msgq_prio[t]) /\ x # m
    BY <1>1, <2>0, <2>2, WithoutQueue DEF PortOK
  <2>4. msgq_prio' \in [Thread -> Seq(Msg)] /\ msgq_prio'[t] = s
        /\ \A u \in Thread : u # t => msgq_prio'[u] = msgq_prio[u]
    BY <2>1, <2>2, <2>3 DEF PortInv
  <2>5. ASSUME NEW u \in Thread PROVE PortOK(u)'
    <3>1. CASE u = t
      BY <3>1, <2>1, <2>3, <2>4, <1>1, <1>3 DEF PortOK
    <3>2. CASE u # t
      BY <3>2, <2>1, <2>4 DEF PortInv, PortOK
    <3> QED BY <3>1, <3>2
  <2>6. ASSUME NEW u \in Thread, NEW x \in Msg
        PROVE  On(u, x)' <=> On(u, x) /\ ~(u = t /\ x = m)
    BY <2>0, <2>1, <2>3, <2>4 DEF On
  <2> QED BY <2>1, <2>4, <2>5, <2>6 DEF PortInv
<1>4. CASE m \notin Priority
  <2>1. msgq_prio' = msgq_prio /\ msgq' = [msgq EXCEPT ![t] = Without(msgq[t], m)]
    BY <1>4 DEF _lwkt_pullmsg
  <2>2. PICK s : s = Without(msgq[t], m)
    OBVIOUS
  <2>0. In(m, msgq[t]) /\ ~In(m, msgq_prio[t])
    BY <1>1, <1>4 DEF On, PortOK
  <2>3. /\ s \in Seq(Msg) /\ Distinct(s)
        /\ \A x : In(x, s) <=> In(x, msgq[t]) /\ x # m
    BY <1>1, <2>0, <2>2, WithoutQueue DEF PortOK
  <2>4. msgq' \in [Thread -> Seq(Msg)] /\ msgq'[t] = s
        /\ \A u \in Thread : u # t => msgq'[u] = msgq[u]
    BY <2>1, <2>2, <2>3 DEF PortInv
  <2>5. ASSUME NEW u \in Thread PROVE PortOK(u)'
    <3>1. CASE u = t
      BY <3>1, <2>1, <2>3, <2>4, <1>1, <1>4 DEF PortOK
    <3>2. CASE u # t
      BY <3>2, <2>1, <2>4 DEF PortInv, PortOK
    <3> QED BY <3>1, <3>2
  <2>6. ASSUME NEW u \in Thread, NEW x \in Msg
        PROVE  On(u, x)' <=> On(u, x) /\ ~(u = t /\ x = m)
    BY <2>0, <2>1, <2>3, <2>4 DEF On
  <2> QED BY <2>1, <2>4, <2>5, <2>6 DEF PortInv
<1> QED BY <1>3, <1>4

(* Neither, and the ports stay as they are.                                *)
LEMMA PortsKept ==
  ASSUME PortInv, UNCHANGED portVars
  PROVE  /\ PortInv'
         /\ \A u \in Thread, x \in Msg : On(u, x)' <=> On(u, x)
BY DEF PortInv, PortOK, On, portVars

(* _lwkt_pollmsg() finds a message of the port, if there is one.           *)
LEMMA Polled ==
  ASSUME PortInv, NEW t \in Thread
  PROVE  /\ _lwkt_pollmsg(t) # NULL => /\ _lwkt_pollmsg(t) \in Msg
                                       /\ On(t, _lwkt_pollmsg(t))
         /\ _lwkt_pollmsg(t) = NULL <=> \A x \in Msg : ~On(t, x)
<1>1. msgq[t] \in Seq(Msg) /\ msgq_prio[t] \in Seq(Msg)
  BY DEF PortInv
<1>2. NULL \notin Msg
  BY MsgportAssumption
<1>3. ASSUME NEW s \in Seq(Msg), s # <<>> PROVE Head(s) \in Msg /\ In(Head(s), s)
  <2>1. Len(s) \in Nat /\ Len(s) > 0 /\ Head(s) = s[1] /\ s[1] \in Msg
    BY <1>3, EmptySeq
  <2> QED BY <2>1 DEF In
<1>4. CASE msgq_prio[t] # <<>>
  BY <1>1, <1>2, <1>3, <1>4 DEF _lwkt_pollmsg, On
<1>5. CASE msgq_prio[t] = <<>> /\ msgq[t] # <<>>
  BY <1>1, <1>2, <1>3, <1>5 DEF _lwkt_pollmsg, On
<1>6. CASE msgq_prio[t] = <<>> /\ msgq[t] = <<>>
  <2>1. _lwkt_pollmsg(t) = NULL
    BY <1>6 DEF _lwkt_pollmsg
  <2>2. \A x : ~On(t, x)
    BY <1>6 DEF On, In
  <2> QED BY <2>1, <2>2
<1> QED BY <1>4, <1>5, <1>6

-----------------------------------------------------------------------------
(* Where a message is.                                                     *)

Has(g, m) == work[g] # NULL /\ work[g].msg = m

Is(m, f) == ms_flags[m] \cap {"DONE", "QUEUED", "INTRANSIT"} = f
OnlyOn(m, S) == \A t \in Thread : On(t, m) <=> t \in S
OnlyIn(m, I) == \A i \in ipis : i.msg = m => i \in I
OnlyWith(m, S) == \A s \in Server : held[s] = m <=> s \in S
OnlyAt(m, G) == \A g \in Cpu : Has(g, m) <=> g \in G

(* Back with its client; on its client's port; on a server's; in an IPI;   *)
(* with a server; with a cpu that is about to queue it.                    *)
Home(m) ==
  /\ Is(m, {"DONE"})
  /\ OnlyOn(m, {}) /\ OnlyIn(m, {}) /\ OnlyWith(m, {}) /\ OnlyAt(m, {})
AtClient(m) ==
  /\ Is(m, {"DONE", "QUEUED"})
  /\ OnlyOn(m, {Owner[m]}) /\ OnlyIn(m, {}) /\ OnlyWith(m, {}) /\ OnlyAt(m, {})
AtServer(m, s) ==
  /\ Is(m, {"QUEUED"}) /\ "REPLY" \notin ms_flags[m]
  /\ OnlyOn(m, {s}) /\ OnlyIn(m, {}) /\ OnlyWith(m, {}) /\ OnlyAt(m, {})
Carried(m, i) ==
  /\ Is(m, {"INTRANSIT"})
  /\ i.msg = m
  /\ i.fn = "put" => i.port \in Server /\ "REPLY" \notin ms_flags[m]
  /\ i.fn = "reply" => i.port = Owner[m]
  /\ OnlyOn(m, {}) /\ OnlyIn(m, {i}) /\ OnlyWith(m, {}) /\ OnlyAt(m, {})
Worked(m, s) ==
  /\ Is(m, {}) /\ "REPLY" \notin ms_flags[m]
  /\ OnlyOn(m, {}) /\ OnlyIn(m, {}) /\ OnlyWith(m, {s}) /\ OnlyAt(m, {})
InHands(m, g) ==
  /\ Is(m, {})
  /\ work[g].fn \in {"put", "reply"}
  /\ work[g].fn = "put" => work[g].port \in Server /\ "REPLY" \notin ms_flags[m]
  /\ work[g].fn = "reply" => work[g].port = Owner[m]
  /\ OnlyOn(m, {}) /\ OnlyIn(m, {}) /\ OnlyWith(m, {}) /\ OnlyAt(m, {g})

Somewhere(m) ==
  \/ Home(m) \/ AtClient(m)
  \/ \E s \in Server : AtServer(m, s) \/ Worked(m, s)
  \/ \E i \in ipis : Carried(m, i)
  \/ \E g \in Cpu : InHands(m, g)

Flag == {"DONE", "REPLY", "QUEUED", "SYNC", "INTRANSIT"}

PlaceInv ==
  /\ ms_flags \in [Msg -> SUBSET Flag]
  /\ ipis \subseteq Ipi
  /\ work \in [Cpu -> Work \cup {NULL}]
  /\ \A m \in Msg : Somewhere(m)

(* What a thread does fits what it holds.                                  *)
ThreadOK(t) ==
  /\ pc[t] = "run" => ~waiting[t] /\ ~asleep[t]
  /\ sentabort[t] => pc[t] = "waitmsg"
  /\ t \in Client =>
       /\ held[t] # NULL <=> pc[t] = "waitmsg"
       /\ held[t] # NULL => Owner[held[t]] = t /\ held[t] \notin Dropable
  /\ t \in Server =>
       /\ pc[t] # "waitmsg"
       /\ held[t] # NULL => pc[t] = "run"

ThreadInv ==
  /\ waiting \in [Thread -> BOOLEAN] /\ asleep \in [Thread -> BOOLEAN]
  /\ hops \in [Msg -> 0 .. MaxHops]
  /\ pc \in [Thread -> {"run", "waitmsg", "waitport"}]
  /\ held \in [Thread -> Msg \cup {NULL}]
  /\ sentabort \in [Thread -> BOOLEAN]
  /\ \A t \in Thread : ThreadOK(t)

(* A thread on its way between two cpus runs nothing, and one that is      *)
(* about to sleep is on its cpu.                                           *)
CpuOK(g) ==
  work[g] # NULL =>
    /\ work[g].fn \in {"put", "reply"} => work[g].msg \in Msg
    /\ work[g].fn = "sleep" => td_gd[work[g].port] = g /\ pc[work[g].port] # "run"

CpuInv ==
  /\ td_gd \in [Thread -> Cpu] /\ moves \in 0 .. MaxMoves
  /\ migrating \in [Thread -> Cpu \cup {NULL}] /\ raced \in BOOLEAN
  /\ \A t \in Thread : migrating[t] # NULL => pc[t] = "run"
  /\ \A g \in Cpu : CpuOK(g)

(* t has not got what it waits for; or a cpu is about to look after it.    *)
Nothing(t) ==
  /\ pc[t] = "waitmsg" => "DONE" \notin ms_flags[held[t]]
  /\ pc[t] = "waitport" => \A m \in Msg : ~On(t, m)
Due(t) ==
  work[td_gd[t]] # NULL /\ work[td_gd[t]].fn = "look" /\ work[td_gd[t]].port = t

(* NoMissedWakeup of one thread, and of one about to sleep.                *)
SleepOK(t) == asleep[t] => waiting[t] /\ (Due(t) \/ Nothing(t))
AboutOK(g) ==
  work[g] # NULL =>
    /\ td_gd[work[g].port] = g
    /\ work[g].fn = "sleep" => Nothing(work[g].port)

SleepInv ==
  ~raced => (\A t \in Thread : SleepOK(t)) /\ (\A g \in Cpu : AboutOK(g))

Inv == PortInv /\ PlaceInv /\ ThreadInv /\ CpuInv /\ SleepInv

(* Clients and servers are threads, and not both.                          *)
LEMMA Threads ==
  /\ Client \subseteq Thread /\ Server \subseteq Thread
  /\ \A t \in Thread : t \in Client <=> t \notin Server
  /\ \A m \in Msg : Owner[m] \in Client /\ Owner[m] \in Thread /\ Owner[m] \notin Server
  /\ NULL \notin Msg /\ NULL \notin Cpu /\ NULL \notin Work
BY MsgportAssumption DEF Thread

(* A message on a port is where its flags say.                             *)
LEMMA FoundOnPort ==
  ASSUME PlaceInv, NEW m \in Msg, NEW t \in Thread, On(t, m)
  PROVE  /\ t \in Server => AtServer(m, t)
         /\ t \in Client => AtClient(m) /\ t = Owner[m]
<1>1. Somewhere(m)
  BY DEF PlaceInv
<1>2. /\ ~Home(m) /\ (\A s \in Server : ~Worked(m, s)) /\ (\A i \in ipis : ~Carried(m, i))
      /\ \A g \in Cpu : ~InHands(m, g)
  BY DEF Home, Worked, Carried, InHands, OnlyOn
<1>3. CASE AtClient(m)
  <2>1. t = Owner[m]
    BY <1>3 DEF AtClient, OnlyOn
  <2> QED BY <1>3, <2>1, Threads
<1>4. ASSUME NEW s \in Server, AtServer(m, s) PROVE t = s
  BY <1>4 DEF AtServer, OnlyOn
<1> QED BY <1>1, <1>2, <1>3, <1>4, Threads DEF Somewhere

(* So is one that an IPI carries, one that a server has, one that a cpu is *)
(* about to queue, and one that is back.                                   *)
LEMMA FoundElsewhere ==
  ASSUME PlaceInv, NEW m \in Msg
  PROVE  /\ \A i \in ipis : i.msg = m => Carried(m, i)
         /\ \A s \in Server : held[s] = m => Worked(m, s)
         /\ \A g \in Cpu : Has(g, m) => InHands(m, g)
         /\ ms_flags[m] \cap {"DONE", "QUEUED"} = {"DONE"} => Home(m)
<1>1. Somewhere(m)
  BY DEF PlaceInv
<1>2. ASSUME NEW i \in ipis, i.msg = m PROVE Carried(m, i)
  <2>1. /\ ~Home(m) /\ ~AtClient(m) /\ (\A s \in Server : ~AtServer(m, s) /\ ~Worked(m, s))
        /\ \A g \in Cpu : ~InHands(m, g)
    BY <1>2 DEF Home, AtClient, AtServer, Worked, InHands, OnlyIn
  <2>2. PICK j \in ipis : Carried(m, j)
    BY <1>1, <2>1 DEF Somewhere
  <2>3. i = j
    BY <1>2, <2>2 DEF Carried, OnlyIn
  <2> QED BY <2>2, <2>3
<1>3. ASSUME NEW s \in Server, held[s] = m PROVE Worked(m, s)
  <2>1. /\ ~Home(m) /\ ~AtClient(m) /\ (\A u \in Server : ~AtServer(m, u))
        /\ (\A i \in ipis : ~Carried(m, i)) /\ \A g \in Cpu : ~InHands(m, g)
    BY <1>3 DEF Home, AtClient, AtServer, Carried, InHands, OnlyWith
  <2>2. PICK u \in Server : Worked(m, u)
    BY <1>1, <2>1 DEF Somewhere
  <2>3. s = u
    BY <1>3, <2>2 DEF Worked, OnlyWith
  <2> QED BY <2>2, <2>3
<1>4. ASSUME NEW g \in Cpu, Has(g, m) PROVE InHands(m, g)
  <2>1. /\ ~Home(m) /\ ~AtClient(m) /\ (\A s \in Server : ~AtServer(m, s) /\ ~Worked(m, s))
        /\ \A i \in ipis : ~Carried(m, i)
    BY <1>4 DEF Home, AtClient, AtServer, Worked, Carried, OnlyAt
  <2>2. PICK h \in Cpu : InHands(m, h)
    BY <1>1, <2>1 DEF Somewhere
  <2>3. g = h
    BY <1>4, <2>2 DEF InHands, OnlyAt
  <2> QED BY <2>2, <2>3
<1>5. ASSUME ms_flags[m] \cap {"DONE", "QUEUED"} = {"DONE"} PROVE Home(m)
  <2>1. "DONE" \in ms_flags[m] /\ "QUEUED" \notin ms_flags[m]
    BY <1>5
  <2>2. /\ ~AtClient(m) /\ (\A s \in Server : ~AtServer(m, s) /\ ~Worked(m, s))
        /\ (\A i \in ipis : ~Carried(m, i)) /\ \A g \in Cpu : ~InHands(m, g)
    BY <2>1 DEF AtClient, AtServer, Worked, Carried, InHands, Is
  <2> QED BY <1>1, <2>2 DEF Somewhere
<1> QED BY <1>2, <1>3, <1>4, <1>5

(* Another cpu, or none, comes to be at work on m.                         *)
OnlyWork(m) ==
  \A g \in Cpu : work'[g] = work[g] \/ \A x \in Msg : x # m => ~Has(g, x) /\ ~Has(g, x)'

(* A step about m leaves the other messages where they are.                *)
LEMMA OthersStay ==
  ASSUME PlaceInv, NEW m \in Msg, Somewhere(m)', OnlyWork(m),
         ms_flags' \in [Msg -> SUBSET Flag], ipis' \subseteq Ipi,
         work' \in [Cpu -> Work \cup {NULL}],
         \A x \in Msg : x # m =>
           /\ ms_flags'[x] = ms_flags[x]
           /\ \A t \in Thread : On(t, x)' <=> On(t, x)
           /\ \A i : i.msg = x => (i \in ipis' <=> i \in ipis)
           /\ \A s \in Server : held'[s] = x <=> held[s] = x
  PROVE  PlaceInv'
<1> SUFFICES ASSUME NEW x \in Msg, x # m PROVE Somewhere(x)'
  BY DEF PlaceInv
<1>1. Somewhere(x)
  BY DEF PlaceInv
<1>2. \A f : Is(x, f) => Is(x, f)'
  BY DEF Is
<1>3. \A S : OnlyOn(x, S) => OnlyOn(x, S)'
  BY DEF OnlyOn
<1>4. \A I : OnlyIn(x, I) => OnlyIn(x, I)'
  BY DEF OnlyIn
<1>5. \A S : OnlyWith(x, S) => OnlyWith(x, S)'
  BY DEF OnlyWith
<1>6. ms_flags'[x] = ms_flags[x]
  OBVIOUS
<1>0. \A g \in Cpu : (Has(g, x)' <=> Has(g, x)) /\ (Has(g, x) => work'[g] = work[g])
  BY DEF OnlyWork, Has
<1>12. \A G : OnlyAt(x, G) => OnlyAt(x, G)'
  BY <1>0 DEF OnlyAt
<1>7. CASE Home(x)
  BY <1>7, <1>2, <1>3, <1>4, <1>5, <1>12 DEF Home, Somewhere
<1>8. CASE AtClient(x)
  BY <1>8, <1>2, <1>3, <1>4, <1>5, <1>12 DEF AtClient, Somewhere
<1>9. ASSUME NEW s \in Server, AtServer(x, s) PROVE Somewhere(x)'
  BY <1>9, <1>2, <1>3, <1>4, <1>5, <1>6, <1>12 DEF AtServer, Somewhere
<1>10. ASSUME NEW s \in Server, Worked(x, s) PROVE Somewhere(x)'
  BY <1>10, <1>2, <1>3, <1>4, <1>5, <1>6, <1>12 DEF Worked, Somewhere
<1>11. ASSUME NEW i \in ipis, Carried(x, i) PROVE Somewhere(x)'
  <2>1. Carried(x, i)'
    BY <1>11, <1>2, <1>3, <1>4, <1>5, <1>6, <1>12 DEF Carried
  <2>2. i \in ipis'
    BY <1>11 DEF Carried
  <2> QED BY <2>1, <2>2 DEF Somewhere
<1>13. ASSUME NEW g \in Cpu, InHands(x, g) PROVE Somewhere(x)'
  <2>1. work'[g] = work[g]
    BY <1>13, <1>0 DEF InHands, OnlyAt
  <2>2. InHands(x, g)'
    BY <1>13, <1>2, <1>3, <1>4, <1>5, <1>6, <1>12, <2>1 DEF InHands
  <2> QED BY <2>2 DEF Somewhere
<1> QED BY <1>1, <1>7, <1>8, <1>9, <1>10, <1>11, <1>13 DEF Somewhere

(* Setting the flags of m.                                                 *)
LEMMA FlagsSet ==
  ASSUME PlaceInv, NEW m \in Msg, NEW f \in SUBSET Flag, SetFlags(m, f)
  PROVE  /\ ms_flags' \in [Msg -> SUBSET Flag]
         /\ ms_flags'[m] = f
         /\ \A x \in Msg : x # m => ms_flags'[x] = ms_flags[x]
BY DEF PlaceInv, SetFlags

(* A cpu begins something.                                                 *)
LEMMA Begun ==
  ASSUME PlaceInv, NEW g \in Cpu, NEW fn \in {"put", "reply", "look", "sleep"},
         NEW m \in Msg \cup {NULL}, NEW t \in Thread, Begin(g, fn, m, t)
  PROVE  /\ work' \in [Cpu -> Work \cup {NULL}]
         /\ work'[g] # NULL /\ work'[g].fn = fn /\ work'[g].msg = m /\ work'[g].port = t
         /\ \A h \in Cpu : h # g => work'[h] = work[h]
<1>1. PICK w : w = [fn |-> fn, msg |-> m, port |-> t]
  OBVIOUS
<1>2. w \in Work /\ w.fn = fn /\ w.msg = m /\ w.port = t
  BY <1>1 DEF Work
<1>3. w # NULL
  BY <1>2, Threads
<1>4. work' = [work EXCEPT ![g] = w] /\ work \in [Cpu -> Work \cup {NULL}]
  BY <1>1 DEF Begin, PlaceInv
<1> QED BY <1>2, <1>3, <1>4

(* Nothing comes to t that it could wait for.                              *)
Calm(t) ==
  \A m \in Msg :
    /\ On(t, m)' => On(t, m)
    /\ "DONE" \in ms_flags'[m] =>
         "DONE" \in ms_flags[m] \/ Owner[m] # t \/ m \in Dropable

AllCalm == \A t \in Thread : Calm(t)

(* Then it goes on waiting for what it has not got.                        *)
LEMMA NothingKept ==
  ASSUME ThreadInv, NEW t \in Thread, Calm(t), pc'[t] = pc[t], held'[t] = held[t], Nothing(t)
  PROVE  Nothing(t)'
<1>1. CASE pc[t] = "waitmsg"
  <2>1. ThreadOK(t)
    BY DEF ThreadInv
  <2>2. t \in Client
    BY <1>1, <2>1, Threads DEF ThreadOK
  <2>3. PICK m : m = held[t]
    OBVIOUS
  <2>4. m # NULL /\ Owner[m] = t /\ m \notin Dropable
    BY <1>1, <2>1, <2>2, <2>3 DEF ThreadOK
  <2>5. m \in Msg
    BY <2>3, <2>4 DEF ThreadInv
  <2>6. "DONE" \notin ms_flags'[m]
    BY <1>1, <2>3, <2>4, <2>5 DEF Nothing, Calm
  <2> QED BY <1>1, <2>3, <2>6 DEF Nothing
<1>2. CASE pc[t] # "waitmsg"
  BY <1>2 DEF Nothing, Calm
<1> QED BY <1>1, <1>2

-----------------------------------------------------------------------------
(* Where the steps put messages.                                           *)

(* m, which is nowhere else, gets to a cpu that is to queue it.            *)
LEMMA BegunPlaced ==
  ASSUME Inv, NEW g \in Cpu, work[g] = NULL, NEW m \in Msg, OnlyOn(m, {}), OnlyAt(m, {}),
         NEW t \in Thread, NEW fn \in {"put", "reply"},
         NEW f \in SUBSET Flag, f \cap {"DONE", "QUEUED", "INTRANSIT"} = {},
         fn = "put" => t \in Server /\ "REPLY" \notin f,
         fn = "reply" => t = Owner[m],
         SetFlags(m, f), Begin(g, fn, m, t), UNCHANGED portVars, ipis' \subseteq ipis,
         \A i \in ipis' : i.msg # m,
         \A i \in ipis : i.msg # m => i \in ipis',
         \A u \in Server : held'[u] # m,
         \A u \in Server, x \in Msg : x # m => (held'[u] = x <=> held[u] = x)
  PROVE  PortInv' /\ PlaceInv' /\ AllCalm
<1>1. /\ ms_flags' \in [Msg -> SUBSET Flag]
      /\ ms_flags'[m] = f
      /\ \A x \in Msg : x # m => ms_flags'[x] = ms_flags[x]
  BY FlagsSet DEF Inv
<1>2. PortInv' /\ \A u \in Thread, x \in Msg : On(u, x)' <=> On(u, x)
  BY PortsKept DEF Inv
<1>3. /\ work' \in [Cpu -> Work \cup {NULL}]
      /\ work'[g] # NULL /\ work'[g].fn = fn /\ work'[g].msg = m /\ work'[g].port = t
      /\ \A h \in Cpu : h # g => work'[h] = work[h]
  BY Begun DEF Inv
<1>4. InHands(m, g)'
  <2>1. Is(m, {})'
    BY <1>1 DEF Is
  <2>2. OnlyOn(m, {})'
    BY <1>2 DEF OnlyOn
  <2>3. OnlyIn(m, {})' /\ OnlyWith(m, {})'
    BY DEF OnlyIn, OnlyWith
  <2>4. OnlyAt(m, {g})'
    BY <1>3 DEF OnlyAt, Has
  <2> QED BY <1>1, <1>3, <2>1, <2>2, <2>3, <2>4 DEF InHands
<1>5. Somewhere(m)'
  BY <1>4 DEF Somewhere
<1>6. OnlyWork(m)
  BY <1>3 DEF OnlyWork, Has
<1>7. ipis' \subseteq Ipi
  BY DEF Inv, PlaceInv
<1>8. ASSUME NEW x \in Msg, x # m
      PROVE  /\ ms_flags'[x] = ms_flags[x]
             /\ \A u \in Thread : On(u, x)' <=> On(u, x)
             /\ \A i : i.msg = x => (i \in ipis' <=> i \in ipis)
             /\ \A u \in Server : held'[u] = x <=> held[u] = x
  BY <1>1, <1>2, <1>8
<1>9. PlaceInv'
  BY <1>1, <1>3, <1>5, <1>6, <1>7, <1>8, OthersStay DEF Inv
<1>10. \A x \in Msg : "DONE" \in ms_flags'[x] => "DONE" \in ms_flags[x]
  BY <1>1
<1> QED BY <1>2, <1>9, <1>10 DEF AllCalm, Calm

(* An IPI is sent for m, to put it on a server's port or to reply.         *)
LEMMA SentPlaced ==
  ASSUME Inv, NEW m \in Msg, OnlyOn(m, {}), OnlyAt(m, {}),
         NEW t \in Thread, NEW fn \in {"put", "reply"},
         NEW f \in SUBSET Flag, f \cap {"DONE", "QUEUED"} = {},
         fn = "put" => t \in Server /\ "REPLY" \notin f,
         fn = "reply" => t = Owner[m],
         SetFlags(m, f \cup {"INTRANSIT"}), UNCHANGED <<portVars, work>>,
         NEW I, I \subseteq ipis, ipis' = I \cup {SendIpi(fn, m, t)},
         \A i \in I : i.msg # m,
         \A i \in ipis : i.msg # m => i \in I,
         \A u \in Server : held'[u] # m,
         \A u \in Server, x \in Msg : x # m => (held'[u] = x <=> held[u] = x)
  PROVE  PortInv' /\ PlaceInv' /\ AllCalm
<1>1. PICK h : h = f \cup {"INTRANSIT"}
  OBVIOUS
<1>2. h \in SUBSET Flag
  BY <1>1 DEF Flag
<1>3. /\ ms_flags' \in [Msg -> SUBSET Flag]
      /\ ms_flags'[m] = h
      /\ \A x \in Msg : x # m => ms_flags'[x] = ms_flags[x]
  BY <1>1, <1>2, FlagsSet DEF Inv
<1>4. PortInv' /\ \A u \in Thread, x \in Msg : On(u, x)' <=> On(u, x)
  BY PortsKept DEF Inv
<1>5. PICK i : i = SendIpi(fn, m, t)
  OBVIOUS
<1>6. /\ i \in Ipi /\ i.msg = m /\ i.fn = fn /\ i.port = t
      /\ ipis' = I \cup {i}
  BY <1>5 DEF SendIpi, Ipi, Inv, CpuInv
<1>7. Carried(m, i)'
  <2>1. Is(m, {"INTRANSIT"})'
    BY <1>1, <1>3 DEF Is
  <2>2. "REPLY" \notin f => "REPLY" \notin ms_flags'[m]
    BY <1>1, <1>3
  <2>3. OnlyOn(m, {})'
    BY <1>4 DEF OnlyOn
  <2>4. OnlyIn(m, {i})' /\ OnlyWith(m, {})'
    BY <1>6 DEF OnlyIn, OnlyWith
  <2>5. OnlyAt(m, {})'
    BY DEF OnlyAt, Has
  <2> QED BY <1>6, <2>1, <2>2, <2>3, <2>4, <2>5 DEF Carried
<1>8. Somewhere(m)'
  BY <1>6, <1>7 DEF Somewhere
<1>9. ipis' \subseteq Ipi /\ work' \in [Cpu -> Work \cup {NULL}] /\ OnlyWork(m)
  BY <1>6 DEF Inv, PlaceInv, OnlyWork
<1>10. ASSUME NEW x \in Msg, x # m
      PROVE  /\ ms_flags'[x] = ms_flags[x]
             /\ \A u \in Thread : On(u, x)' <=> On(u, x)
             /\ \A j : j.msg = x => (j \in ipis' <=> j \in ipis)
             /\ \A u \in Server : held'[u] = x <=> held[u] = x
  BY <1>3, <1>4, <1>6, <1>10
<1>11. PlaceInv'
  BY <1>3, <1>8, <1>9, <1>10, OthersStay DEF Inv
<1>13. ASSUME NEW x \in Msg PROVE "DONE" \in ms_flags'[x] => "DONE" \in ms_flags[x]
  BY <1>1, <1>3
<1> QED BY <1>4, <1>11, <1>13 DEF AllCalm, Calm

(* m is taken off a port, by its client or a server.                       *)
LEMMA TakenPlaced ==
  ASSUME Inv, NEW t \in Thread, NEW m \in Msg, On(t, m), _lwkt_pullmsg(t, m),
         NEW f \in SUBSET Flag, SetFlags(m, f), ipis' = ipis, work' = work,
         \A u \in Server, x \in Msg : x # m => (held'[u] = x <=> held[u] = x),
         \/ /\ t \in Client /\ f = ms_flags[m] \ {"QUEUED"}
            /\ \A u \in Server : held'[u] # m
         \/ /\ t \in Server /\ f = ms_flags[m] \ {"QUEUED"}
            /\ \A u \in Server : held'[u] = m <=> u = t
         \/ /\ t \in Server /\ f = (ms_flags[m] \ {"QUEUED"}) \cup {"DONE"}
            /\ \A u \in Server : held'[u] # m
            /\ m \in Dropable
  PROVE  PortInv' /\ PlaceInv' /\ AllCalm
<1>1. PortInv' /\ \A u \in Thread, x \in Msg : On(u, x)' <=> On(u, x) /\ ~(u = t /\ x = m)
  BY Pulled DEF Inv
<1>2. /\ ms_flags' \in [Msg -> SUBSET Flag]
      /\ ms_flags'[m] = f
      /\ \A x \in Msg : x # m => ms_flags'[x] = ms_flags[x]
  BY FlagsSet DEF Inv
<1>3. /\ t \in Server => AtServer(m, t)
      /\ t \in Client => AtClient(m) /\ t = Owner[m]
  BY FoundOnPort DEF Inv
<1>4. OnlyOn(m, {t}) /\ OnlyIn(m, {}) /\ OnlyAt(m, {})
  BY <1>3, Threads DEF AtServer, AtClient
<1>5. OnlyOn(m, {})' /\ OnlyIn(m, {})' /\ OnlyAt(m, {})'
  BY <1>1, <1>4 DEF OnlyOn, OnlyIn, OnlyAt, Has
<1>6. Somewhere(m)'
  <2>1. CASE t \in Client
    <3>1. f = ms_flags[m] \ {"QUEUED"} /\ (\A u \in Server : held'[u] # m)
      BY <2>1, Threads
    <3>2. Is(m, {"DONE"})'
      BY <1>2, <1>3, <2>1, <3>1 DEF AtClient, Is
    <3>3. OnlyWith(m, {})'
      BY <3>1 DEF OnlyWith
    <3> QED BY <1>5, <3>2, <3>3 DEF Home, Somewhere
  <2>2. CASE t \in Server /\ f = ms_flags[m] \ {"QUEUED"}
             /\ (\A u \in Server : held'[u] = m <=> u = t)
    <3>1. Is(m, {})' /\ "REPLY" \notin ms_flags'[m]
      BY <1>2, <1>3, <2>2 DEF AtServer, Is
    <3>2. OnlyWith(m, {t})'
      BY <2>2 DEF OnlyWith
    <3> QED BY <1>5, <2>2, <3>1, <3>2 DEF Worked, Somewhere
  <2>3. CASE t \in Server /\ f = (ms_flags[m] \ {"QUEUED"}) \cup {"DONE"}
             /\ (\A u \in Server : held'[u] # m)
    <3>1. Is(m, {"DONE"})'
      BY <1>2, <1>3, <2>3 DEF AtServer, Is
    <3>2. OnlyWith(m, {})'
      BY <2>3 DEF OnlyWith
    <3> QED BY <1>5, <3>1, <3>2 DEF Home, Somewhere
  <2> QED BY <2>1, <2>2, <2>3
<1>7. PlaceInv'
  <2>1. \A x \in Msg : x # m =>
          /\ ms_flags'[x] = ms_flags[x]
          /\ \A u \in Thread : On(u, x)' <=> On(u, x)
          /\ \A i : i.msg = x => (i \in ipis' <=> i \in ipis)
          /\ \A u \in Server : held'[u] = x <=> held[u] = x
    BY <1>1, <1>2
  <2>2. ipis' \subseteq Ipi /\ work' \in [Cpu -> Work \cup {NULL}] /\ OnlyWork(m)
    BY DEF Inv, PlaceInv, OnlyWork
  <2> QED BY <1>2, <1>6, <2>1, <2>2, OthersStay DEF Inv
<1>8. ASSUME NEW x \in Msg, "DONE" \in ms_flags'[x]
      PROVE  "DONE" \in ms_flags[x] \/ x \in Dropable
  BY <1>2, <1>8
<1> QED BY <1>1, <1>7, <1>8 DEF AllCalm, Calm

(* A step that moves no message; what cpus begin or end has none.          *)
LEMMA NothingMoves ==
  ASSUME Inv, UNCHANGED <<ms_flags, portVars, ipis>>,
         \A s \in Server : held'[s] = held[s],
         work' \in [Cpu -> Work \cup {NULL}],
         \A g \in Cpu : work'[g] = work[g] \/ \A x \in Msg : ~Has(g, x) /\ ~Has(g, x)'
  PROVE  PortInv' /\ PlaceInv' /\ AllCalm
<1>1. PortInv' /\ \A t \in Thread, m \in Msg : On(t, m)' <=> On(t, m)
  BY PortsKept DEF Inv
<1>2. ASSUME NEW m \in Msg PROVE Somewhere(m)'
  <2>1. Somewhere(m)
    BY DEF Inv, PlaceInv
  <2>2. \A f : Is(m, f)' <=> Is(m, f)
    BY DEF Is
  <2>3. \A S : OnlyOn(m, S)' <=> OnlyOn(m, S)
    BY <1>1 DEF OnlyOn
  <2>4. \A I : OnlyIn(m, I)' <=> OnlyIn(m, I)
    BY DEF OnlyIn
  <2>5. \A S : OnlyWith(m, S)' <=> OnlyWith(m, S)
    BY DEF OnlyWith
  <2>0. \A g \in Cpu : (Has(g, m)' <=> Has(g, m)) /\ (Has(g, m) => work'[g] = work[g])
    BY <1>2 DEF Has
  <2>10. \A G : OnlyAt(m, G)' <=> OnlyAt(m, G)
    BY <2>0 DEF OnlyAt
  <2>6. Home(m) => Home(m)'
    BY <2>2, <2>3, <2>4, <2>5, <2>10 DEF Home
  <2>7. AtClient(m) => AtClient(m)'
    BY <2>2, <2>3, <2>4, <2>5, <2>10 DEF AtClient
  <2>8. \A s : (AtServer(m, s) => AtServer(m, s)') /\ (Worked(m, s) => Worked(m, s)')
    BY <2>2, <2>3, <2>4, <2>5, <2>10 DEF AtServer, Worked
  <2>9. \A i : Carried(m, i) => Carried(m, i)'
    BY <2>2, <2>3, <2>4, <2>5, <2>10 DEF Carried
  <2>11. ASSUME NEW g \in Cpu, InHands(m, g) PROVE InHands(m, g)'
    <3>1. work'[g] = work[g]
      BY <2>0, <2>11 DEF InHands, OnlyAt
    <3> QED BY <2>2, <2>3, <2>4, <2>5, <2>10, <2>11, <3>1 DEF InHands
  <2> QED BY <2>1, <2>6, <2>7, <2>8, <2>9, <2>11 DEF Somewhere
<1> QED BY <1>1, <1>2 DEF Inv, PlaceInv, AllCalm, Calm

-----------------------------------------------------------------------------
(* What a step does to threads and cpus.                                   *)

(* t goes on as before; or it is its turn, and it does not go to sleep.    *)
Same(t) ==
  /\ waiting'[t] = waiting[t] /\ pc'[t] = pc[t] /\ held'[t] = held[t]
  /\ sentabort'[t] = sentabort[t]
  /\ asleep'[t] => asleep[t]
Turned(t) ==
  work[td_gd[t]] = NULL /\ migrating[t] = NULL /\ ThreadOK(t)' /\ ~asleep'[t]

(* The cpu g begins something with a thread that is there.                 *)
Fresh(g) ==
  /\ work[g] = NULL /\ work'[g] # NULL
  /\ td_gd[work'[g].port] = g
  /\ work'[g].fn \in {"put", "reply"} => work'[g].msg \in Msg
  /\ work'[g].fn = "sleep" =>
       \A t \in Thread : t = work'[g].port => pc'[t] # "run" /\ Nothing(t)'

WorkGoesOn == \A g \in Cpu : work'[g] = work[g] \/ Fresh(g)

(* The types of what threads do.                                           *)
ThreadTypes ==
  /\ waiting \in [Thread -> BOOLEAN] /\ asleep \in [Thread -> BOOLEAN]
  /\ hops \in [Msg -> 0 .. MaxHops]
  /\ pc \in [Thread -> {"run", "waitmsg", "waitport"}]
  /\ held \in [Thread -> Msg \cup {NULL}]
  /\ sentabort \in [Thread -> BOOLEAN]

(* The port of what a cpu does is a thread's.                              *)
LEMMA WorkTyped ==
  ASSUME PlaceInv, NEW g \in Cpu, work[g] # NULL
  PROVE  /\ work[g] \in Work /\ work[g].port \in Thread
         /\ work[g].fn \in {"put", "reply", "look", "sleep"}
<1>1. work[g] \in Work
  BY DEF PlaceInv
<1> QED BY <1>1 DEF Work

(* Such a step keeps the invariant, if every message stays somewhere.      *)
LEMMA Frame ==
  ASSUME Inv, PortInv', PlaceInv', ThreadTypes', UNCHANGED placeVars,
         \A t \in Thread : (Same(t) /\ Calm(t)) \/ Turned(t),
         WorkGoesOn
  PROVE  Inv'
<1>0. td_gd' = td_gd /\ migrating' = migrating /\ moves' = moves /\ raced' = raced
  BY DEF placeVars
<1>1. ASSUME NEW t \in Thread PROVE ThreadOK(t)'
  <2>1. CASE Same(t)
    <3>1. ThreadOK(t)
      BY DEF Inv, ThreadInv
    <3> QED BY <2>1, <3>1 DEF Same, ThreadOK
  <2>2. CASE Turned(t)
    BY <2>2 DEF Turned
  <2> QED BY <2>1, <2>2
<1>2. ThreadInv'
  BY <1>1 DEF ThreadTypes, ThreadInv
<1>3. ASSUME NEW g \in Cpu, work'[g] # NULL, work'[g] = work[g], work[g].fn = "sleep"
      PROVE  /\ td_gd[work[g].port] = g /\ pc'[work[g].port] # "run"
             /\ Same(work[g].port) /\ Calm(work[g].port)
  <2>1. work[g] # NULL
    BY <1>3
  <2>2. work[g].port \in Thread /\ CpuOK(g)
    BY <2>1, WorkTyped DEF Inv, CpuInv
  <2>3. td_gd[work[g].port] = g /\ pc[work[g].port] # "run"
    BY <1>3, <2>1, <2>2 DEF CpuOK
  <2>4. ~Turned(work[g].port)
    BY <2>1, <2>3 DEF Turned
  <2> QED BY <2>2, <2>3, <2>4 DEF Same
<1>10. ASSUME NEW g \in Cpu, work'[g] # NULL PROVE work'[g].port \in Thread
  <2>1. work'[g] \in Work
    BY <1>10 DEF PlaceInv
  <2> QED BY <2>1 DEF Work
<1>4. ASSUME NEW g \in Cpu PROVE CpuOK(g)'
  <2>1. CASE work'[g] = work[g]
    <3>1. CpuOK(g)
      BY DEF Inv, CpuInv
    <3> QED BY <1>0, <1>3, <2>1, <3>1 DEF CpuOK
  <2>2. CASE Fresh(g)
    <3>1. work'[g].port \in Thread
      BY <2>2, <1>10 DEF Fresh
    <3> QED BY <1>0, <2>2, <3>1 DEF Fresh, CpuOK
  <2> QED BY <2>1, <2>2 DEF WorkGoesOn
<1>5. ASSUME NEW t \in Thread, migrating'[t] # NULL PROVE pc'[t] = "run"
  BY <1>0, <1>5 DEF Inv, CpuInv, Same, Turned
<1>6. CpuInv'
  BY <1>0, <1>4, <1>5 DEF Inv, CpuInv
<1>7. ASSUME ~raced', NEW t \in Thread PROVE SleepOK(t)'
  <2> SUFFICES ASSUME asleep'[t] PROVE waiting'[t] /\ (Due(t)' \/ Nothing(t)')
    BY DEF SleepOK
  <2>1. Same(t) /\ Calm(t)
    BY DEF Turned
  <2>2. SleepOK(t) /\ asleep[t]
    BY <1>0, <1>7, <2>1 DEF Inv, SleepInv, Same
  <2>3. waiting'[t] /\ (Due(t) \/ Nothing(t))
    BY <2>1, <2>2 DEF SleepOK, Same
  <2>4. Due(t) => Due(t)'
    <3>1. td_gd[t] \in Cpu
      BY DEF Inv, CpuInv
    <3> QED BY <1>0, <3>1 DEF Due, WorkGoesOn, Fresh
  <2>5. Nothing(t) => Nothing(t)'
    BY <2>1, NothingKept DEF Same, Inv
  <2> QED BY <2>3, <2>4, <2>5
<1>8. ASSUME ~raced', NEW g \in Cpu PROVE AboutOK(g)'
  <2>1. CASE work'[g] = work[g] /\ work[g] # NULL
    <3>1. AboutOK(g)
      BY <1>0, <1>8 DEF Inv, SleepInv
    <3>2. work[g].port \in Thread
      BY <2>1, WorkTyped DEF Inv
    <3>3. CASE work[g].fn = "sleep"
      <4>1. Same(work[g].port) /\ Calm(work[g].port)
        BY <1>3, <2>1, <3>3
      <4>2. Nothing(work[g].port)'
        BY <2>1, <3>1, <3>2, <3>3, <4>1, NothingKept DEF Same, Inv, AboutOK
      <4>3. td_gd[work[g].port] = g
        BY <2>1, <3>1 DEF AboutOK
      <4> QED BY <1>0, <2>1, <4>2, <4>3 DEF AboutOK
    <3>4. CASE work[g].fn # "sleep"
      BY <1>0, <2>1, <3>1, <3>4 DEF AboutOK
    <3> QED BY <3>3, <3>4
  <2>2. CASE Fresh(g)
    <3>1. PICK t \in Thread : t = work'[g].port
      BY <2>2, <1>10 DEF Fresh
    <3>2. work'[g].fn = "sleep" => Nothing(t)'
      BY <2>2, <3>1 DEF Fresh
    <3>3. Nothing(t)' => Nothing(work[g].port)'
      BY <3>1 DEF Nothing, On
    <3> QED BY <1>0, <2>2, <3>2, <3>3 DEF Fresh, AboutOK
  <2>3. CASE work'[g] = NULL
    BY <2>3 DEF AboutOK
  <2> QED BY <2>1, <2>2, <2>3 DEF WorkGoesOn
<1>9. SleepInv'
  BY <1>7, <1>8 DEF SleepInv
<1> QED BY <1>2, <1>6, <1>9 DEF Inv

(* A cpu that is free begins to queue a message.                           *)
LEMMA BeganFresh ==
  ASSUME Inv, NEW g \in Cpu, work[g] = NULL, NEW m \in Msg, NEW t \in Thread,
         td_gd[t] = g, NEW fn \in {"put", "reply"}, Begin(g, fn, m, t)
  PROVE  WorkGoesOn
<1>1. /\ work'[g] # NULL /\ work'[g].fn = fn /\ work'[g].msg = m /\ work'[g].port = t
      /\ \A h \in Cpu : h # g => work'[h] = work[h]
  BY Begun DEF Inv
<1>2. Fresh(g)
  BY <1>1 DEF Fresh
<1> QED BY <1>1, <1>2 DEF WorkGoesOn

(* lwkt_thread_putport() of a message that is nowhere else.                *)
LEMMA PutportPlaced ==
  ASSUME Inv, NEW g \in Cpu, work[g] = NULL, NEW s \in Server, NEW m \in Msg,
         OnlyOn(m, {}), OnlyIn(m, {}), OnlyAt(m, {}),
         NEW f \in SUBSET Flag, f \cap {"DONE", "QUEUED", "INTRANSIT", "REPLY"} = {},
         lwkt_thread_putport(g, s, m, f), UNCHANGED portVars,
         \A u \in Server : held'[u] # m,
         \A u \in Server, x \in Msg : x # m => (held'[u] = x <=> held[u] = x)
  PROVE  PortInv' /\ PlaceInv' /\ AllCalm /\ WorkGoesOn
<1>1. \A i \in ipis : i.msg # m
  BY DEF OnlyIn
<1>2. s \in Thread
  BY Threads
<1>3. PICK fn : fn = "put"
  OBVIOUS
<1>4. fn \in {"put", "reply"} /\ fn # "reply" /\ "REPLY" \notin f
      /\ f \cap {"DONE", "QUEUED", "INTRANSIT"} = {} /\ f \cap {"DONE", "QUEUED"} = {}
  BY <1>3
<1>5. CASE td_gd[s] = g
  <2>1. SetFlags(m, f) /\ Begin(g, fn, m, s) /\ ipis' = ipis
    BY <1>3, <1>5 DEF lwkt_thread_putport
  <2>2. ipis' \subseteq ipis /\ (\A i \in ipis' : i.msg # m)
        /\ \A i \in ipis : i.msg # m => i \in ipis'
    BY <1>1, <2>1
  <2>3. PortInv' /\ PlaceInv' /\ AllCalm
    BY <1>2, <1>4, <2>1, <2>2, BegunPlaced
  <2> QED BY <1>2, <1>4, <1>5, <2>1, <2>3, BeganFresh
<1>6. CASE td_gd[s] # g
  <2>1. /\ SetFlags(m, f \cup {"INTRANSIT"}) /\ UNCHANGED work
        /\ ipis' = ipis \cup {SendIpi(fn, m, s)}
    BY <1>3, <1>6 DEF lwkt_thread_putport
  <2>2. PICK I : I = ipis
    OBVIOUS
  <2>3. PortInv' /\ PlaceInv' /\ AllCalm
    BY <1>1, <1>2, <1>4, <2>1, <2>2, SentPlaced
  <2> QED BY <2>1, <2>3 DEF WorkGoesOn
<1> QED BY <1>5, <1>6

(* lwkt_thread_replyport() of a message a server has.                      *)
LEMMA ReplyportPlaced ==
  ASSUME Inv, NEW g \in Cpu, work[g] = NULL, NEW s \in Server, NEW m \in Msg, held[s] = m,
         lwkt_thread_replyport(g, Owner[m], m), UNCHANGED portVars,
         \A u \in Server : held'[u] # m,
         \A u \in Server, x \in Msg : x # m => (held'[u] = x <=> held[u] = x)
  PROVE  PortInv' /\ PlaceInv' /\ AllCalm /\ WorkGoesOn
<1>1. Worked(m, s)
  BY FoundElsewhere DEF Inv
<1>2. OnlyOn(m, {}) /\ OnlyIn(m, {}) /\ OnlyAt(m, {}) /\ Is(m, {})
  BY <1>1 DEF Worked
<1>3. \A i \in ipis : i.msg # m
  BY <1>2 DEF OnlyIn
<1>4. PICK f : f = ms_flags[m]
  OBVIOUS
<1>5. f \in SUBSET Flag /\ f \cap {"DONE", "QUEUED", "INTRANSIT"} = {}
  BY <1>2, <1>4 DEF Is, Inv, PlaceInv
<1>6. PICK t : t = Owner[m]
  OBVIOUS
<1>7. t \in Thread
  BY <1>6, Threads
<1>8. PICK fn : fn = "reply"
  OBVIOUS
<1>9. fn \in {"put", "reply"} /\ fn # "put"
  BY <1>8
<1>10. CASE td_gd[t] = g
  <2>1. Begin(g, fn, m, t) /\ UNCHANGED <<ms_flags, ipis>>
    BY <1>6, <1>8, <1>10 DEF lwkt_thread_replyport
  <2>2. SetFlags(m, f)
    BY <1>4, <2>1 DEF SetFlags, Inv, PlaceInv
  <2>3. ipis' \subseteq ipis /\ (\A i \in ipis' : i.msg # m)
        /\ \A i \in ipis : i.msg # m => i \in ipis'
    BY <1>3, <2>1
  <2>4. PortInv' /\ PlaceInv' /\ AllCalm
    BY <1>2, <1>5, <1>6, <1>7, <1>9, <2>1, <2>2, <2>3, BegunPlaced
  <2> QED BY <1>7, <1>9, <1>10, <2>1, <2>4, BeganFresh
<1>11. CASE td_gd[t] # g
  <2>1. PICK h : h = f \cup {"REPLY"}
    OBVIOUS
  <2>2. h \cup {"INTRANSIT"} = ms_flags[m] \cup {"INTRANSIT", "REPLY"}
    BY <1>4, <2>1
  <2>3. /\ SetFlags(m, h \cup {"INTRANSIT"}) /\ UNCHANGED work
        /\ ipis' = ipis \cup {SendIpi(fn, m, t)}
    BY <1>6, <1>8, <1>11, <2>2 DEF lwkt_thread_replyport
  <2>4. h \in SUBSET Flag /\ h \cap {"DONE", "QUEUED"} = {}
    BY <1>5, <2>1 DEF Flag
  <2>5. PICK I : I = ipis
    OBVIOUS
  <2>6. PortInv' /\ PlaceInv' /\ AllCalm
    BY <1>2, <1>3, <1>6, <1>7, <1>9, <2>3, <2>4, <2>5, SentPlaced
  <2> QED BY <2>3, <2>6 DEF WorkGoesOn
<1> QED BY <1>10, <1>11

(* The remote half: the message arrives, or follows the thread.            *)
LEMMA IpiPlaced ==
  ASSUME Inv, NEW i \in ipis, IpiRuns(i)
  PROVE  PortInv' /\ PlaceInv' /\ AllCalm /\ WorkGoesOn
<1>1. i \in Ipi /\ held' = held /\ UNCHANGED portVars
  BY DEF Inv, PlaceInv, IpiRuns, threadVars
<1>2. PICK m \in Msg : m = i.msg
  BY <1>1 DEF Ipi
<1>3. PICK t \in Thread : t = i.port
  BY <1>1 DEF Ipi
<1>4. PICK fn \in {"put", "reply"} : fn = i.fn
  BY <1>1 DEF Ipi
<1>5. PICK g \in Cpu : g = i.cpu
  BY <1>1 DEF Ipi
<1>6. Carried(m, i)
  BY <1>2, FoundElsewhere DEF Inv
<1>7. /\ OnlyOn(m, {}) /\ OnlyIn(m, {i}) /\ OnlyWith(m, {}) /\ OnlyAt(m, {})
      /\ Is(m, {"INTRANSIT"})
  BY <1>6 DEF Carried
<1>8. (\A u \in Server : held'[u] # m) /\ (\A j \in ipis : j.msg = m => j = i)
  BY <1>1, <1>7 DEF OnlyWith, OnlyIn
<1>9. PICK f : f = ms_flags[m] \ {"INTRANSIT"}
  OBVIOUS
<1>10. /\ f \in SUBSET Flag /\ f \cap {"DONE", "QUEUED", "INTRANSIT"} = {}
       /\ f \cap {"DONE", "QUEUED"} = {}
       /\ f \cup {"INTRANSIT"} = ms_flags[m]
       /\ "REPLY" \notin ms_flags[m] => "REPLY" \notin f
  <2>1. ms_flags[m] \in SUBSET Flag
    BY DEF Inv, PlaceInv
  <2>2. "INTRANSIT" \in ms_flags[m] /\ "DONE" \notin ms_flags[m] /\ "QUEUED" \notin ms_flags[m]
    BY <1>7 DEF Is
  <2> QED BY <1>9, <2>1, <2>2
<1>11. /\ fn = "put" => t \in Server /\ "REPLY" \notin f
       /\ fn = "reply" => t = Owner[m]
  BY <1>3, <1>4, <1>6, <1>10 DEF Carried
<1>12. PICK I : I = ipis \ {i}
  OBVIOUS
<1>13. /\ I \subseteq ipis /\ (\A j \in I : j.msg # m)
       /\ \A j \in ipis : j.msg # m => j \in I
  BY <1>2, <1>8, <1>12
<1>14. CASE td_gd[t] # g
  <2>1. Chase(i) /\ UNCHANGED <<ms_flags, work>>
    BY <1>3, <1>5, <1>14 DEF IpiRuns
  <2>2. ipis' = I \cup {SendIpi(fn, m, t)}
    BY <1>2, <1>3, <1>4, <1>12, <2>1 DEF Chase
  <2>3. SetFlags(m, f \cup {"INTRANSIT"})
    BY <1>10, <2>1 DEF SetFlags, Inv, PlaceInv
  <2>4. PortInv' /\ PlaceInv' /\ AllCalm
    BY <1>1, <1>7, <1>8, <1>10, <1>11, <1>13, <2>1, <2>2, <2>3, SentPlaced
  <2> QED BY <2>1, <2>4 DEF WorkGoesOn
<1>15. CASE td_gd[t] = g
  <2>1. ipis' = I /\ SetFlags(m, f) /\ Begin(g, fn, m, t) /\ work[g] = NULL
    BY <1>2, <1>3, <1>4, <1>5, <1>9, <1>12, <1>15 DEF IpiRuns
  <2>2. ipis' \subseteq ipis /\ (\A j \in ipis' : j.msg # m)
        /\ \A j \in ipis : j.msg # m => j \in ipis'
    BY <1>13, <2>1
  <2>3. PortInv' /\ PlaceInv' /\ AllCalm
    BY <1>1, <1>7, <1>8, <1>10, <1>11, <2>1, <2>2, BegunPlaced
  <2> QED BY <1>15, <2>1, <2>3, BeganFresh
<1> QED BY <1>14, <1>15

-----------------------------------------------------------------------------
(* The steps of threads.                                                   *)

(* The types of the invariant.                                             *)
LEMMA Typed ==
  ASSUME Inv
  PROVE  ThreadTypes /\ \A t \in Thread : td_gd[t] \in Cpu /\ ThreadOK(t)
BY DEF Inv, ThreadInv, ThreadTypes, CpuInv

(* Only t changes what it does; it does not go to sleep.                   *)
LEMMA OneThread ==
  ASSUME Inv, NEW t \in Thread, PortInv', PlaceInv', AllCalm, WorkGoesOn,
         work[td_gd[t]] = NULL, migrating[t] = NULL, UNCHANGED placeVars,
         ThreadTypes', ThreadOK(t)', ~asleep'[t],
         \A u \in Thread : u # t => Same(u)
  PROVE  Inv'
<1>1. Turned(t)
  BY DEF Turned
<1>2. \A u \in Thread : (Same(u) /\ Calm(u)) \/ Turned(u)
  BY <1>1 DEF AllCalm
<1> QED BY <1>2, Frame

(* No thread changes what it does.                                         *)
LEMMA NoThread ==
  ASSUME Inv, PortInv', PlaceInv', AllCalm, WorkGoesOn,
         UNCHANGED <<hops, waiting, threadVars, asleep>>
  PROVE  Inv'
<1>1. ThreadTypes' /\ UNCHANGED placeVars
  BY Typed DEF ThreadTypes, threadVars
<1>2. \A u \in Thread : Same(u) /\ Calm(u)
  BY DEF Same, AllCalm, threadVars
<1> QED BY <1>1, <1>2, Frame

(* lwkt_thread_putport_remote() and lwkt_thread_replyport_remote().        *)
LEMMA StepIpi ==
  ASSUME Inv, NEW i \in ipis, IpiRuns(i)
  PROVE  Inv'
<1>1. PortInv' /\ PlaceInv' /\ AllCalm /\ WorkGoesOn
  BY IpiPlaced
<1>2. UNCHANGED <<hops, waiting, threadVars, asleep>>
  BY DEF IpiRuns
<1> QED BY <1>1, <1>2, NoThread

(* A new round of forwards.                                                *)
LEMMA HopsReset ==
  ASSUME Inv, NEW m \in Msg, NEW n \in 0 .. MaxHops, hops' = [hops EXCEPT ![m] = n]
  PROVE  hops' \in [Msg -> 0 .. MaxHops]
BY DEF Inv, ThreadInv

(* lwkt_sendmsg() and lwkt_domsg(): a message at home is sent.             *)
LEMMA StepSend ==
  ASSUME Inv, NEW c \in Client, NEW m \in Msg, NEW s \in Server,
         lwkt_sendmsg(c, m, s) \/ lwkt_domsg(c, m, s)
  PROVE  Inv'
<1>1. c \in Thread /\ ThreadOK(c) /\ c \notin Server
  BY Threads DEF Inv, ThreadInv
<1>2. PICK zero : zero = 0
  OBVIOUS
<1>3. zero \in 0 .. MaxHops
  BY <1>2, MsgportAssumption
<1>4. /\ Running(c) /\ Owner[m] = c
      /\ ms_flags[m] \cap {"DONE", "QUEUED"} = {"DONE"}
      /\ hops' = [hops EXCEPT ![m] = zero]
      /\ UNCHANGED <<portVars, waiting, placeVars, sentabort, asleep>>
  BY <1>2 DEF lwkt_sendmsg, lwkt_domsg, threadVars
<1>5. hops' \in [Msg -> 0 .. MaxHops]
  BY <1>3, <1>4, HopsReset
<1>6. Home(m)
  BY <1>4, FoundElsewhere DEF Inv
<1>7. OnlyOn(m, {}) /\ OnlyIn(m, {}) /\ OnlyWith(m, {}) /\ OnlyAt(m, {})
  BY <1>6 DEF Home
<1>8. \A u \in Server : held[u] # m
  BY <1>7 DEF OnlyWith
<1>9. PICK g \in Cpu : g = td_gd[c]
  BY <1>1, Typed
<1>10. work[g] = NULL /\ migrating[c] = NULL /\ ~asleep[c] /\ pc[c] = "run"
  BY <1>4, <1>9 DEF Running, OnCpu
<1>11. CASE lwkt_sendmsg(c, m, s)
  <2>1. PICK f : f = {}
    OBVIOUS
  <2>2. lwkt_thread_putport(g, s, m, f) /\ UNCHANGED threadVars
    BY <1>9, <1>11, <2>1 DEF lwkt_sendmsg
  <2>3. f \in SUBSET Flag /\ f \cap {"DONE", "QUEUED", "INTRANSIT", "REPLY"} = {}
    BY <2>1
  <2>4. held' = held
    BY <2>2 DEF threadVars
  <2>5. PortInv' /\ PlaceInv' /\ AllCalm /\ WorkGoesOn
    BY <1>4, <1>7, <1>8, <1>10, <2>2, <2>3, <2>4, PutportPlaced
  <2>6. ThreadTypes'
    BY <1>4, <1>5, <2>2, Typed DEF ThreadTypes, threadVars
  <2>7. \A u \in Thread : Same(u) /\ Calm(u)
    BY <1>4, <2>2, <2>5 DEF Same, AllCalm, threadVars
  <2> QED BY <1>4, <2>5, <2>6, <2>7, Frame
<1>12. CASE lwkt_domsg(c, m, s)
  <2>1. PICK f : f = {"SYNC"}
    OBVIOUS
  <2>2. /\ lwkt_thread_putport(g, s, m, f)
        /\ pc' = [pc EXCEPT ![c] = "waitmsg"] /\ held' = [held EXCEPT ![c] = m]
        /\ m \notin Dropable
    BY <1>9, <1>12, <2>1 DEF lwkt_domsg
  <2>3. f \in SUBSET Flag /\ f \cap {"DONE", "QUEUED", "INTRANSIT", "REPLY"} = {}
    BY <2>1 DEF Flag
  <2>4. /\ pc' \in [Thread -> {"run", "waitmsg", "waitport"}]
        /\ held' \in [Thread -> Msg \cup {NULL}]
        /\ pc'[c] = "waitmsg" /\ held'[c] = m
        /\ \A u \in Thread : u # c => pc'[u] = pc[u] /\ held'[u] = held[u]
    BY <1>1, <2>2, Typed DEF ThreadTypes
  <2>5. \A u \in Server : held'[u] = held[u]
    BY <1>1, <2>4, Threads
  <2>6. PortInv' /\ PlaceInv' /\ AllCalm /\ WorkGoesOn
    BY <1>4, <1>7, <1>8, <1>10, <2>2, <2>3, <2>5, PutportPlaced
  <2>7. ThreadOK(c)' /\ ~asleep'[c]
    BY <1>1, <1>4, <1>10, <2>2, <2>4, Threads DEF ThreadOK
  <2>8. ThreadTypes'
    BY <1>4, <1>5, <2>4, Typed DEF ThreadTypes
  <2>9. \A u \in Thread : u # c => Same(u)
    BY <1>4, <2>4 DEF Same
  <2> QED BY <1>1, <1>4, <1>9, <1>10, <2>6, <2>7, <2>8, <2>9, OneThread
<1> QED BY <1>11, <1>12

(* A step that touches neither messages nor what cpus do.                  *)
LEMMA Quiet ==
  ASSUME Inv, UNCHANGED <<ms_flags, portVars, ipis, work>>,
         \A s \in Server : held'[s] = held[s]
  PROVE  PortInv' /\ PlaceInv' /\ AllCalm /\ WorkGoesOn
<1>1. work' \in [Cpu -> Work \cup {NULL}] /\ \A g \in Cpu : work'[g] = work[g]
  BY DEF Inv, PlaceInv
<1>2. PortInv' /\ PlaceInv' /\ AllCalm
  BY <1>1, NothingMoves
<1> QED BY <1>1, <1>2 DEF WorkGoesOn

(* A client turns to a message it has sent, or to its port.                *)
LEMMA StepWaitBegins ==
  ASSUME Inv, NEW c \in Client, WaitBegins(c)
  PROVE  Inv'
<1>1. c \in Thread /\ ThreadOK(c) /\ c \notin Server
  BY Threads DEF Inv, ThreadInv
<1>2. /\ Running(c)
      /\ UNCHANGED <<ms_flags, hops, portVars, waiting, placeVars, sentabort, asleep, ipis, work>>
  BY DEF WaitBegins
<1>3. pc \in [Thread -> {"run", "waitmsg", "waitport"}] /\ held \in [Thread -> Msg \cup {NULL}]
      /\ waiting' \in [Thread -> BOOLEAN] /\ sentabort' \in [Thread -> BOOLEAN]
      /\ hops' \in [Msg -> 0 .. MaxHops] /\ asleep' \in [Thread -> BOOLEAN]
  BY <1>2, Typed DEF ThreadTypes
<1>4. /\ ~asleep[c] /\ pc[c] = "run" /\ held[c] = NULL /\ ~sentabort[c]
      /\ work[td_gd[c]] = NULL /\ migrating[c] = NULL
  BY <1>1, <1>2 DEF Running, OnCpu, ThreadOK
<1>5. /\ pc' \in [Thread -> {"run", "waitmsg", "waitport"}]
      /\ held' \in [Thread -> Msg \cup {NULL}]
      /\ \A u \in Thread : u # c => pc'[u] = pc[u] /\ held'[u] = held[u]
      /\ ThreadOK(c)'
  <2>1. CASE pc' = [pc EXCEPT ![c] = "waitport"] /\ held' = held
    <3>1. /\ pc' \in [Thread -> {"run", "waitmsg", "waitport"}]
          /\ pc'[c] = "waitport" /\ \A u \in Thread : u # c => pc'[u] = pc[u]
      BY <1>1, <1>3, <2>1
    <3> QED BY <1>1, <1>2, <1>3, <1>4, <2>1, <3>1 DEF ThreadOK
  <2>2. ASSUME NEW m \in Msg \ Dropable, Owner[m] = c,
               pc' = [pc EXCEPT ![c] = "waitmsg"], held' = [held EXCEPT ![c] = m]
        PROVE  /\ pc' \in [Thread -> {"run", "waitmsg", "waitport"}]
               /\ held' \in [Thread -> Msg \cup {NULL}]
               /\ \A u \in Thread : u # c => pc'[u] = pc[u] /\ held'[u] = held[u]
               /\ ThreadOK(c)'
    <3>1. /\ pc' \in [Thread -> {"run", "waitmsg", "waitport"}]
          /\ held' \in [Thread -> Msg \cup {NULL}]
          /\ pc'[c] = "waitmsg" /\ held'[c] = m
          /\ \A u \in Thread : u # c => pc'[u] = pc[u] /\ held'[u] = held[u]
      BY <1>1, <1>3, <2>2
    <3>2. ThreadOK(c)'
      BY <1>1, <1>2, <1>4, <2>2, <3>1, Threads DEF ThreadOK
    <3> QED BY <3>1, <3>2
  <2> QED BY <2>1, <2>2 DEF WaitBegins
<1>6. \A s \in Server : held'[s] = held[s]
  BY <1>1, <1>5, Threads
<1>7. PortInv' /\ PlaceInv' /\ AllCalm /\ WorkGoesOn
  BY <1>2, <1>6, Quiet
<1>8. ThreadTypes'
  BY <1>3, <1>5 DEF ThreadTypes
<1>9. ~asleep'[c] /\ \A u \in Thread : u # c => Same(u)
  BY <1>2, <1>4, <1>5 DEF Same
<1> QED BY <1>1, <1>2, <1>4, <1>5, <1>7, <1>8, <1>9, OneThread

(* The wait of t ends, and a server has the message it got.                *)
LEMMA Ended ==
  ASSUME Inv, NEW t \in Thread, OnCpu(t), NEW n \in Msg \cup {NULL}, WaitOver(t, n),
         t \in Client => n = NULL, PortInv', PlaceInv', AllCalm
  PROVE  Inv'
<1>1. UNCHANGED <<hops, placeVars, asleep, work>>
  BY DEF WaitOver
<1>3. /\ waiting' \in [Thread -> BOOLEAN] /\ sentabort' \in [Thread -> BOOLEAN]
      /\ pc' \in [Thread -> {"run", "waitmsg", "waitport"}]
      /\ held' \in [Thread -> Msg \cup {NULL}]
      /\ ~waiting'[t] /\ ~sentabort'[t] /\ pc'[t] = "run" /\ held'[t] = n
      /\ \A u \in Thread : u # t =>
           /\ waiting'[u] = waiting[u] /\ pc'[u] = pc[u] /\ held'[u] = held[u]
           /\ sentabort'[u] = sentabort[u]
  BY DEF WaitOver, Inv, ThreadInv
<1>2. ThreadTypes'
  BY <1>1, <1>3, Typed DEF ThreadTypes
<1>4. ThreadOK(t)' /\ ~asleep'[t]
  BY <1>1, <1>3 DEF ThreadOK, OnCpu
<1>5. \A u \in Thread : u # t => Same(u)
  BY <1>1, <1>3 DEF Same
<1>6. WorkGoesOn
  BY <1>1 DEF WorkGoesOn
<1> QED BY <1>1, <1>2, <1>4, <1>5, <1>6, OneThread DEF OnCpu

(* t finds that it has not got what it waits for.                          *)
LEMMA StepNotYet ==
  ASSUME Inv, NEW t \in Thread, OnCpu(t), NotYet(t), pc[t] # "run", Nothing(t)
  PROVE  Inv'
<1>1. /\ Begin(td_gd[t], "sleep", NULL, t)
      /\ UNCHANGED <<ms_flags, hops, portVars, waiting, threadVars, asleep, ipis>>
  BY DEF NotYet
<1>2. PICK g \in Cpu : g = td_gd[t]
  BY Typed
<1>3. PICK fn \in {"put", "reply", "look", "sleep"} : fn = "sleep"
  OBVIOUS
<1>4. PICK n \in Msg \cup {NULL} : n = NULL
  OBVIOUS
<1>5. Begin(g, fn, n, t) /\ work[g] = NULL
  BY <1>1, <1>2, <1>3, <1>4 DEF OnCpu
<1>6. /\ work' \in [Cpu -> Work \cup {NULL}]
      /\ work'[g] # NULL /\ work'[g].fn = fn /\ work'[g].msg = n /\ work'[g].port = t
      /\ \A h \in Cpu : h # g => work'[h] = work[h]
  BY <1>5, Begun DEF Inv
<1>7. \A x \in Msg : ~Has(g, x) /\ ~Has(g, x)'
  BY <1>4, <1>5, <1>6, Threads DEF Has
<1>8. held' = held /\ pc' = pc
  BY <1>1 DEF threadVars
<1>9. PortInv' /\ PlaceInv' /\ AllCalm
  BY <1>1, <1>6, <1>7, <1>8, NothingMoves
<1>10. Nothing(t)'
  BY <1>8, <1>9, NothingKept DEF AllCalm, Inv
<1>11. Fresh(g)
  BY <1>2, <1>3, <1>5, <1>6, <1>8, <1>10 DEF Fresh
<1>12. WorkGoesOn
  BY <1>6, <1>11 DEF WorkGoesOn
<1> QED BY <1>1, <1>9, <1>12, NoThread

(* lwkt_thread_waitmsg() takes a message that is done off the port if it is *)
(* queued there, and sleeps otherwise.                                     *)
LEMMA StepWaitmsg ==
  ASSUME Inv, NEW c \in Client, lwkt_thread_waitmsg(c)
  PROVE  Inv'
<1>1. c \in Thread /\ ThreadOK(c) /\ c \notin Server
  BY Threads DEF Inv, ThreadInv
<1>2. pc[c] = "waitmsg" /\ OnCpu(c)
  BY DEF lwkt_thread_waitmsg
<1>3. PICK m : m = held[c]
  OBVIOUS
<1>4. m \in Msg /\ Owner[m] = c
  BY <1>1, <1>2, <1>3 DEF ThreadOK, Inv, ThreadInv
<1>5. CASE "DONE" \notin ms_flags[m]
  <2>1. NotYet(c)
    BY <1>3, <1>5 DEF lwkt_thread_waitmsg
  <2>2. Nothing(c)
    BY <1>2, <1>3, <1>5 DEF Nothing
  <2> QED BY <1>1, <1>2, <2>1, <2>2, StepNotYet
<1>6. CASE "DONE" \in ms_flags[m]
  <2>1. /\ WaitOver(c, NULL)
        /\ IF "QUEUED" \in ms_flags[m]
           THEN _lwkt_pullmsg(c, m) /\ SetFlags(m, ms_flags[m] \ {"QUEUED"})
           ELSE UNCHANGED <<portVars, ms_flags>>
    BY <1>3, <1>6 DEF lwkt_thread_waitmsg
  <2>2. /\ ipis' = ipis /\ work' = work
        /\ \A u \in Thread : u # c => held'[u] = held[u]
    BY <2>1 DEF WaitOver, Inv, ThreadInv
  <2>3. \A s \in Server : held'[s] = held[s]
    BY <1>1, <2>2, Threads
  <2>4. PortInv' /\ PlaceInv' /\ AllCalm
    <3>1. CASE "QUEUED" \in ms_flags[m]
      <4>1. PICK f : f = ms_flags[m] \ {"QUEUED"}
        OBVIOUS
      <4>2. _lwkt_pullmsg(c, m) /\ SetFlags(m, f) /\ f \in SUBSET Flag
        BY <2>1, <3>1, <4>1, <1>4 DEF Inv, PlaceInv
      <4>3. AtClient(m)
        <5>1. Somewhere(m)
          BY <1>4 DEF Inv, PlaceInv
        <5>2. /\ ~Home(m) /\ (\A s \in Server : ~AtServer(m, s) /\ ~Worked(m, s))
              /\ (\A i \in ipis : ~Carried(m, i)) /\ \A g \in Cpu : ~InHands(m, g)
          BY <1>6, <3>1 DEF Home, AtServer, Worked, Carried, InHands, Is
        <5> QED BY <5>1, <5>2 DEF Somewhere
      <4>4. On(c, m) /\ \A s \in Server : held[s] # m
        BY <1>1, <1>4, <4>3 DEF AtClient, OnlyOn, OnlyWith
      <4> QED BY <1>1, <1>4, <2>2, <2>3, <4>1, <4>2, <4>4, TakenPlaced
    <3>2. CASE "QUEUED" \notin ms_flags[m]
      <4>1. UNCHANGED <<ms_flags, portVars, ipis, work>>
        BY <2>1, <2>2, <3>2
      <4> QED BY <2>3, <4>1, Quiet
    <3> QED BY <3>1, <3>2
  <2>5. PICK n : n = NULL
    OBVIOUS
  <2> QED BY <1>1, <1>2, <2>1, <2>4, <2>5, Ended
<1> QED BY <1>5, <1>6

(* The first message of t's port is taken.                                 *)
LEMMA Got ==
  ASSUME Inv, NEW t \in Thread, OnCpu(t), t \in Server => held[t] = NULL,
         _lwkt_pollmsg(t) # NULL,
         _lwkt_pullmsg(t, _lwkt_pollmsg(t)),
         SetFlags(_lwkt_pollmsg(t), ms_flags[_lwkt_pollmsg(t)] \ {"QUEUED"}),
         WaitOver(t, IF t \in Server THEN _lwkt_pollmsg(t) ELSE NULL)
  PROVE  Inv'
<1>1. PICK m : m = _lwkt_pollmsg(t)
  OBVIOUS
<1>2. m \in Msg /\ On(t, m)
  BY <1>1, Polled DEF Inv
<1>3. PICK f : f = ms_flags[m] \ {"QUEUED"}
  OBVIOUS
<1>4. f \in SUBSET Flag /\ SetFlags(m, f) /\ _lwkt_pullmsg(t, m)
  BY <1>1, <1>2, <1>3 DEF Inv, PlaceInv
<1>5. PICK n : n = IF t \in Server THEN m ELSE NULL
  OBVIOUS
<1>6. WaitOver(t, n) /\ n \in Msg \cup {NULL} /\ (t \in Client => n = NULL)
  BY <1>1, <1>2, <1>5, Threads
<1>7. /\ ipis' = ipis /\ work' = work /\ held'[t] = n
      /\ \A u \in Thread : u # t => held'[u] = held[u]
  BY <1>6 DEF WaitOver, Inv, ThreadInv
<1>8. /\ t \in Server => AtServer(m, t)
      /\ t \in Client => AtClient(m)
  BY <1>2, FoundOnPort DEF Inv
<1>9. \A s \in Server : held[s] # m
  BY <1>8, Threads DEF AtServer, AtClient, OnlyWith
<1>10. ASSUME NEW u \in Server, NEW x \in Msg, x # m PROVE held'[u] = x <=> held[u] = x
  <2>1. CASE u = t
    BY <1>5, <1>7, <1>10, <2>1, Threads
  <2>2. CASE u # t
    BY <1>7, <2>2, Threads
  <2> QED BY <2>1, <2>2
<1>11. CASE t \in Server
  <2>1. \A u \in Server : held'[u] = m <=> u = t
    BY <1>5, <1>7, <1>9, <1>11, Threads
  <2>2. PortInv' /\ PlaceInv' /\ AllCalm
    BY <1>2, <1>3, <1>4, <1>7, <1>10, <1>11, <2>1, TakenPlaced
  <2> QED BY <1>6, <2>2, Ended
<1>12. CASE t \in Client
  <2>1. \A u \in Server : held'[u] # m
    BY <1>7, <1>9, <1>12, Threads
  <2>2. PortInv' /\ PlaceInv' /\ AllCalm
    BY <1>2, <1>3, <1>4, <1>7, <1>10, <1>12, <2>1, TakenPlaced
  <2> QED BY <1>6, <2>2, Ended
<1> QED BY <1>11, <1>12, Threads

(* lwkt_thread_waitport() and lwkt_thread_getport().                       *)
LEMMA StepWaitport ==
  ASSUME Inv, NEW t \in Thread, lwkt_thread_waitport(t) \/ lwkt_thread_getport(t)
  PROVE  Inv'
<1>1. ThreadOK(t)
  BY DEF Inv, ThreadInv
<1>2. CASE lwkt_thread_waitport(t)
  <2>1. pc[t] = "waitport" /\ OnCpu(t)
    BY <1>2 DEF lwkt_thread_waitport
  <2>2. CASE _lwkt_pollmsg(t) # NULL
    <3>1. t \in Server => held[t] = NULL
      BY <1>1, <2>1 DEF ThreadOK
    <3>2. /\ _lwkt_pullmsg(t, _lwkt_pollmsg(t))
          /\ SetFlags(_lwkt_pollmsg(t), ms_flags[_lwkt_pollmsg(t)] \ {"QUEUED"})
          /\ WaitOver(t, IF t \in Server THEN _lwkt_pollmsg(t) ELSE NULL)
      BY <1>2, <2>2, Zenon DEF lwkt_thread_waitport
    <3> QED BY <2>1, <2>2, <3>1, <3>2, Got
  <2>3. CASE _lwkt_pollmsg(t) = NULL
    <3>1. NotYet(t)
      BY <1>2, <2>3 DEF lwkt_thread_waitport
    <3>2. \A m \in Msg : ~On(t, m)
      BY <2>3, Polled DEF Inv
    <3>3. Nothing(t)
      BY <2>1, <3>2 DEF Nothing
    <3> QED BY <2>1, <3>1, <3>3, StepNotYet
  <2> QED BY <2>2, <2>3
<1>3. CASE lwkt_thread_getport(t)
  <2>1. OnCpu(t) /\ held[t] = NULL /\ _lwkt_pollmsg(t) # NULL
    BY <1>3 DEF lwkt_thread_getport, Running
  <2>2. /\ _lwkt_pullmsg(t, _lwkt_pollmsg(t))
        /\ SetFlags(_lwkt_pollmsg(t), ms_flags[_lwkt_pollmsg(t)] \ {"QUEUED"})
        /\ WaitOver(t, IF t \in Server THEN _lwkt_pollmsg(t) ELSE NULL)
    BY <1>3, Zenon DEF lwkt_thread_getport
  <2> QED BY <2>1, <2>2, Got
<1> QED BY <1>2, <1>3

(* A signal ends a sleep.                                                  *)
LEMMA StepInterrupt ==
  ASSUME Inv, NEW t \in Thread, Interrupt(t)
  PROVE  Inv'
<1>1. ThreadOK(t) /\ asleep[t] /\ work[td_gd[t]] = NULL
  BY DEF Inv, ThreadInv, Interrupt
<1>2. UNCHANGED <<ms_flags, portVars, ipis, hops, placeVars, held, work>>
  BY DEF Interrupt
<1>3. /\ asleep' = [asleep EXCEPT ![t] = FALSE] /\ waiting' = [waiting EXCEPT ![t] = FALSE]
      /\ asleep \in [Thread -> BOOLEAN] /\ waiting \in [Thread -> BOOLEAN]
  BY DEF Interrupt, Inv, ThreadInv
<1>4. /\ asleep' \in [Thread -> BOOLEAN] /\ ~asleep'[t]
      /\ waiting' \in [Thread -> BOOLEAN] /\ ~waiting'[t]
      /\ \A u \in Thread : u # t => asleep'[u] = asleep[u] /\ waiting'[u] = waiting[u]
  BY <1>3
<1>5. /\ hops' \in [Msg -> 0 .. MaxHops] /\ held' \in [Thread -> Msg \cup {NULL}]
      /\ pc \in [Thread -> {"run", "waitmsg", "waitport"}]
      /\ sentabort \in [Thread -> BOOLEAN]
  BY <1>2 DEF Inv, ThreadInv
<1>6. PortInv' /\ PlaceInv' /\ AllCalm /\ WorkGoesOn
  BY <1>2, Quiet
<1>7. migrating[t] = NULL
  <2>1. pc[t] # "run"
    BY <1>1 DEF ThreadOK
  <2> QED BY <2>1 DEF Inv, CpuInv
<1>8. CASE pc[t] = "waitmsg" /\ sentabort' = [sentabort EXCEPT ![t] = TRUE] /\ pc' = pc
  <2>1. /\ sentabort' \in [Thread -> BOOLEAN] /\ sentabort'[t]
        /\ \A u \in Thread : u # t => sentabort'[u] = sentabort[u]
    BY <1>5, <1>8
  <2>2. ThreadOK(t)'
    BY <1>1, <1>2, <1>4, <1>8, <2>1 DEF ThreadOK
  <2>3. ThreadTypes' /\ \A u \in Thread : u # t => Same(u)
    BY <1>2, <1>4, <1>5, <1>8, <2>1 DEF ThreadTypes, Same
  <2> QED BY <1>1, <1>2, <1>4, <1>6, <1>7, <2>2, <2>3, OneThread
<1>9. CASE pc[t] = "waitport" /\ pc' = [pc EXCEPT ![t] = "run"] /\ sentabort' = sentabort
  <2>1. /\ pc' \in [Thread -> {"run", "waitmsg", "waitport"}] /\ pc'[t] = "run"
        /\ \A u \in Thread : u # t => pc'[u] = pc[u]
    BY <1>5, <1>9
  <2>2. ThreadOK(t)'
    BY <1>1, <1>2, <1>4, <1>9, <2>1 DEF ThreadOK
  <2>3. ThreadTypes' /\ \A u \in Thread : u # t => Same(u)
    BY <1>2, <1>4, <1>5, <1>9, <2>1 DEF ThreadTypes, Same
  <2> QED BY <1>1, <1>2, <1>4, <1>6, <1>7, <2>2, <2>3, OneThread
<1> QED BY <1>8, <1>9 DEF Interrupt

(* A server without a message turns to its port.                           *)
LEMMA StepServerWaits ==
  ASSUME Inv, NEW s \in Server, ServerWaits(s)
  PROVE  Inv'
<1>1. s \in Thread /\ ThreadOK(s) /\ s \notin Client
  BY Threads DEF Inv, ThreadInv
<1>2. /\ Running(s) /\ held[s] = NULL /\ pc' = [pc EXCEPT ![s] = "waitport"]
      /\ UNCHANGED <<ms_flags, hops, portVars, waiting, placeVars, held, sentabort,
                     asleep, ipis, work>>
  BY DEF ServerWaits
<1>4. /\ pc' \in [Thread -> {"run", "waitmsg", "waitport"}] /\ pc'[s] = "waitport"
      /\ \A u \in Thread : u # s => pc'[u] = pc[u]
  BY <1>1, <1>2, Typed DEF ThreadTypes
<1>5. ThreadOK(s)' /\ ~asleep'[s]
  BY <1>1, <1>2, <1>4 DEF ThreadOK, Running, OnCpu
<1>6. PortInv' /\ PlaceInv' /\ AllCalm /\ WorkGoesOn
  BY <1>2, Quiet
<1>7. ThreadTypes' /\ \A u \in Thread : u # s => Same(u)
  BY <1>2, <1>4, Typed DEF ThreadTypes, Same
<1> QED BY <1>1, <1>2, <1>5, <1>6, <1>7, OneThread DEF Running, OnCpu

(* The server s hands on the message m that it has.                        *)
LEMMA HandedOn ==
  ASSUME Inv, NEW s \in Server, NEW m \in Msg, held[s] = m,
         held' = [held EXCEPT ![s] = NULL]
  PROVE  /\ s \in Thread /\ Worked(m, s)
         /\ held' \in [Thread -> Msg \cup {NULL}] /\ held'[s] = NULL
         /\ \A u \in Thread : u # s => held'[u] = held[u]
         /\ \A u \in Server : held'[u] # m
         /\ \A u \in Server, x \in Msg : x # m => (held'[u] = x <=> held[u] = x)
<1>1. s \in Thread
  BY Threads
<1>2. /\ held' \in [Thread -> Msg \cup {NULL}] /\ held'[s] = NULL
      /\ \A u \in Thread : u # s => held'[u] = held[u]
  BY <1>1 DEF Inv, ThreadInv
<1>3. Worked(m, s)
  BY FoundElsewhere DEF Inv
<1>4. \A u \in Server : held[u] = m => u = s
  BY <1>3 DEF Worked, OnlyWith
<1>5. ASSUME NEW u \in Server
      PROVE  held'[u] # m /\ \A x \in Msg : x # m => (held'[u] = x <=> held[u] = x)
  <2>1. CASE u = s
    BY <1>2, <2>1, Threads
  <2>2. CASE u # s
    BY <1>2, <1>4, <2>2, Threads
  <2> QED BY <2>1, <2>2
<1> QED BY <1>1, <1>2, <1>3, <1>5

(* A running server that has let go of its message.                        *)
LEMMA LetGo ==
  ASSUME Inv, NEW s \in Server, NEW m \in Msg, held[s] = m, Running(s),
         held' = [held EXCEPT ![s] = NULL], hops' \in [Msg -> 0 .. MaxHops],
         UNCHANGED <<waiting, placeVars, pc, sentabort, asleep>>,
         PortInv', PlaceInv', AllCalm, WorkGoesOn
  PROVE  Inv'
<1>1. /\ s \in Thread
      /\ held' \in [Thread -> Msg \cup {NULL}] /\ held'[s] = NULL
      /\ \A u \in Thread : u # s => held'[u] = held[u]
  BY HandedOn
<1>2. ThreadTypes' /\ \A u \in Thread : u # s => Same(u)
  BY <1>1, Typed DEF ThreadTypes, Same
<1>3. ~asleep'[s] /\ ThreadOK(s) /\ work[td_gd[s]] = NULL /\ migrating[s] = NULL
  BY <1>1, Typed DEF Running, OnCpu
<1>4. ThreadOK(s)'
  BY <1>1, <1>3, Threads DEF ThreadOK
<1> QED BY <1>1, <1>2, <1>3, <1>4, OneThread

(* lwkt_replymsg().                                                        *)
LEMMA StepReply ==
  ASSUME Inv, NEW s \in Server, lwkt_replymsg(s)
  PROVE  Inv'
<1>1. PICK m : m = held[s]
  OBVIOUS
<1>2. m \in Msg
  BY <1>1, Threads DEF lwkt_replymsg, Inv, ThreadInv
<1>3. PICK g \in Cpu : g = td_gd[s]
  BY Threads, Typed
<1>4. /\ Running(s) /\ lwkt_thread_replyport(g, Owner[m], m)
      /\ held' = [held EXCEPT ![s] = NULL]
      /\ UNCHANGED <<hops, portVars, waiting, placeVars, pc, sentabort, asleep>>
  BY <1>1, <1>3 DEF lwkt_replymsg
<1>5. /\ \A u \in Server : held'[u] # m
      /\ \A u \in Server, x \in Msg : x # m => (held'[u] = x <=> held[u] = x)
  BY <1>1, <1>2, <1>4, HandedOn
<1>8. work[g] = NULL
  BY <1>3, <1>4 DEF Running, OnCpu
<1>6. PortInv' /\ PlaceInv' /\ AllCalm /\ WorkGoesOn
  BY <1>1, <1>2, <1>4, <1>5, <1>8, ReplyportPlaced
<1>7. hops' \in [Msg -> 0 .. MaxHops]
  BY <1>4 DEF Inv, ThreadInv
<1> QED BY <1>1, <1>2, <1>4, <1>6, <1>7, LetGo

(* lwkt_forwardmsg().                                                      *)
LEMMA StepForward ==
  ASSUME Inv, NEW s \in Server, NEW s2 \in Server, lwkt_forwardmsg(s, s2)
  PROVE  Inv'
<1>1. PICK m : m = held[s]
  OBVIOUS
<1>2. m \in Msg
  BY <1>1, Threads DEF lwkt_forwardmsg, Inv, ThreadInv
<1>3. PICK g \in Cpu : g = td_gd[s]
  BY Threads, Typed
<1>4. PICK f : f = ms_flags[m]
  OBVIOUS
<1>5. /\ Running(s) /\ lwkt_thread_putport(g, s2, m, f) /\ hops[m] < MaxHops
      /\ held' = [held EXCEPT ![s] = NULL] /\ hops' = [hops EXCEPT ![m] = hops[m] + 1]
      /\ UNCHANGED <<portVars, waiting, placeVars, pc, sentabort, asleep>>
  BY <1>1, <1>3, <1>4 DEF lwkt_forwardmsg
<1>6. /\ Worked(m, s)
      /\ \A u \in Server : held'[u] # m
      /\ \A u \in Server, x \in Msg : x # m => (held'[u] = x <=> held[u] = x)
  BY <1>1, <1>2, <1>5, HandedOn
<1>7. /\ f \in SUBSET Flag /\ f \cap {"DONE", "QUEUED", "INTRANSIT", "REPLY"} = {}
      /\ OnlyOn(m, {}) /\ OnlyIn(m, {}) /\ OnlyAt(m, {})
  <2>1. f \in SUBSET Flag
    BY <1>2, <1>4 DEF Inv, PlaceInv
  <2>2. /\ OnlyOn(m, {}) /\ OnlyIn(m, {}) /\ OnlyAt(m, {})
        /\ Is(m, {}) /\ "REPLY" \notin f
    BY <1>4, <1>6 DEF Worked
  <2> QED BY <1>4, <2>1, <2>2 DEF Is
<1>10. work[g] = NULL
  BY <1>3, <1>5 DEF Running, OnCpu
<1>8. PortInv' /\ PlaceInv' /\ AllCalm /\ WorkGoesOn
  BY <1>2, <1>5, <1>6, <1>7, <1>10, PutportPlaced
<1>9. hops' \in [Msg -> 0 .. MaxHops]
  BY <1>2, <1>5, MsgportAssumption DEF Inv, ThreadInv
<1> QED BY <1>1, <1>2, <1>5, <1>8, <1>9, LetGo

(* lwkt_thread_dropmsg() brings a dropable message home.                   *)
LEMMA StepDrop ==
  ASSUME Inv, NEW s \in Server, NEW m \in Msg, lwkt_thread_dropmsg(s, m)
  PROVE  Inv'
<1>1. s \in Thread /\ s \notin Client
  BY Threads
<1>2. PICK f : f = (ms_flags[m] \ {"QUEUED"}) \cup {"DONE"}
  OBVIOUS
<1>3. /\ _lwkt_pullmsg(s, m) /\ SetFlags(m, f) /\ m \in Dropable
      /\ UNCHANGED <<hops, waiting, threadVars, asleep, ipis, work>>
  BY <1>2 DEF lwkt_thread_dropmsg
<1>4. On(s, m)
  <2>1. msgq[s] \in Seq(Msg) /\ msgq_prio[s] \in Seq(Msg)
    BY <1>1 DEF Inv, PortInv
  <2>2. PICK a \in Seq(Msg) : a = msgq[s]
    BY <2>1
  <2>3. PICK b \in Seq(Msg) : b = msgq_prio[s]
    BY <2>1
  <2>4. PICK i \in 1 .. Len(a \o b) : (a \o b)[i] = m
    BY <2>2, <2>3 DEF lwkt_thread_dropmsg
  <2>5. Len(a \o b) = Len(a) + Len(b) /\ Len(a) \in Nat /\ Len(b) \in Nat
    BY ConcatProperties
  <2>6. (a \o b)[i] = IF i <= Len(a) THEN a[i] ELSE b[i - Len(a)]
    BY <2>5, ConcatProperties
  <2>7. CASE i <= Len(a)
    <3>1. i \in 1 .. Len(a) /\ a[i] = m
      BY <2>4, <2>5, <2>6, <2>7
    <3> QED BY <2>2, <3>1 DEF On, In
  <2>8. CASE i > Len(a)
    <3>1. i - Len(a) \in 1 .. Len(b) /\ b[i - Len(a)] = m
      BY <2>4, <2>5, <2>6, <2>8
    <3> QED BY <2>3, <3>1 DEF On, In
  <2> QED BY <2>5, <2>7, <2>8
<1>5. AtServer(m, s)
  BY <1>1, <1>4, FoundOnPort DEF Inv
<1>6. \A u \in Server : held[u] # m
  BY <1>5 DEF AtServer, OnlyWith
<1>7. f \in SUBSET Flag
  BY <1>2 DEF Inv, PlaceInv, Flag
<1>9. held' = held /\ ipis' = ipis /\ work' = work
  BY <1>3 DEF threadVars
<1>8. PortInv' /\ PlaceInv' /\ AllCalm
  BY <1>1, <1>2, <1>3, <1>4, <1>6, <1>7, <1>9, TakenPlaced
<1>10. WorkGoesOn
  BY <1>9 DEF WorkGoesOn
<1> QED BY <1>3, <1>8, <1>10, NoThread

-----------------------------------------------------------------------------
(* Migration.                                                              *)

(* lwkt_setcpu_self(): t is under way, and still counts as on its old cpu. *)
LEMMA StepLeave ==
  ASSUME Inv, NEW t \in Thread, NEW g \in Cpu, lwkt_setcpu_self(t, g)
  PROVE  Inv'
<1>1. /\ Running(t) /\ moves < MaxMoves /\ moves' = moves + 1
      /\ migrating' = [migrating EXCEPT ![t] = g]
      /\ UNCHANGED <<ms_flags, hops, portVars, waiting, td_gd, raced, pc, held, sentabort,
                     asleep, ipis, work>>
  BY DEF lwkt_setcpu_self
<1>2. PortInv' /\ PlaceInv' /\ AllCalm
  BY <1>1, Quiet
<1>3. ThreadInv'
  BY <1>1 DEF Inv, ThreadInv, ThreadOK
<1>4. CpuInv'
  <2>1. moves' \in 0 .. MaxMoves
    BY <1>1, MsgportAssumption DEF Inv, CpuInv
  <2>2. /\ migrating' \in [Thread -> Cpu \cup {NULL}]
        /\ \A u \in Thread : u # t => migrating'[u] = migrating[u]
    BY <1>1 DEF Inv, CpuInv
  <2>3. \A u \in Thread : migrating'[u] # NULL => pc'[u] = "run"
    BY <1>1, <2>2 DEF Inv, CpuInv, Running
  <2>4. \A h \in Cpu : CpuOK(h)'
    BY <1>1 DEF Inv, CpuInv, CpuOK
  <2> QED BY <1>1, <2>1, <2>2, <2>3, <2>4 DEF Inv, CpuInv
<1>5. \A u \in Thread : Nothing(u) => Nothing(u)'
  BY <1>1, <1>2, NothingKept DEF AllCalm, Inv
<1>6. ASSUME ~raced' PROVE (\A u \in Thread : SleepOK(u)') /\ \A h \in Cpu : AboutOK(h)'
  <2>1. (\A u \in Thread : SleepOK(u)) /\ \A h \in Cpu : AboutOK(h)
    BY <1>1, <1>6 DEF Inv, SleepInv
  <2>2. \A u \in Thread : Due(u) => Due(u)'
    BY <1>1 DEF Due
  <2>3. \A u \in Thread : SleepOK(u)'
    BY <1>1, <1>5, <2>1, <2>2 DEF SleepOK
  <2>4. ASSUME NEW h \in Cpu, work[h] # NULL PROVE AboutOK(h)'
    <3>1. work[h].port \in Thread
      BY <2>4, WorkTyped DEF Inv
    <3> QED BY <1>1, <1>5, <2>1, <2>4, <3>1 DEF AboutOK
  <2>5. ASSUME NEW h \in Cpu, work[h] = NULL PROVE AboutOK(h)'
    BY <1>1, <2>5 DEF AboutOK
  <2> QED BY <2>3, <2>4, <2>5
<1> QED BY <1>2, <1>3, <1>4, <1>6 DEF Inv, SleepInv

(* lwkt_setcpu_remote(): unless its old cpu is at work on its port, nobody *)
(* is.                                                                     *)
LEMMA StepArrive ==
  ASSUME Inv, NEW t \in Thread, lwkt_setcpu_remote(t)
  PROVE  Inv'
<1>1. /\ migrating[t] # NULL
      /\ td_gd' = [td_gd EXCEPT ![t] = migrating[t]]
      /\ migrating' = [migrating EXCEPT ![t] = NULL]
      /\ raced' = (raced \/ \E g \in Cpu : work[g] # NULL /\ work[g].port = t)
      /\ UNCHANGED <<ms_flags, hops, portVars, waiting, moves, pc, held, sentabort,
                     asleep, ipis, work>>
  BY DEF lwkt_setcpu_remote
<1>2. PortInv' /\ PlaceInv' /\ AllCalm
  BY <1>1, Quiet
<1>3. ThreadInv'
  BY <1>1 DEF Inv, ThreadInv, ThreadOK
<1>4. pc[t] = "run" /\ ~asleep[t]
  BY <1>1 DEF Inv, CpuInv, ThreadInv, ThreadOK
<1>5. /\ td_gd' \in [Thread -> Cpu] /\ migrating' \in [Thread -> Cpu \cup {NULL}]
      /\ \A u \in Thread : u # t => td_gd'[u] = td_gd[u] /\ migrating'[u] = migrating[u]
      /\ migrating'[t] = NULL
  BY <1>1 DEF Inv, CpuInv
<1>6. ASSUME NEW h \in Cpu PROVE CpuOK(h)'
  <2>1. CpuOK(h)
    BY DEF Inv, CpuInv
  <2>2. CASE work[h] = NULL
    BY <1>1, <2>2 DEF CpuOK
  <2>3. CASE work[h] # NULL
    <3>1. work[h].port \in Thread
      BY <2>3, WorkTyped DEF Inv
    <3> QED BY <1>1, <1>4, <1>5, <2>1, <3>1 DEF CpuOK
  <2> QED BY <2>2, <2>3
<1>7. \A u \in Thread : migrating'[u] # NULL => pc'[u] = "run"
  BY <1>1, <1>5 DEF Inv, CpuInv
<1>8. raced' \in BOOLEAN
  BY <1>1 DEF Inv, CpuInv
<1>9. CpuInv'
  BY <1>1, <1>5, <1>6, <1>7, <1>8 DEF Inv, CpuInv
<1>10. \A u \in Thread : Nothing(u) => Nothing(u)'
  BY <1>1, <1>2, NothingKept DEF AllCalm, Inv
<1>11. ASSUME ~raced' PROVE (\A u \in Thread : SleepOK(u)') /\ \A h \in Cpu : AboutOK(h)'
  <2>0. ~raced /\ \A h \in Cpu : work[h] # NULL => work[h].port # t
    BY <1>1, <1>11 DEF Inv, CpuInv
  <2>1. (\A u \in Thread : SleepOK(u)) /\ \A h \in Cpu : AboutOK(h)
    BY <2>0 DEF Inv, SleepInv
  <2>2. \A u \in Thread : u # t /\ Due(u) => Due(u)'
    BY <1>1, <1>5 DEF Due
  <2>3. ASSUME NEW u \in Thread PROVE SleepOK(u)'
    <3>1. CASE u = t
      BY <1>1, <1>4, <3>1 DEF SleepOK
    <3>2. CASE u # t
      BY <1>1, <1>10, <2>1, <2>2, <3>2 DEF SleepOK
    <3> QED BY <3>1, <3>2
  <2>4. ASSUME NEW h \in Cpu, work[h] # NULL PROVE AboutOK(h)'
    <3>1. work[h].port \in Thread /\ work[h].port # t
      BY <2>0, <2>4, WorkTyped DEF Inv
    <3>2. td_gd'[work[h].port] = td_gd[work[h].port]
      BY <1>5, <3>1
    <3> QED BY <1>1, <1>10, <2>1, <2>4, <3>1, <3>2 DEF AboutOK
  <2>5. ASSUME NEW h \in Cpu, work[h] = NULL PROVE AboutOK(h)'
    BY <1>1, <2>5 DEF AboutOK
  <2> QED BY <2>3, <2>4, <2>5
<1> QED BY <1>2, <1>3, <1>9, <1>11 DEF Inv, SleepInv

-----------------------------------------------------------------------------
(* The steps of cpus.                                                      *)

(* What cpu g is about to queue.                                           *)
LEMMA AtHand ==
  ASSUME Inv, NEW g \in Cpu, work[g] # NULL, work[g].fn \in {"put", "reply"}
  PROVE  work[g].msg \in Msg /\ InHands(work[g].msg, g) /\ work[g].port \in Thread
<1>1. work[g].msg \in Msg /\ work[g].port \in Thread
  BY WorkTyped DEF Inv, CpuInv, CpuOK
<1>2. PICK m \in Msg : m = work[g].msg
  BY <1>1
<1>3. InHands(m, g)
  BY <1>2, FoundElsewhere DEF Inv, Has
<1> QED BY <1>1, <1>2, <1>3

(* m has left cpu g, and is on the port of t or back with its client.      *)
LEMMA PushPlaced ==
  ASSUME Inv, NEW g \in Cpu, work[g] # NULL, work[g].fn \in {"put", "reply"}, Push(g)
  PROVE  /\ PortInv' /\ PlaceInv'
         /\ \A u \in Thread : u # work[g].port => Calm(u)
<1>1. PICK m \in Msg : m = work[g].msg
  BY AtHand
<1>2. PICK t \in Thread : t = work[g].port
  BY AtHand
<1>3. InHands(m, g)
  BY <1>1, AtHand
<1>4. PICK f : f = ms_flags[m]
  OBVIOUS
<1>5. /\ f \in SUBSET Flag /\ f \cap {"DONE", "QUEUED", "INTRANSIT"} = {}
      /\ OnlyOn(m, {}) /\ OnlyIn(m, {}) /\ OnlyWith(m, {}) /\ OnlyAt(m, {g})
  BY <1>3, <1>4 DEF InHands, Is, Inv, PlaceInv
<1>6. Begin(g, "look", NULL, t) /\ UNCHANGED <<threadVars, ipis>>
  BY <1>2 DEF Push
<1>7. /\ work' \in [Cpu -> Work \cup {NULL}]
      /\ work'[g] # NULL /\ work'[g].msg = NULL
      /\ \A h \in Cpu : h # g => work'[h] = work[h]
  <2>1. PICK fn \in {"put", "reply", "look", "sleep"} : fn = "look"
    OBVIOUS
  <2>2. PICK n \in Msg \cup {NULL} : n = NULL
    OBVIOUS
  <2>3. Begin(g, fn, n, t)
    BY <1>6, <2>1, <2>2
  <2> QED BY <2>2, <2>3, Begun DEF Inv
<1>8. OnlyWork(m)
  BY <1>1, <1>7, Threads DEF OnlyWork, Has
<1>9. OnlyIn(m, {})' /\ OnlyWith(m, {})'
  BY <1>5, <1>6 DEF OnlyIn, OnlyWith, threadVars
<1>10. OnlyAt(m, {})'
  BY <1>5, <1>7, Threads DEF OnlyAt, Has
<1>11. ~On(t, m)
  BY <1>5 DEF OnlyOn
<1>12. ipis' \subseteq Ipi /\ ipis' = ipis /\ held' = held
  BY <1>6 DEF Inv, PlaceInv, threadVars
<1>13. ASSUME NEW h \in SUBSET Flag, SetFlags(m, h), PortInv', Somewhere(m)',
              \A u \in Thread, x \in Msg : x # m => (On(u, x)' <=> On(u, x)),
              \A u \in Thread : u # t => ~On(u, m)',
              "DONE" \in h => t = Owner[m]
       PROVE  PortInv' /\ PlaceInv' /\ \A u \in Thread : u # t => Calm(u)
  <2>1. /\ ms_flags' \in [Msg -> SUBSET Flag]
        /\ ms_flags'[m] = h
        /\ \A x \in Msg : x # m => ms_flags'[x] = ms_flags[x]
    BY <1>13, FlagsSet DEF Inv
  <2>2. \A x \in Msg : x # m =>
          /\ ms_flags'[x] = ms_flags[x]
          /\ \A u \in Thread : On(u, x)' <=> On(u, x)
          /\ \A i : i.msg = x => (i \in ipis' <=> i \in ipis)
          /\ \A u \in Server : held'[u] = x <=> held[u] = x
    BY <1>12, <1>13, <2>1
  <2>3. PlaceInv'
    BY <1>7, <1>8, <1>12, <1>13, <2>1, <2>2, OthersStay DEF Inv
  <2>4. ASSUME NEW u \in Thread, u # t, NEW x \in Msg
        PROVE  /\ On(u, x)' => On(u, x)
               /\ "DONE" \in ms_flags'[x] => "DONE" \in ms_flags[x] \/ Owner[x] # u
    BY <1>13, <2>1, <2>4
  <2> QED BY <1>13, <2>3, <2>4 DEF Calm
<1>14. CASE work[g].fn = "put"
  <2>1. t \in Server /\ "REPLY" \notin f
    BY <1>2, <1>3, <1>4, <1>14 DEF InHands
  <2>2. PICK h : h = f \cup {"QUEUED"}
    OBVIOUS
  <2>3. h \in SUBSET Flag /\ "DONE" \notin h /\ h \cap {"DONE", "QUEUED", "INTRANSIT"} = {"QUEUED"}
        /\ "REPLY" \notin h
    BY <1>5, <2>1, <2>2 DEF Flag
  <2>4. SetFlags(m, h) /\ _lwkt_pushmsg(t, m)
    BY <1>1, <1>2, <1>4, <1>14, <2>2 DEF Push, Enqueue
  <2>5. PortInv' /\ \A u \in Thread, x \in Msg : On(u, x)' <=> On(u, x) \/ (u = t /\ x = m)
    BY <1>11, <2>4, Pushed DEF Inv
  <2>6. ms_flags'[m] = h
    BY <2>3, <2>4, FlagsSet DEF Inv
  <2>7. AtServer(m, t)'
    <3>1. Is(m, {"QUEUED"})' /\ "REPLY" \notin ms_flags'[m]
      BY <2>3, <2>6 DEF Is
    <3>2. OnlyOn(m, {t})'
      BY <1>5, <2>5 DEF OnlyOn
    <3> QED BY <1>9, <1>10, <3>1, <3>2 DEF AtServer
  <2>8. Somewhere(m)'
    BY <2>1, <2>7 DEF Somewhere
  <2>9. \A u \in Thread : u # t => ~On(u, m)'
    BY <1>5, <2>5 DEF OnlyOn
  <2> QED BY <1>2, <1>13, <2>3, <2>4, <2>5, <2>8, <2>9
<1>15. CASE work[g].fn = "reply"
  <2>1. t = Owner[m]
    BY <1>2, <1>3, <1>15 DEF InHands
  <2>2. CASE "SYNC" \in f
    <3>1. PICK h : h = f \cup {"DONE", "REPLY"}
      OBVIOUS
    <3>2. h \in SUBSET Flag /\ h \cap {"DONE", "QUEUED", "INTRANSIT"} = {"DONE"}
      BY <1>5, <3>1 DEF Flag
    <3>3. SetFlags(m, h) /\ UNCHANGED portVars
      BY <1>1, <1>4, <1>15, <2>2, <3>1 DEF Push
    <3>4. PortInv' /\ \A u \in Thread, x \in Msg : On(u, x)' <=> On(u, x)
      BY <3>3, PortsKept DEF Inv
    <3>5. ms_flags'[m] = h
      BY <3>2, <3>3, FlagsSet DEF Inv
    <3>6. Is(m, {"DONE"})' /\ OnlyOn(m, {})'
      BY <1>5, <3>2, <3>4, <3>5 DEF Is, OnlyOn
    <3>7. Somewhere(m)'
      BY <1>9, <1>10, <3>6 DEF Home, Somewhere
    <3>8. \A u \in Thread : u # t => ~On(u, m)'
      BY <1>5, <3>4 DEF OnlyOn
    <3> QED BY <1>2, <1>13, <2>1, <3>2, <3>3, <3>4, <3>7, <3>8
  <2>3. CASE "SYNC" \notin f
    <3>1. PICK h : h = (f \cup {"DONE", "REPLY"}) \cup {"QUEUED"}
      OBVIOUS
    <3>2. h \in SUBSET Flag /\ h \cap {"DONE", "QUEUED", "INTRANSIT"} = {"DONE", "QUEUED"}
      BY <1>5, <3>1 DEF Flag
    <3>3. SetFlags(m, h) /\ _lwkt_pushmsg(t, m)
      BY <1>1, <1>2, <1>4, <1>15, <2>3, <3>1 DEF Push, Enqueue
    <3>4. PortInv' /\ \A u \in Thread, x \in Msg : On(u, x)' <=> On(u, x) \/ (u = t /\ x = m)
      BY <1>11, <3>3, Pushed DEF Inv
    <3>5. ms_flags'[m] = h
      BY <3>2, <3>3, FlagsSet DEF Inv
    <3>6. Is(m, {"DONE", "QUEUED"})' /\ OnlyOn(m, {Owner[m]})'
      BY <1>5, <2>1, <3>2, <3>4, <3>5 DEF Is, OnlyOn
    <3>7. Somewhere(m)'
      BY <1>9, <1>10, <3>6 DEF AtClient, Somewhere
    <3>8. \A u \in Thread : u # t => ~On(u, m)'
      BY <1>5, <3>4 DEF OnlyOn
    <3> QED BY <1>2, <1>13, <2>1, <3>2, <3>3, <3>4, <3>7, <3>8
  <2> QED BY <2>2, <2>3
<1> QED BY <1>14, <1>15

(* Having queued it, the cpu looks after the thread.                       *)
LEMMA StepPush ==
  ASSUME Inv, NEW g \in Cpu, Push(g)
  PROVE  Inv'
<1>1. /\ work[g] # NULL /\ work[g].fn \in {"put", "reply"}
      /\ UNCHANGED <<hops, waiting, threadVars, asleep>>
      /\ Begin(g, "look", NULL, work[g].port)
  BY DEF Push
<1>2. PICK t \in Thread : t = work[g].port
  BY <1>1, AtHand
<1>3. PortInv' /\ PlaceInv' /\ \A u \in Thread : u # t => Calm(u)
  BY <1>1, <1>2, PushPlaced
<1>4. /\ work'[g] # NULL /\ work'[g].fn = "look" /\ work'[g].port = t
      /\ \A h \in Cpu : h # g => work'[h] = work[h]
  <2>1. PICK fn \in {"put", "reply", "look", "sleep"} : fn = "look"
    OBVIOUS
  <2>2. PICK n \in Msg \cup {NULL} : n = NULL
    OBVIOUS
  <2>3. Begin(g, fn, n, t)
    BY <1>1, <1>2, <2>1, <2>2
  <2> QED BY <2>1, <2>3, Begun DEF Inv
<1>5. td_gd' = td_gd /\ migrating' = migrating /\ moves' = moves /\ raced' = raced
      /\ pc' = pc /\ held' = held /\ sentabort' = sentabort
  BY <1>1 DEF threadVars, placeVars
<1>6. ThreadInv'
  BY <1>1, <1>5 DEF Inv, ThreadInv, ThreadOK
<1>7. ASSUME NEW h \in Cpu PROVE CpuOK(h)'
  <2>1. CASE h = g
    BY <1>4, <2>1 DEF CpuOK
  <2>2. CASE h # g
    BY <1>4, <1>5, <2>2 DEF Inv, CpuInv, CpuOK
  <2> QED BY <2>1, <2>2
<1>8. CpuInv'
  BY <1>5, <1>7 DEF Inv, CpuInv
<1>9. \A u \in Thread : u # t /\ Nothing(u) => Nothing(u)'
  BY <1>3, <1>5, NothingKept DEF Inv
<1>10. ASSUME ~raced' PROVE (\A u \in Thread : SleepOK(u)') /\ \A h \in Cpu : AboutOK(h)'
  <2>1. (\A u \in Thread : SleepOK(u)) /\ \A h \in Cpu : AboutOK(h)
    BY <1>5, <1>10 DEF Inv, SleepInv
  <2>2. td_gd[t] = g
    BY <1>1, <1>2, <2>1 DEF AboutOK
  <2>3. ASSUME NEW u \in Thread PROVE SleepOK(u)'
    <3>1. CASE u = t
      <4>1. Due(t)'
        BY <1>4, <1>5, <2>2 DEF Due
      <4> QED BY <1>1, <2>1, <3>1, <4>1 DEF SleepOK
    <3>2. CASE u # t
      <4>1. Due(u) => Due(u)'
        <5>1. td_gd[u] \in Cpu
          BY Typed
        <5>2. Due(u) => td_gd[u] # g
          BY <1>1 DEF Due
        <5> QED BY <1>4, <1>5, <5>1, <5>2 DEF Due
      <4> QED BY <1>1, <1>9, <2>1, <3>2, <4>1 DEF SleepOK
    <3> QED BY <3>1, <3>2
  <2>4. ASSUME NEW h \in Cpu PROVE AboutOK(h)'
    <3>1. CASE h = g
      BY <1>4, <1>5, <2>2, <3>1 DEF AboutOK
    <3>2. CASE h # g /\ work[h] # NULL
      <4>1. work[h].port \in Thread /\ td_gd[work[h].port] = h
        BY <2>1, <3>2, WorkTyped DEF AboutOK, Inv
      <4>2. work[h].port # t
        BY <2>2, <3>2, <4>1
      <4> QED BY <1>4, <1>5, <1>9, <2>1, <3>2, <4>1, <4>2 DEF AboutOK
    <3>3. CASE h # g /\ work[h] = NULL
      BY <1>4, <3>3 DEF AboutOK
    <3> QED BY <3>1, <3>2, <3>3
  <2> QED BY <2>3, <2>4
<1> QED BY <1>3, <1>6, <1>8, <1>10 DEF Inv, SleepInv

(* A cpu is done with what it did, which was not about a message.          *)
LEMMA Finished ==
  ASSUME Inv, NEW g \in Cpu, work[g] # NULL, work[g].fn \in {"look", "sleep"},
         work' = [work EXCEPT ![g] = NULL],
         UNCHANGED <<ms_flags, portVars, ipis, threadVars>>
  PROVE  /\ PortInv' /\ PlaceInv' /\ AllCalm /\ CpuInv'
         /\ work'[g] = NULL /\ \A h \in Cpu : h # g => work'[h] = work[h]
<1>1. /\ work' \in [Cpu -> Work \cup {NULL}] /\ work'[g] = NULL
      /\ \A h \in Cpu : h # g => work'[h] = work[h]
  BY DEF Inv, PlaceInv
<1>2. ASSUME NEW x \in Msg PROVE ~Has(g, x) /\ ~Has(g, x)'
  <2>1. ~InHands(x, g)
    BY DEF InHands
  <2> QED BY <1>1, <2>1, FoundElsewhere DEF Has, Inv
<1>3. /\ held' = held /\ pc' = pc /\ td_gd' = td_gd /\ migrating' = migrating
      /\ moves' = moves /\ raced' = raced
  BY DEF threadVars, placeVars
<1>4. PortInv' /\ PlaceInv' /\ AllCalm
  BY <1>1, <1>2, <1>3, NothingMoves
<1>5. \A h \in Cpu : CpuOK(h)'
  BY <1>1, <1>3 DEF Inv, CpuInv, CpuOK
<1>6. CpuInv'
  BY <1>3, <1>5 DEF Inv, CpuInv
<1> QED BY <1>1, <1>4, <1>6

(* The thread is scheduled if it waits.                                    *)
LEMMA StepLook ==
  ASSUME Inv, NEW g \in Cpu, Look(g)
  PROVE  Inv'
<1>1. /\ work[g] # NULL /\ work[g].fn = "look" /\ _lwkt_schedule_msg(work[g].port)
      /\ work' = [work EXCEPT ![g] = NULL]
      /\ UNCHANGED <<ms_flags, hops, portVars, waiting, threadVars, ipis>>
  BY DEF Look
<1>2. /\ PortInv' /\ PlaceInv' /\ AllCalm /\ CpuInv'
      /\ work'[g] = NULL /\ \A h \in Cpu : h # g => work'[h] = work[h]
  BY <1>1, Finished
<1>3. PICK t \in Thread : t = work[g].port
  BY <1>1, WorkTyped DEF Inv
<1>4. /\ asleep' \in [Thread -> BOOLEAN] /\ (asleep'[t] => asleep[t] /\ ~waiting[t])
      /\ \A u \in Thread : u # t => asleep'[u] = asleep[u]
  BY <1>1, <1>3 DEF _lwkt_schedule_msg, Inv, ThreadInv
<1>5. /\ td_gd' = td_gd /\ raced' = raced /\ pc' = pc /\ held' = held
      /\ sentabort' = sentabort /\ waiting' = waiting /\ hops' = hops
  BY <1>1 DEF threadVars, placeVars
<1>6. ThreadInv'
  BY <1>4, <1>5 DEF Inv, ThreadInv, ThreadOK
<1>7. \A u \in Thread : Nothing(u) => Nothing(u)'
  BY <1>2, <1>5, NothingKept DEF AllCalm, Inv
<1>8. ASSUME ~raced' PROVE (\A u \in Thread : SleepOK(u)') /\ \A h \in Cpu : AboutOK(h)'
  <2>1. (\A u \in Thread : SleepOK(u)) /\ \A h \in Cpu : AboutOK(h)
    BY <1>5, <1>8 DEF Inv, SleepInv
  <2>2. ASSUME NEW u \in Thread PROVE SleepOK(u)'
    <3>1. CASE u = t
      BY <1>4, <2>1, <3>1 DEF SleepOK
    <3>2. CASE u # t
      <4>1. Due(u) => Due(u)'
        <5>1. td_gd[u] \in Cpu
          BY Typed
        <5>2. Due(u) => td_gd[u] # g
          BY <1>3, <3>2 DEF Due
        <5> QED BY <1>2, <1>5, <5>1, <5>2 DEF Due
      <4> QED BY <1>4, <1>5, <1>7, <2>1, <3>2, <4>1 DEF SleepOK
    <3> QED BY <3>1, <3>2
  <2>3. ASSUME NEW h \in Cpu PROVE AboutOK(h)'
    <3>1. CASE h = g \/ work[h] = NULL
      BY <1>2, <3>1 DEF AboutOK
    <3>2. CASE h # g /\ work[h] # NULL
      <4>1. work[h].port \in Thread
        BY <3>2, WorkTyped DEF Inv
      <4> QED BY <1>2, <1>5, <1>7, <2>1, <3>2, <4>1 DEF AboutOK
    <3> QED BY <3>1, <3>2
  <2> QED BY <2>2, <2>3
<1> QED BY <1>2, <1>6, <1>8 DEF Inv, SleepInv

(* A thread goes to sleep on what it has not got.                          *)
LEMMA StepSleep ==
  ASSUME Inv, NEW g \in Cpu, Sleep(g)
  PROVE  Inv'
<1>1. /\ work[g] # NULL /\ work[g].fn = "sleep"
      /\ work' = [work EXCEPT ![g] = NULL]
      /\ UNCHANGED <<ms_flags, hops, portVars, threadVars, ipis>>
  BY DEF Sleep
<1>2. /\ PortInv' /\ PlaceInv' /\ AllCalm /\ CpuInv'
      /\ work'[g] = NULL /\ \A h \in Cpu : h # g => work'[h] = work[h]
  BY <1>1, Finished
<1>3. PICK t \in Thread : t = work[g].port
  BY <1>1, WorkTyped DEF Inv
<1>4. /\ waiting' = [waiting EXCEPT ![t] = TRUE] /\ asleep' = [asleep EXCEPT ![t] = TRUE]
      /\ waiting \in [Thread -> BOOLEAN] /\ asleep \in [Thread -> BOOLEAN]
  BY <1>3 DEF Sleep, Inv, ThreadInv
<1>5. /\ waiting' \in [Thread -> BOOLEAN] /\ asleep' \in [Thread -> BOOLEAN]
      /\ waiting'[t] /\ asleep'[t]
      /\ \A u \in Thread : u # t => waiting'[u] = waiting[u] /\ asleep'[u] = asleep[u]
  BY <1>4
<1>6. /\ td_gd' = td_gd /\ raced' = raced /\ pc' = pc /\ held' = held
      /\ sentabort' = sentabort /\ hops' = hops
  BY <1>1 DEF threadVars, placeVars
<1>7. td_gd[t] = g /\ pc[t] # "run"
  BY <1>1, <1>3 DEF Inv, CpuInv, CpuOK
<1>8. ASSUME NEW u \in Thread PROVE ThreadOK(u)'
  <2>1. ThreadOK(u)
    BY DEF Inv, ThreadInv
  <2>2. CASE u = t
    BY <1>6, <1>7, <2>1, <2>2 DEF ThreadOK
  <2>3. CASE u # t
    BY <1>5, <1>6, <2>1, <2>3 DEF ThreadOK
  <2> QED BY <2>2, <2>3
<1>9. ThreadInv'
  BY <1>5, <1>6, <1>8 DEF Inv, ThreadInv
<1>10. \A u \in Thread : Nothing(u) => Nothing(u)'
  BY <1>2, <1>6, NothingKept DEF AllCalm, Inv
<1>11. ASSUME ~raced' PROVE (\A u \in Thread : SleepOK(u)') /\ \A h \in Cpu : AboutOK(h)'
  <2>1. (\A u \in Thread : SleepOK(u)) /\ \A h \in Cpu : AboutOK(h)
    BY <1>6, <1>11 DEF Inv, SleepInv
  <2>2. ASSUME NEW u \in Thread PROVE SleepOK(u)'
    <3>1. CASE u = t
      <4>1. Nothing(t)
        BY <1>1, <1>3, <2>1 DEF AboutOK
      <4> QED BY <1>5, <1>10, <3>1, <4>1 DEF SleepOK
    <3>2. CASE u # t
      <4>1. Due(u) => Due(u)'
        <5>1. td_gd[u] \in Cpu
          BY Typed
        <5>2. Due(u) => td_gd[u] # g
          BY <1>1 DEF Due
        <5> QED BY <1>2, <1>6, <5>1, <5>2 DEF Due
      <4> QED BY <1>5, <1>6, <1>10, <2>1, <3>2, <4>1 DEF SleepOK
    <3> QED BY <3>1, <3>2
  <2>3. ASSUME NEW h \in Cpu PROVE AboutOK(h)'
    <3>1. CASE h = g \/ work[h] = NULL
      BY <1>2, <3>1 DEF AboutOK
    <3>2. CASE h # g /\ work[h] # NULL
      <4>1. work[h].port \in Thread
        BY <3>2, WorkTyped DEF Inv
      <4> QED BY <1>2, <1>6, <1>10, <2>1, <3>2, <4>1 DEF AboutOK
    <3> QED BY <3>1, <3>2
  <2> QED BY <2>2, <2>3
<1> QED BY <1>2, <1>9, <1>11 DEF Inv, SleepInv

-----------------------------------------------------------------------------
(* The theorems.                                                           *)

(* The invariant holds initially: all messages are at home.                *)
LEMMA InvInit == Init => Inv
<1> SUFFICES ASSUME Init PROVE Inv
  OBVIOUS
<1> USE DEF Init
<1>1. /\ msgq \in [Thread -> Seq(Msg)] /\ msgq_prio \in [Thread -> Seq(Msg)]
      /\ \A t \in Thread : msgq[t] = <<>> /\ msgq_prio[t] = <<>>
  OBVIOUS
<1>2. \A m : ~In(m, <<>>)
  BY DEF In
<1>3. \A t \in Thread, m \in Msg : ~On(t, m)
  BY <1>1, <1>2 DEF On
<1>4. PortInv
  BY <1>1, <1>2 DEF PortInv, PortOK, Distinct
<1>9. work \in [Cpu -> Work \cup {NULL}] /\ \A g \in Cpu : work[g] = NULL
  OBVIOUS
<1>5. ASSUME NEW m \in Msg PROVE Home(m)
  BY <1>3, <1>5, <1>9, Threads DEF Home, Is, OnlyOn, OnlyIn, OnlyWith, OnlyAt, Has
<1>6. PlaceInv
  BY <1>5, <1>9 DEF PlaceInv, Somewhere, Flag
<1>7. ThreadInv
  BY MsgportAssumption DEF ThreadInv, ThreadOK
<1>10. CpuInv
  <2>1. moves \in 0 .. MaxMoves
    BY MsgportAssumption
  <2>2. migrating \in [Thread -> Cpu \cup {NULL}] /\ \A t \in Thread : migrating[t] = NULL
    OBVIOUS
  <2>3. \A g \in Cpu : CpuOK(g)
    BY <1>9 DEF CpuOK
  <2>4. td_gd \in [Thread -> Cpu] /\ raced \in BOOLEAN
    OBVIOUS
  <2> HIDE DEF Init
  <2> QED BY <2>1, <2>2, <2>3, <2>4 DEF CpuInv
<1>8. SleepInv
  BY <1>9 DEF SleepInv, SleepOK, AboutOK
<1> QED BY <1>4, <1>6, <1>7, <1>8, <1>10 DEF Inv

(* Every step keeps it.                                                    *)
LEMMA InvStep == Inv /\ [Next]_vars => Inv'
<1> SUFFICES ASSUME Inv, [Next]_vars PROVE Inv'
  OBVIOUS
<1>1. CASE UNCHANGED vars
  <2>1. /\ UNCHANGED <<ms_flags, portVars, ipis, work>>
        /\ UNCHANGED <<hops, waiting, threadVars, asleep>>
    BY <1>1 DEF vars
  <2>2. \A s \in Server : held'[s] = held[s]
    BY <2>1 DEF threadVars
  <2>3. PortInv' /\ PlaceInv' /\ AllCalm /\ WorkGoesOn
    BY <2>1, <2>2, Quiet
  <2> QED BY <2>1, <2>3, NoThread
<1>2. CASE Next
  <2>1. ASSUME NEW i \in ipis, IpiRuns(i) PROVE Inv'
    BY <2>1, StepIpi
  <2>2. ASSUME NEW c \in Client,
               \/ \E m \in Msg, s \in Server : lwkt_sendmsg(c, m, s) \/ lwkt_domsg(c, m, s)
               \/ WaitBegins(c)
               \/ lwkt_thread_waitmsg(c)
        PROVE  Inv'
    BY <2>2, StepSend, StepWaitBegins, StepWaitmsg
  <2>3. ASSUME NEW s \in Server,
               \/ ServerWaits(s)
               \/ lwkt_replymsg(s)
               \/ \E s2 \in Server : lwkt_forwardmsg(s, s2)
               \/ \E m \in Msg : lwkt_thread_dropmsg(s, m)
        PROVE  Inv'
    BY <2>3, StepServerWaits, StepReply, StepForward, StepDrop
  <2>4. ASSUME NEW t \in Thread,
               \/ lwkt_thread_waitport(t) \/ lwkt_thread_getport(t)
               \/ Interrupt(t)
               \/ \E g \in Cpu : lwkt_setcpu_self(t, g)
               \/ lwkt_setcpu_remote(t)
        PROVE  Inv'
    BY <2>4, StepWaitport, StepInterrupt, StepLeave, StepArrive
  <2>5. ASSUME NEW g \in Cpu, Push(g) \/ Look(g) \/ Sleep(g) PROVE Inv'
    BY <2>5, StepPush, StepLook, StepSleep
  <2> QED BY <1>2, <2>1, <2>2, <2>3, <2>4, <2>5 DEF Next
<1> QED BY <1>1, <1>2

(* The same of the two queues of a port.                                   *)
LEMMA OnPortOnce ==
  ASSUME Inv, NEW t \in Thread, NEW m \in Msg
  PROVE  OnPort(t, m) = IF On(t, m) THEN 1 ELSE 0
<1>1. PortOK(t)
  BY DEF Inv, PortInv
<1>2. /\ Count(msgq[t], m) = IF In(m, msgq[t]) THEN 1 ELSE 0
      /\ Count(msgq_prio[t], m) = IF In(m, msgq_prio[t]) THEN 1 ELSE 0
  BY <1>1, CountOnce DEF PortOK
<1>3. ~(In(m, msgq[t]) /\ In(m, msgq_prio[t]))
  BY <1>1 DEF PortOK
<1> QED BY <1>2, <1>3 DEF OnPort, On

(* What Custody says of one message.                                       *)
Custodian(m) ==
  LET f == ms_flags[m]
      ports == {t \in Thread : OnPort(t, m) > 0}
  IN
  /\ InIpi(m) = IF "INTRANSIT" \in f THEN 1 ELSE 0
  /\ Cardinality(ports) = IF "QUEUED" \in f THEN 1 ELSE 0
  /\ \A t \in ports :
       /\ OnPort(t, m) = 1
       /\ "DONE" \in f <=> t = Owner[m]
  /\ WithServer(m) + InHand(m)
       = IF f \cap {"DONE", "QUEUED", "INTRANSIT"} = {} THEN 1 ELSE 0
  /\ WithServer(m) = 1 => "REPLY" \notin f

(* The counts of Custody say in which of its places a message is.          *)
LEMMA CustodyOf ==
  ASSUME Inv
  PROVE  Custody
<1> SUFFICES ASSUME NEW m \in Msg PROVE Custodian(m)
  BY DEF Custody, Custodian
<1> DEFINE f == ms_flags[m]
           ports == {t \in Thread : OnPort(t, m) > 0}
           inipi == {i \in ipis : i.msg = m}
           with == {s \in Server : held[s] = m}
           hands == {g \in Cpu : work[g] # NULL /\ work[g].msg = m}
<1>1. ports = {t \in Thread : On(t, m)} /\ \A t \in ports : OnPort(t, m) = 1
  BY OnPortOnce
<1>2. ASSUME NEW S, S \subseteq Thread, OnlyOn(m, S) PROVE ports = S
  BY <1>1, <1>2 DEF OnlyOn
<1>3. ASSUME NEW S, S \subseteq Server, OnlyWith(m, S) PROVE with = S
  BY <1>3 DEF OnlyWith
<1>15. ASSUME NEW G, G \subseteq Cpu, OnlyAt(m, G) PROVE hands = G
  BY <1>15 DEF OnlyAt, Has
<1>4. OnlyIn(m, {}) => inipi = {}
  BY DEF OnlyIn
<1>5. \A x : Cardinality({x}) = 1
  BY FS_Singleton
<1>6. Cardinality({}) = 0
  BY FS_EmptySet
<1>7. InIpi(m) = Cardinality(inipi) /\ WithServer(m) = Cardinality(with)
      /\ InHand(m) = Cardinality(hands)
  BY DEF InIpi, WithServer, InHand
<1>8. Somewhere(m)
  BY DEF Inv, PlaceInv
<1>9. {} \subseteq Thread /\ {} \subseteq Server /\ {} \subseteq Cpu
  OBVIOUS
<1>10. CASE Home(m)
  <2>1. ports = {} /\ inipi = {} /\ with = {} /\ hands = {}
    <3>1. OnlyOn(m, {}) /\ OnlyIn(m, {}) /\ OnlyWith(m, {}) /\ OnlyAt(m, {})
      BY <1>10 DEF Home
    <3> HIDE DEF ports, with, inipi, hands
    <3> QED BY <3>1, <1>2, <1>3, <1>4, <1>9, <1>15
  <2>2. "DONE" \in f /\ "QUEUED" \notin f /\ "INTRANSIT" \notin f
    BY <1>10 DEF Home, Is
  <2> HIDE DEF f, ports, inipi, with, hands
  <2>3. InIpi(m) = 0 /\ Cardinality(ports) = 0 /\ WithServer(m) = 0 /\ InHand(m) = 0
    BY <2>1, <1>6, <1>7
  <2> QED BY <2>1, <2>2, <2>3 DEF f, ports, Custodian
<1>11. CASE AtClient(m)
  <2>1. ports = {Owner[m]} /\ inipi = {} /\ with = {} /\ hands = {}
    <3>1. OnlyOn(m, {Owner[m]}) /\ OnlyIn(m, {}) /\ OnlyWith(m, {}) /\ OnlyAt(m, {})
      BY <1>11 DEF AtClient
    <3>2. {Owner[m]} \subseteq Thread
      BY Threads
    <3> HIDE DEF ports, with, inipi, hands
    <3> QED BY <3>1, <3>2, <1>2, <1>3, <1>4, <1>9, <1>15
  <2>2. "DONE" \in f /\ "QUEUED" \in f /\ "INTRANSIT" \notin f
    BY <1>11 DEF AtClient, Is
  <2> HIDE DEF f, ports, inipi, with, hands
  <2>3. InIpi(m) = 0 /\ Cardinality(ports) = 1 /\ WithServer(m) = 0 /\ InHand(m) = 0
    BY <2>1, <1>5, <1>6, <1>7
  <2>4. \A t \in ports : OnPort(t, m) = 1 /\ t = Owner[m]
    BY <1>1, <2>1
  <2> QED BY <2>2, <2>3, <2>4 DEF f, ports, Custodian
<1>12. ASSUME NEW s \in Server, AtServer(m, s) PROVE Custodian(m)
  <2>1. ports = {s} /\ inipi = {} /\ with = {} /\ hands = {}
    <3>1. OnlyOn(m, {s}) /\ OnlyIn(m, {}) /\ OnlyWith(m, {}) /\ OnlyAt(m, {})
      BY <1>12 DEF AtServer
    <3>2. {s} \subseteq Thread
      BY Threads
    <3> HIDE DEF ports, with, inipi, hands
    <3> QED BY <3>1, <3>2, <1>2, <1>3, <1>4, <1>9, <1>15
  <2>2. "DONE" \notin f /\ "QUEUED" \in f /\ "INTRANSIT" \notin f
    BY <1>12 DEF AtServer, Is
  <2> HIDE DEF f, ports, inipi, with, hands
  <2>3. InIpi(m) = 0 /\ Cardinality(ports) = 1 /\ WithServer(m) = 0 /\ InHand(m) = 0
    BY <2>1, <1>5, <1>6, <1>7
  <2>4. \A t \in ports : OnPort(t, m) = 1 /\ t # Owner[m]
    BY <1>1, <2>1, Threads
  <2> QED BY <2>2, <2>3, <2>4 DEF f, ports, Custodian
<1>13. ASSUME NEW s \in Server, Worked(m, s) PROVE Custodian(m)
  <2>1. ports = {} /\ inipi = {} /\ with = {s} /\ hands = {}
    <3>1. OnlyOn(m, {}) /\ OnlyIn(m, {}) /\ OnlyWith(m, {s}) /\ OnlyAt(m, {})
      BY <1>13 DEF Worked
    <3> HIDE DEF ports, with, inipi, hands
    <3> QED BY <3>1, <1>2, <1>3, <1>4, <1>9, <1>15
  <2>2. "DONE" \notin f /\ "QUEUED" \notin f /\ "INTRANSIT" \notin f /\ "REPLY" \notin f
    BY <1>13 DEF Worked, Is
  <2> HIDE DEF f, ports, inipi, with, hands
  <2>3. InIpi(m) = 0 /\ Cardinality(ports) = 0 /\ WithServer(m) = 1 /\ InHand(m) = 0
    BY <2>1, <1>5, <1>6, <1>7
  <2> QED BY <2>1, <2>2, <2>3 DEF f, ports, Custodian
<1>14. ASSUME NEW i \in ipis, Carried(m, i) PROVE Custodian(m)
  <2>1. ports = {} /\ inipi = {i} /\ with = {} /\ hands = {}
    <3>1. OnlyOn(m, {}) /\ OnlyWith(m, {}) /\ OnlyAt(m, {})
      BY <1>14 DEF Carried
    <3>2. inipi = {i}
      BY <1>14 DEF Carried, OnlyIn
    <3> HIDE DEF ports, with, inipi, hands
    <3> QED BY <3>1, <3>2, <1>2, <1>3, <1>9, <1>15
  <2>2. "DONE" \notin f /\ "QUEUED" \notin f /\ "INTRANSIT" \in f
    BY <1>14 DEF Carried, Is
  <2> HIDE DEF f, ports, inipi, with, hands
  <2>3. InIpi(m) = 1 /\ Cardinality(ports) = 0 /\ WithServer(m) = 0 /\ InHand(m) = 0
    BY <2>1, <1>5, <1>6, <1>7
  <2> QED BY <2>1, <2>2, <2>3 DEF f, ports, Custodian
<1>16. ASSUME NEW g \in Cpu, InHands(m, g) PROVE Custodian(m)
  <2>1. ports = {} /\ inipi = {} /\ with = {} /\ hands = {g}
    <3>1. OnlyOn(m, {}) /\ OnlyIn(m, {}) /\ OnlyWith(m, {}) /\ OnlyAt(m, {g})
      BY <1>16 DEF InHands
    <3>2. {g} \subseteq Cpu
      OBVIOUS
    <3> HIDE DEF ports, with, inipi, hands
    <3> QED BY <3>1, <3>2, <1>2, <1>3, <1>4, <1>9, <1>15
  <2>2. "DONE" \notin f /\ "QUEUED" \notin f /\ "INTRANSIT" \notin f
    BY <1>16 DEF InHands, Is
  <2> HIDE DEF f, ports, inipi, with, hands
  <2>3. InIpi(m) = 0 /\ Cardinality(ports) = 0 /\ WithServer(m) = 0 /\ InHand(m) = 1
    BY <2>1, <1>5, <1>6, <1>7
  <2> QED BY <2>1, <2>2, <2>3 DEF f, ports, Custodian
<1> QED BY <1>8, <1>10, <1>11, <1>12, <1>13, <1>14, <1>16 DEF Somewhere

(***************************************************************************)
(* The places of messages, the states of threads and what they wait for    *)
(* are an inductive invariant of the port code.                            *)
(***************************************************************************)
THEOREM MsgportInvariant == Spec => []Inv
BY InvInit, InvStep, PTL DEF Spec

(* The types of messages, ports and threads (TypeOK).                      *)
THEOREM MsgportTypes == Spec => []TypeOK
<1>1. Inv => TypeOK
  <2> SUFFICES ASSUME Inv PROVE TypeOK
    OBVIOUS
  <2>1. \A c \in Client : held[c] # NULL <=> pc[c] = "waitmsg"
    BY Threads DEF Inv, ThreadInv, ThreadOK
  <2>2. \A t \in Thread : pc[t] = "run" => ~waiting[t] /\ ~asleep[t] /\ ~sentabort[t]
    BY DEF Inv, ThreadInv, ThreadOK
  <2> QED BY <2>1, <2>2 DEF TypeOK, Inv, PortInv, PlaceInv, ThreadInv, CpuInv, Flag
<1> QED BY <1>1, MsgportInvariant, PTL

(***************************************************************************)
(* Every message is in exactly one place, the one its flags tell, however  *)
(* sends, forwards, drops, replies, waits and migrations interleave, as    *)
(* long as no thread gets to its new cpu while the one it left is between  *)
(* the test of td_gd and the end of its work on the port                   *)
(* (lwkt_thread_putport(), lwkt_thread_replyport() and their remotes).     *)
(***************************************************************************)
THEOREM MessagesInCustody == Spec => []Custody
BY MsgportInvariant, CustodyOf, PTL

(***************************************************************************)
(* Under the same condition no thread sleeps in lwkt_thread_waitmsg() or   *)
(* lwkt_thread_waitport() on what it already has, except for the moment    *)
(* until its cpu looks after it.                                           *)
(***************************************************************************)
THEOREM WaitsNotMissed == Spec => []NoMissedWakeup
<1>1. Inv => NoMissedWakeup
  <2> SUFFICES ASSUME Inv, ~raced, NEW t \in Thread, asleep[t]
               PROVE  /\ waiting[t]
                      /\ \/ Due(t)
                         \/ /\ pc[t] = "waitmsg" => "DONE" \notin ms_flags[held[t]]
                            /\ pc[t] = "waitport" => _lwkt_pollmsg(t) = NULL
    BY DEF NoMissedWakeup, Due
  <2>1. SleepOK(t)
    BY DEF Inv, SleepInv
  <2>2. (\A x \in Msg : ~On(t, x)) => _lwkt_pollmsg(t) = NULL
    BY Polled DEF Inv
  <2> QED BY <2>1, <2>2 DEF SleepOK, Nothing
<1> QED BY <1>1, MsgportInvariant, PTL
=============================================================================
