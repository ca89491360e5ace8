--------------------------- MODULE SynProbe_proofs ---------------------------
(***************************************************************************)
(* synProbe for every number of probes, every -timeout (none is refused),  *)
(* every packet of other programs and every random source port: what the   *)
(* verdicts are worth (VerdictExact), how long a probe waits               *)
(* (WaitsBounded), and that the probes keep to the contract of a scan.     *)
(* The first rests on what each packet on its way says of the port it      *)
(* comes from (Truthful), the second on how the three clocks of a probe    *)
(* are related (ClocksOrdered).                                            *)
(***************************************************************************)
EXTENDS SynProbe, SequenceTheorems, WellFoundedInduction, TLAPS

Flags == {"SYN", "SYN-ACK", "RST", "other"}
Hosts == {j.host : j \in Jobs}
Ports == {j.port : j \in Jobs} \cup SrcPorts
Packets == [from : Hosts, sport : Ports, dport : Ports, flags : Flags]

TypeOK ==
  /\ pc \in [Jobs -> {"idle", "done"} \cup Places]
  /\ srcPort \in [Jobs -> SrcPorts \cup {NoPort}]
  /\ inbox \in [Jobs -> Seq(Packets \cup Traffic)]
  /\ age \in [Jobs -> Nat] /\ waited \in [Jobs -> Nat] /\ late \in [Jobs -> Nat]
  /\ result \in [Jobs -> [job : Jobs, state : States, cause : Causes] \cup {NoResult}]
  /\ wire \subseteq Packets
  /\ cancelled \in BOOLEAN

\* Where a probe is says whether it has a source port and a result.
InProgress ==
  \A j \in Jobs :
    /\ pc[j] \in {"idle", "lookup", "prepare"} => srcPort[j] = NoPort
    /\ pc[j] \in {"top", "recv"} => srcPort[j] \in SrcPorts
    /\ pc[j] # "done" => result[j] = NoResult

SynsOwned ==
  \A syn \in syns :
    syn.to \in Jobs /\ syn.sport = srcPort[syn.to] /\ srcPort[syn.to] \in SrcPorts

\* What p says of a port it may be taken to come from is true, or p is a reset
\* of somebody else: of another program's connection, or of a probe of this
\* machine whose source is that port.
Truthful(p) ==
  \A j \in Jobs : p.from = j.host /\ p.sport = j.port =>
    /\ p.flags = "SYN-ACK" => j \in listening
    /\ p.flags = "RST" =>
         \/ j \notin listening \/ p \in Traffic
         \/ \E k \in Jobs : k.host = j.host /\ srcPort[k] = j.port /\ p.dport = k.port

\* A SYN-ACK on the wire answers a probe.
AnswersProbe(p) ==
  \E k \in Jobs : p.from = k.host /\ p.sport = k.port /\ p.dport = srcPort[k]

\* The packets in the raw socket of probe j.
Held(j) == {inbox[j][i] : i \in 1 .. Len(inbox[j])}

PacketsTruthful ==
  /\ \A p \in wire : Truthful(p) /\ (p.flags = "SYN-ACK" => AnswersProbe(p))
  /\ \A j \in Jobs : \A p \in Held(j) : Truthful(p)

\* A probe begins to wait before its deadline, and nobody calls Recvfrom after
\* the cancellation: what came late came while one call lasted.
ClocksOrdered ==
  \A j \in Jobs :
    /\ pc[j] \notin {"top", "recv"} => age[j] = 0
    /\ age[j] > 0 => age[j] < 2 * Timeout
    /\ pc[j] = "idle" => waited[j] = 0 /\ late[j] = 0
    /\ pc[j] = "lookup" => j \in Named /\ waited[j] <= Resolver /\ late[j] <= waited[j]
    /\ pc[j] = "prepare" => late[j] <= LookupTime(j)
    /\ pc[j] = "recv" =>
         /\ waited[j] <= Timeout /\ age[j] < Timeout + waited[j]
         /\ late[j] <= waited[j]
    /\ ~cancelled => late[j] = 0
    /\ late[j] <= LookupTime(j) \/ late[j] <= Timeout

SynInv == TypeOK /\ InProgress /\ SynsOwned /\ PacketsTruthful /\ VerdictExact /\ ClocksOrdered

USE DEF GoTo, probes, clocks, Inside, Places, Enter

-----------------------------------------------------------------------------
\* A probe ends with a result that the contract of a scan allows.
Concludes(j) ==
  \E s \in States, c \in Causes :
    /\ Conclude(j, s, c)
    /\ c # "network" => s \in {"closed", "filtered"}
    /\ c = "cancel" => cancelled
    /\ c = "network" /\ s # "filtered" =>
         /\ pc[j] = "recv" /\ inbox[j] # <<>>
         /\ s = "open" => IsSynAck(j, Head(inbox[j]))
         /\ s = "closed" => IsReset(j, Head(inbox[j]))

\* Recvfrom is called.
Wait(j) ==
  /\ pc[j] = "top" /\ ~Expired(j) /\ ~cancelled
  /\ GoTo(j, "recv")
  /\ waited' = [waited EXCEPT ![j] = 0]
  /\ UNCHANGED <<listening, srcPort, inbox, age, late, result, syns, wire, cancelled>>

\* A packet is passed over.
PassOver(j) ==
  /\ pc[j] = "recv" /\ inbox[j] # <<>>
  /\ inbox' = [inbox EXCEPT ![j] = Tail(@)]
  /\ GoTo(j, "top")
  /\ UNCHANGED <<listening, srcPort, clocks, result, syns, wire, cancelled>>

\* The kinds of step the lemmas below distinguish.
LEMMA StepKinds ==
  ASSUME [Next]_vars
  PROVE  \/ \E j \in Jobs : \/ Begin(j) \/ Resolved(j) \/ Send(j) \/ Wait(j) \/ PassOver(j)
                            \/ pc[j] \in Places /\ Concludes(j)
         \/ \E syn \in syns : Answer(syn)
         \/ \E p \in wire : Arrive(p)
         \/ \E p \in Traffic : Pass(p)
         \/ Cancel \/ Tick \/ UNCHANGED vars
<1>1. ASSUME NEW j \in Jobs, ProbeStep(j)
      PROVE  \/ Begin(j) \/ Resolved(j) \/ Send(j) \/ Wait(j) \/ PassOver(j)
             \/ pc[j] \in Places /\ Concludes(j)
  <2>1. CASE Begin(j) \/ Resolved(j) \/ Send(j)
    BY <2>1
  <2>2. CASE NoAddress(j)
    BY <2>2 DEF NoAddress, Concludes, States, Causes
  <2>3. CASE Unsent(j)
    BY <2>3 DEF Unsent, Concludes, States, Causes
  <2>4. CASE Top(j)
    BY <2>4 DEF Top, Wait, Concludes, States, Causes
  <2>5. CASE Receive(j)
    BY <2>5 DEF Receive, PassOver, Concludes, States, Causes
  <2>6. CASE ReceiveTimeout(j) \/ ReceiveError(j)
    BY <2>6 DEF ReceiveTimeout, ReceiveError, Concludes, States, Causes
  <2> QED
    BY <1>1, <2>1, <2>2, <2>3, <2>4, <2>5, <2>6 DEF ProbeStep
<1> QED
  BY <1>1 DEF Next, Ended

-----------------------------------------------------------------------------
LEMMA TypeInit == Init => TypeOK
<1> SUFFICES ASSUME Init PROVE TypeOK
  OBVIOUS
<1>1. inbox \in [Jobs -> Seq(Packets \cup Traffic)]
  BY DEF Init
<1>2. /\ pc \in [Jobs -> {"idle", "done"} \cup Places]
      /\ srcPort \in [Jobs -> SrcPorts \cup {NoPort}]
      /\ age \in [Jobs -> Nat] /\ waited \in [Jobs -> Nat] /\ late \in [Jobs -> Nat]
      /\ result \in [Jobs -> [job : Jobs, state : States, cause : Causes] \cup {NoResult}]
      /\ wire \subseteq Packets
      /\ cancelled \in BOOLEAN
  BY DEF Init
<1> QED
  BY <1>1, <1>2 DEF TypeOK

\* What a raw socket holds after a packet came in is what it held, and perhaps
\* that packet.
LEMMA DeliverAppends ==
  ASSUME TypeOK, NEW p \in Packets \cup Traffic, Deliver(p), NEW j \in Jobs
  PROVE  inbox'[j] \in Seq(Packets \cup Traffic) /\ Held(j)' \subseteq Held(j) \cup {p}
<1>1. CASE inbox'[j] = inbox[j]
  BY <1>1 DEF TypeOK, Held
<1>2. CASE inbox'[j] = Append(inbox[j], p)
  <2>1. inbox[j] \in Seq(Packets \cup Traffic)
    BY DEF TypeOK
  <2>2. /\ inbox'[j] \in Seq(Packets \cup Traffic)
        /\ Len(inbox'[j]) = Len(inbox[j]) + 1
        /\ \A i \in 1 .. Len(inbox[j]) : inbox'[j][i] = inbox[j][i]
        /\ inbox'[j][Len(inbox[j]) + 1] = p
    BY <1>2, <2>1, AppendProperties
  <2>3. Len(inbox[j]) \in Nat
    BY <2>1
  <2>4. ASSUME NEW i \in 1 .. Len(inbox'[j])
        PROVE  inbox'[j][i] \in Held(j) \cup {p}
    <3>1. i \in 1 .. Len(inbox[j]) \/ i = Len(inbox[j]) + 1
      BY <2>2, <2>3
    <3> QED
      BY <2>2, <3>1 DEF Held
  <2> QED
    BY <2>2, <2>4 DEF Held
<1> QED
  BY <1>1, <1>2 DEF Deliver

LEMMA PassOverTail ==
  ASSUME TypeOK, NEW k \in Jobs, PassOver(k), NEW j \in Jobs
  PROVE  inbox'[j] \in Seq(Packets \cup Traffic) /\ Held(j)' \subseteq Held(j)
<1>0. inbox[j] \in Seq(Packets \cup Traffic)
  BY DEF TypeOK
<1>1. CASE j # k
  BY <1>0, <1>1 DEF PassOver, TypeOK, Held
<1>2. CASE j = k
  <2>1. inbox[j] # <<>> /\ inbox'[j] = Tail(inbox[j])
    BY <1>2 DEF PassOver, TypeOK
  <2>2. /\ Tail(inbox[j]) \in Seq(Packets \cup Traffic)
        /\ Len(Tail(inbox[j])) = Len(inbox[j]) - 1
        /\ \A i \in 1 .. Len(Tail(inbox[j])) : Tail(inbox[j])[i] = inbox[j][i + 1]
    BY <1>0, <2>1, HeadTailProperties
  <2>3. Len(inbox[j]) \in Nat
    BY <1>0
  <2>4. ASSUME NEW i \in 1 .. Len(Tail(inbox[j]))
        PROVE  i + 1 \in 1 .. Len(inbox[j])
    BY <2>2, <2>3
  <2> QED
    BY <2>1, <2>2, <2>4 DEF Held
<1> QED
  BY <1>1, <1>2

\* A probe that ends changes nothing but its own state.
LEMMA ConcludesFrame ==
  ASSUME NEW j \in Jobs, Concludes(j)
  PROVE  /\ \E s \in States, c \in Causes :
              result' = [result EXCEPT ![j] = [job |-> j, state |-> s, cause |-> c]]
         /\ GoTo(j, "done")
         /\ inbox' = [inbox EXCEPT ![j] = <<>>]
         /\ age' = [age EXCEPT ![j] = 0] /\ waited' = [waited EXCEPT ![j] = 0]
         /\ late' = [late EXCEPT ![j] = 0]
         /\ UNCHANGED <<listening, srcPort, syns, wire, cancelled>>
BY DEF Concludes, Conclude

LEMMA TypeStep == TypeOK /\ SynsOwned /\ PacketsTruthful /\ [Next]_vars => TypeOK'
<1> SUFFICES ASSUME TypeOK, SynsOwned, PacketsTruthful, [Next]_vars PROVE TypeOK'
  OBVIOUS
<1>1. ASSUME NEW j \in Jobs, Begin(j) \/ Resolved(j) \/ Send(j) \/ Wait(j) PROVE TypeOK'
  <2>1. CASE Begin(j)
    BY <2>1 DEF Begin, TypeOK
  <2>0. CASE Resolved(j)
    BY <2>0 DEF Resolved, TypeOK
  <2>2. CASE Send(j)
    BY <2>2 DEF Send, TypeOK
  <2>3. CASE Wait(j)
    BY <2>3 DEF Wait, TypeOK
  <2> QED
    BY <1>1, <2>0, <2>1, <2>2, <2>3
<1>2. ASSUME NEW j \in Jobs, PassOver(j) PROVE TypeOK'
  <2>1. inbox' \in [Jobs -> Seq(Packets \cup Traffic)]
    <3>1. \A k \in Jobs : inbox'[k] \in Seq(Packets \cup Traffic)
      BY <1>2, PassOverTail
    <3> QED
      BY <1>2, <3>1 DEF PassOver, TypeOK
  <2> QED
    BY <1>2, <2>1 DEF PassOver, TypeOK
<1>3. ASSUME NEW j \in Jobs, Concludes(j) PROVE TypeOK'
  <2>1. PICK s \in States, c \in Causes : Conclude(j, s, c)
    BY <1>3 DEF Concludes
  <2>2. [job |-> j, state |-> s, cause |-> c] \in [job : Jobs, state : States, cause : Causes]
    OBVIOUS
  <2>3. <<>> \in Seq(Packets \cup Traffic)
    OBVIOUS
  <2>4. inbox' \in [Jobs -> Seq(Packets \cup Traffic)]
    BY <2>1, <2>3 DEF Conclude, TypeOK
  <2>5. result' \in [Jobs -> [job : Jobs, state : States, cause : Causes] \cup {NoResult}]
    BY <2>1, <2>2 DEF Conclude, TypeOK
  <2> QED
    BY <2>1, <2>4, <2>5 DEF Conclude, TypeOK
<1>4. ASSUME NEW syn \in syns, Answer(syn) PROVE TypeOK'
  <2>1. wire' \subseteq Packets
    <3>1. syn.to.host \in Hosts /\ syn.to.port \in Ports /\ syn.sport \in Ports
      BY DEF SynsOwned, Hosts, Ports
    <3>2. \A f \in Flags : Segment(syn.to.host, syn.to.port, syn.sport, f) \in Packets
      BY <3>1 DEF Segment, Packets
    <3> QED
      BY <1>4, <3>2 DEF Answer, TypeOK, Flags
  <2> QED
    BY <1>4, <2>1 DEF Answer, TypeOK
<1>5. ASSUME NEW p \in wire, Arrive(p) PROVE TypeOK'
  <2>1. p \in Packets
    BY DEF TypeOK
  <2>2. inbox' \in [Jobs -> Seq(Packets \cup Traffic)]
    <3>1. \A k \in Jobs : inbox'[k] \in Seq(Packets \cup Traffic)
      BY <1>5, <2>1, DeliverAppends DEF Arrive
    <3> QED
      BY <1>5, <3>1 DEF Arrive, Deliver
  <2>3. wire' \subseteq Packets
    BY <1>5, <2>1 DEF Arrive, Reset, Segment, Packets, Flags, TypeOK
  <2> QED
    BY <1>5, <2>2, <2>3 DEF Arrive, TypeOK
<1>6. ASSUME NEW p \in Traffic, Pass(p) PROVE TypeOK'
  <2>1. inbox' \in [Jobs -> Seq(Packets \cup Traffic)]
    <3>1. \A k \in Jobs : inbox'[k] \in Seq(Packets \cup Traffic)
      BY <1>6, DeliverAppends DEF Pass
    <3> QED
      BY <1>6, <3>1 DEF Pass, Deliver
  <2> QED
    BY <1>6, <2>1 DEF Pass, TypeOK
<1>7. CASE Cancel \/ Tick \/ UNCHANGED vars
  <2>1. CASE Tick
    <3>1. age' \in [Jobs -> Nat]
      BY <2>1 DEF Tick, TypeOK
    <3>2. waited' \in [Jobs -> Nat] /\ late' \in [Jobs -> Nat]
      BY <2>1 DEF Tick, TypeOK
    <3> QED
      BY <2>1, <3>1, <3>2 DEF Tick, TypeOK
  <2> QED
    BY <1>7, <2>1 DEF Cancel, vars, TypeOK
<1> QED
  BY <1>1, <1>2, <1>3, <1>4, <1>5, <1>6, <1>7, StepKinds

-----------------------------------------------------------------------------
LEMMA ProgressStep == TypeOK /\ InProgress /\ [Next]_vars => InProgress'
<1> SUFFICES ASSUME TypeOK, InProgress, [Next]_vars PROVE InProgress'
  OBVIOUS
<1> USE DEF InProgress, TypeOK
<1>1. ASSUME NEW j \in Jobs, Begin(j) \/ Resolved(j) \/ Wait(j) \/ PassOver(j) PROVE InProgress'
  <2>1. CASE Begin(j)
    BY <2>1 DEF Begin
  <2>2. CASE Resolved(j)
    BY <2>2 DEF Resolved
  <2>3. CASE Wait(j) \/ PassOver(j)
    BY <2>3 DEF Wait, PassOver
  <2> QED
    BY <1>1, <2>1, <2>2, <2>3
<1>2. ASSUME NEW j \in Jobs, Send(j) PROVE InProgress'
  BY <1>2 DEF Send
<1>3. ASSUME NEW j \in Jobs, Concludes(j) PROVE InProgress'
  <2>1. pc' = [pc EXCEPT ![j] = "done"] /\ srcPort' = srcPort
        /\ \A k \in Jobs \ {j} : result'[k] = result[k]
    BY <1>3, ConcludesFrame
  <2> QED
    BY <2>1
<1>4. CASE \/ \E syn \in syns : Answer(syn)
           \/ \E p \in wire : Arrive(p)
           \/ \E p \in Traffic : Pass(p)
           \/ Cancel \/ Tick \/ UNCHANGED vars
  BY <1>4 DEF Answer, Arrive, Pass, Cancel, Tick, vars
<1> QED
  BY <1>1, <1>2, <1>3, <1>4, StepKinds

\* Once a probe has a source port it keeps it, and what listens is fixed.
LEMMA PortsStay ==
  ASSUME TypeOK, InProgress, [Next]_vars
  PROVE  /\ listening' = listening
         /\ \A j \in Jobs : srcPort[j] # NoPort => srcPort'[j] = srcPort[j]
<1>1. ASSUME NEW j \in Jobs, Send(j)
      PROVE  /\ listening' = listening
             /\ \A k \in Jobs : srcPort[k] # NoPort => srcPort'[k] = srcPort[k]
  <2>1. srcPort[j] = NoPort
    BY <1>1 DEF Send, InProgress
  <2> QED
    BY <1>1, <2>1 DEF Send, TypeOK
<1> QED
  BY <1>1, StepKinds, ConcludesFrame
     DEF Begin, Resolved, Wait, PassOver, Answer, Arrive, Pass, Cancel, Tick, vars

LEMMA SynsStep == TypeOK /\ InProgress /\ SynsOwned /\ [Next]_vars => SynsOwned'
<1> SUFFICES ASSUME TypeOK, InProgress, SynsOwned, [Next]_vars PROVE SynsOwned'
  OBVIOUS
<1>0. \A syn \in syns : syn.to \in Jobs /\ syn.sport = srcPort'[syn.to]
                        /\ srcPort'[syn.to] \in SrcPorts
  BY PortsStay, SynAssumption DEF SynsOwned, SynAssumption
<1>1. ASSUME NEW j \in Jobs, Send(j) PROVE SynsOwned'
  <2>1. PICK sport \in SrcPorts, seq \in SeqNumbers :
          /\ srcPort' = [srcPort EXCEPT ![j] = sport]
          /\ syns' = syns \cup {SYN(j, sport, seq)}
    BY <1>1 DEF Send
  <2>2. SYN(j, sport, seq).to = j /\ SYN(j, sport, seq).sport = sport /\ srcPort'[j] = sport
    BY <2>1 DEF SYN, TypeOK
  <2> QED
    BY <1>0, <2>1, <2>2 DEF SynsOwned
<1>2. CASE syns' \subseteq syns
  BY <1>0, <1>2 DEF SynsOwned
<1> QED
  BY <1>1, <1>2, StepKinds, ConcludesFrame
     DEF Begin, Resolved, Wait, PassOver, Answer, Arrive, Pass, Cancel, Tick, vars

-----------------------------------------------------------------------------
\* What was true of a packet stays true.
LEMMA TruthStays ==
  ASSUME TypeOK, InProgress, [Next]_vars, NEW p, Truthful(p)
  PROVE  Truthful(p)'
<1>1. ASSUME NEW k \in Jobs, NEW j \in Jobs, srcPort[k] = j.port PROVE srcPort'[k] = j.port
  <2>1. srcPort[k] # NoPort
    BY <1>1, SynAssumption DEF SynAssumption
  <2> QED
    BY <1>1, <2>1, PortsStay
<1> QED
  BY <1>1, PortsStay DEF Truthful

\* Two jobs with one host and one port are one job.
LEMMA JobIsHostAndPort ==
  ASSUME NEW j \in Jobs, NEW k \in Jobs, j.host = k.host, j.port = k.port
  PROVE  j = k
BY SynAssumption DEF SynAssumption

\* The answer of a target to a probe is true of the port, and so is the reset of
\* a SYN-ACK, which names the probe it resets.
LEMMA AnswerTruthful ==
  ASSUME NEW k \in Jobs, NEW dport, NEW flags,
         flags = IF k \in listening THEN "SYN-ACK" ELSE "RST"
  PROVE  Truthful(Segment(k.host, k.port, dport, flags))
BY JobIsHostAndPort DEF Truthful, Segment

LEMMA ResetTruthful ==
  ASSUME NEW p, AnswersProbe(p), NEW r \in Reset(p)
  PROVE  Truthful(r) /\ r.flags = "RST"
BY DEF AnswersProbe, Truthful, Reset, Segment

LEMMA PassTruthful ==
  ASSUME NEW p \in Traffic, Pass(p)
  PROVE  Truthful(p)
BY DEF Pass, Truthful

\* A packet that comes in truthful leaves every raw socket with truthful ones.
LEMMA DeliverTruthful ==
  ASSUME TypeOK, InProgress, [Next]_vars, PacketsTruthful,
         NEW q \in Packets \cup Traffic, Deliver(q), Truthful(q)
  PROVE  (\A j \in Jobs : \A p \in Held(j) : Truthful(p))'
<1> SUFFICES ASSUME NEW j \in Jobs, NEW p \in Held(j)' PROVE Truthful(p)'
  OBVIOUS
<1>1. p \in Held(j) \cup {q}
  BY DeliverAppends
<1>2. Truthful(p)
  BY <1>1 DEF PacketsTruthful
<1> QED
  BY <1>2, TruthStays

LEMMA PacketsStep ==
  TypeOK /\ InProgress /\ SynsOwned /\ PacketsTruthful /\ [Next]_vars => PacketsTruthful'
<1> SUFFICES ASSUME TypeOK, InProgress, SynsOwned, PacketsTruthful, [Next]_vars
             PROVE  PacketsTruthful'
  OBVIOUS
<1> DEFINE InWire == \A p \in wire : Truthful(p) /\ (p.flags = "SYN-ACK" => AnswersProbe(p))
           InSockets == \A j \in Jobs : \A p \in Held(j) : Truthful(p)
<1>a. ASSUME NEW p, Truthful(p) PROVE Truthful(p)'
  BY <1>a, TruthStays
<1>b. ASSUME NEW p \in Packets, AnswersProbe(p) PROVE AnswersProbe(p)'
  <2>1. PICK k \in Jobs : p.from = k.host /\ p.sport = k.port /\ p.dport = srcPort[k]
    BY <1>b DEF AnswersProbe
  <2>2. srcPort[k] # NoPort
    BY <2>1, SynAssumption DEF SynAssumption, Packets, Ports
  <2> QED
    BY <2>1, <2>2, PortsStay DEF AnswersProbe
<1>c. ASSUME NEW p \in wire
      PROVE  p \in Packets /\ Truthful(p)' /\ (p.flags = "SYN-ACK" => AnswersProbe(p)')
  BY <1>a, <1>b DEF PacketsTruthful, TypeOK
<1>d. ASSUME wire' \subseteq wire PROVE InWire'
  BY <1>c, <1>d
<1>e. ASSUME NEW j \in Jobs, Held(j)' \subseteq Held(j) PROVE \A p \in Held(j)' : Truthful(p)'
  BY <1>a, <1>e DEF PacketsTruthful
<1>1. ASSUME NEW j \in Jobs, Begin(j) \/ Resolved(j) \/ Send(j) \/ Wait(j)
      PROVE  InWire' /\ InSockets'
  <2>1. wire' = wire /\ \A k \in Jobs : Held(k)' \subseteq Held(k)
    BY <1>1 DEF Begin, Resolved, Send, Wait, Held
  <2> QED
    BY <1>d, <1>e, <2>1
<1>2. ASSUME NEW j \in Jobs, PassOver(j) PROVE InWire' /\ InSockets'
  <2>1. wire' = wire
    BY <1>2 DEF PassOver
  <2>2. \A k \in Jobs : Held(k)' \subseteq Held(k)
    BY <1>2, PassOverTail
  <2> QED
    BY <1>d, <1>e, <2>1, <2>2
<1>3. ASSUME NEW j \in Jobs, Concludes(j) PROVE InWire' /\ InSockets'
  <2>1. wire' = wire /\ inbox' = [inbox EXCEPT ![j] = <<>>]
    BY <1>3, ConcludesFrame
  <2>2. ASSUME NEW k \in Jobs PROVE Held(k)' \subseteq Held(k)
    <3>1. CASE k = j
      BY <2>1, <3>1 DEF TypeOK, Held
    <3>2. CASE k # j
      BY <2>1, <3>2 DEF TypeOK, Held
    <3> QED
      BY <3>1, <3>2
  <2> QED
    BY <1>d, <1>e, <2>1, <2>2
<1>4. ASSUME NEW syn \in syns, Answer(syn) PROVE InWire' /\ InSockets'
  <2>1. PICK k \in Jobs : k = syn.to /\ syn.sport = srcPort[k] /\ srcPort[k] \in SrcPorts
    BY DEF SynsOwned
  <2>2. PICK reply \in Flags : reply = IF k \in listening THEN "SYN-ACK" ELSE "RST"
    BY DEF Flags
  <2>3. PICK answer : answer = Segment(k.host, k.port, syn.sport, reply)
    OBVIOUS
  <2>4. answer \in Packets
    BY <2>1, <2>3 DEF Segment, Packets, Hosts, Ports
  <2>5. Truthful(answer) /\ AnswersProbe(answer)
    BY <2>1, <2>2, <2>3, AnswerTruthful DEF AnswersProbe, Segment
  <2>6. Truthful(answer)' /\ AnswersProbe(answer)'
    BY <2>4, <2>5, <1>a, <1>b
  <2>7. wire' \subseteq wire \cup {answer}
    BY <1>4, <2>1, <2>2, <2>3 DEF Answer
  <2>8. \A j \in Jobs : Held(j)' \subseteq Held(j)
    BY <1>4 DEF Answer, Held
  <2>9. InWire'
    BY <1>c, <2>6, <2>7
  <2> QED
    BY <1>e, <2>8, <2>9
<1>5. ASSUME NEW q \in wire, Arrive(q) PROVE InWire' /\ InSockets'
  <2>1. q \in Packets /\ Truthful(q) /\ Deliver(q)
    BY <1>5 DEF Arrive, PacketsTruthful, TypeOK
  <2>2. InSockets'
    BY <2>1, DeliverTruthful
  <2>3. ASSUME NEW p \in Reset(q) PROVE Truthful(p)' /\ p.flags = "RST"
    <3>1. AnswersProbe(q)
      BY DEF Reset, PacketsTruthful
    <3> QED
      BY <3>1, <1>a, ResetTruthful
  <2>4. wire' = (wire \ {q}) \cup Reset(q)
    BY <1>5 DEF Arrive
  <2>5. InWire'
    BY <1>c, <2>3, <2>4
  <2> QED
    BY <2>2, <2>5
<1>6. ASSUME NEW q \in Traffic, Pass(q) PROVE InWire' /\ InSockets'
  <2>1. Truthful(q) /\ Deliver(q) /\ wire' = wire
    BY <1>6, PassTruthful DEF Pass
  <2>2. InSockets'
    BY <2>1, DeliverTruthful
  <2> QED
    BY <1>d, <2>1, <2>2
<1>7. ASSUME Cancel \/ Tick \/ UNCHANGED vars PROVE InWire' /\ InSockets'
  <2>1. wire' = wire /\ \A k \in Jobs : Held(k)' \subseteq Held(k)
    BY <1>7 DEF Cancel, Tick, vars, Held
  <2>2. InWire'
    BY <1>d, <2>1
  <2>3. InSockets'
    BY <1>e, <2>1
  <2> QED
    BY <2>2, <2>3
<1> QED
  BY <1>1, <1>2, <1>3, <1>4, <1>5, <1>6, <1>7, StepKinds DEF PacketsTruthful

-----------------------------------------------------------------------------
\* A probe that has a result has ended, and so it is explained for good.
LEMMA VerdictStep ==
  TypeOK /\ InProgress /\ PacketsTruthful /\ VerdictExact /\ [Next]_vars => VerdictExact'
<1> SUFFICES ASSUME TypeOK, InProgress, PacketsTruthful, VerdictExact, [Next]_vars,
                    NEW j \in Jobs, result'[j] # NoResult, result'[j].cause = "network"
             PROVE  /\ result'[j].state = "open" => j \in listening'
                    /\ result'[j].state = "closed" => j \notin listening' \/ Mistakable(j)'
  BY DEF VerdictExact
<1>0. listening' = listening
  BY PortsStay
<1>1. CASE result'[j] = result[j]
  <2>1. srcPort[j] = srcPort'[j] \/ srcPort[j] = NoPort
    BY PortsStay
  <2>2. ASSUME Mistakable(j) PROVE Mistakable(j)'
    <3>1. CASE \E p \in Traffic : p.from = j.host /\ p.sport = j.port /\ p.dport = srcPort[j]
      BY <2>1, <3>1, SynAssumption DEF Mistakable, SynAssumption
    <3>2. ASSUME NEW k \in Jobs, k.host = j.host, srcPort[k] = j.port, srcPort[j] = k.port
          PROVE  Mistakable(j)'
      BY <3>2, PortsStay, SynAssumption DEF Mistakable, SynAssumption
    <3> QED
      BY <2>2, <3>1, <3>2 DEF Mistakable
  <2> QED
    BY <1>0, <1>1, <2>2 DEF VerdictExact
<1>2. CASE result'[j] # result[j]
  <2>1. PICK k \in Jobs : Concludes(k)
    BY <1>2, StepKinds DEF Begin, Resolved, Send, Wait, PassOver, Answer, Arrive, Pass, Cancel, Tick, vars
  <2>2. k = j
    BY <1>2, <2>1, ConcludesFrame DEF TypeOK
  <2>3. PICK s \in States, c \in Causes :
          /\ Conclude(j, s, c)
          /\ c = "network" /\ s # "filtered" =>
               /\ pc[j] = "recv" /\ inbox[j] # <<>>
               /\ s = "open" => IsSynAck(j, Head(inbox[j]))
               /\ s = "closed" => IsReset(j, Head(inbox[j]))
    BY <2>1, <2>2 DEF Concludes
  <2>4. result'[j].state = s /\ c = "network" /\ srcPort' = srcPort
    BY <2>3 DEF Conclude, TypeOK
  <2>5. CASE s \in {"open", "closed"}
    <3>1. PICK p : p = Head(inbox[j])
      OBVIOUS
    <3>2. p \in Held(j)
      <4>1. inbox[j] \in Seq(Packets \cup Traffic) /\ inbox[j] # <<>>
        BY <2>3, <2>4, <2>5 DEF TypeOK
      <4>2. 1 \in 1 .. Len(inbox[j]) /\ p = inbox[j][1]
        BY <3>1, <4>1
      <4> QED
        BY <4>2 DEF Held
    <3>3. Truthful(p) /\ Ours(j, p)
      BY <2>3, <2>4, <2>5, <3>1, <3>2 DEF PacketsTruthful, IsSynAck, IsReset
    <3>4. CASE s = "open"
      BY <1>0, <2>3, <2>4, <3>1, <3>3, <3>4 DEF IsSynAck, Ours, Truthful
    <3>5. CASE s = "closed"
      <4>1. \/ j \notin listening \/ p \in Traffic
            \/ \E k1 \in Jobs : k1.host = j.host /\ srcPort[k1] = j.port /\ p.dport = k1.port
        BY <2>3, <2>4, <3>1, <3>3, <3>5 DEF IsReset, Ours, Truthful
      <4>2. j \notin listening \/ Mistakable(j)
        BY <3>3, <4>1 DEF Ours, Mistakable
      <4> QED
        BY <1>0, <2>4, <3>5, <4>2 DEF Mistakable
    <3> QED
      BY <2>5, <3>4, <3>5
  <2> QED
    BY <2>4, <2>5
<1> QED
  BY <1>1, <1>2

-----------------------------------------------------------------------------
LEMMA ClocksStep == TypeOK /\ ClocksOrdered /\ [Next]_vars => ClocksOrdered'
<1> SUFFICES ASSUME TypeOK, ClocksOrdered, [Next]_vars PROVE ClocksOrdered'
  OBVIOUS
<1> USE SynAssumption DEF SynAssumption, ClocksOrdered, TypeOK
<1> USE DEF LookupTime
<1>1. ASSUME NEW j \in Jobs, Begin(j) \/ Resolved(j) \/ Send(j) \/ Wait(j) \/ PassOver(j)
      PROVE  ClocksOrdered'
  <2>1. CASE Begin(j)
    BY <2>1 DEF Begin
  <2>2. CASE Resolved(j)
    BY <2>2 DEF Resolved
  <2>3. CASE Send(j)
    BY <2>3 DEF Send
  <2>4. CASE Wait(j)
    BY <2>4 DEF Wait, Expired
  <2>5. CASE PassOver(j)
    BY <2>5 DEF PassOver
  <2> QED
    BY <1>1, <2>1, <2>2, <2>3, <2>4, <2>5
<1>2. ASSUME NEW j \in Jobs, Concludes(j) PROVE ClocksOrdered'
  <2>1. pc' = [pc EXCEPT ![j] = "done"] /\ age' = [age EXCEPT ![j] = 0]
        /\ waited' = [waited EXCEPT ![j] = 0] /\ late' = [late EXCEPT ![j] = 0]
        /\ cancelled' = cancelled
    BY <1>2, ConcludesFrame
  <2> QED
    BY <2>1
<1>3. CASE \/ \E syn \in syns : Answer(syn)
           \/ \E p \in wire : Arrive(p)
           \/ \E p \in Traffic : Pass(p)
           \/ UNCHANGED vars
  BY <1>3 DEF Answer, Arrive, Pass, vars
<1>4. CASE Cancel
  BY <1>4 DEF Cancel
<1>5. CASE Tick
  <2> SUFFICES ASSUME NEW k \in Jobs
               PROVE  /\ pc'[k] \notin {"top", "recv"} => age'[k] = 0
                      /\ age'[k] > 0 => age'[k] < 2 * Timeout
                      /\ pc'[k] = "idle" => waited'[k] = 0 /\ late'[k] = 0
                      /\ pc'[k] = "lookup" =>
                           k \in Named /\ waited'[k] <= Resolver /\ late'[k] <= waited'[k]
                      /\ pc'[k] = "prepare" => late'[k] <= LookupTime(k)
                      /\ pc'[k] = "recv" =>
                           /\ waited'[k] <= Timeout /\ age'[k] < Timeout + waited'[k]
                           /\ late'[k] <= waited'[k]
                      /\ ~cancelled' => late'[k] = 0
                      /\ late'[k] <= LookupTime(k) \/ late'[k] <= Timeout
    BY DEF ClocksOrdered
  <2>0. pc' = pc /\ cancelled' = cancelled
    BY <1>5 DEF Tick
  <2>1. CASE k \notin Inside
    <3>1. age'[k] = age[k] /\ waited'[k] = waited[k] /\ late'[k] = late[k]
      BY <1>5, <2>1 DEF Tick, Listeners
    <3> QED
      BY <2>0, <2>1, <3>1
  <2>2. CASE k \in Inside
    <3>1. /\ \/ pc[k] = "lookup" /\ waited[k] < Resolver /\ age'[k] = age[k]
             \/ pc[k] = "recv" /\ waited[k] < Timeout /\ age'[k] = age[k] + 1
          /\ waited'[k] = waited[k] + 1
          /\ late'[k] = IF cancelled THEN late[k] + 1 ELSE late[k]
      BY <1>5, <2>2 DEF Tick, Waiting, Listeners
    <3> QED
      BY <2>0, <3>1
  <2> QED
    BY <2>1, <2>2
<1> QED
  BY <1>1, <1>2, <1>3, <1>4, <1>5, StepKinds

-----------------------------------------------------------------------------
\* The inductive invariant of the probes.
THEOREM SynInvariant == Spec => []SynInv
<1>1. Init => SynInv
  <2> SUFFICES ASSUME Init PROVE SynInv
    OBVIOUS
  <2>1. \A j \in Jobs : pc[j] = "idle" /\ srcPort[j] = NoPort /\ result[j] = NoResult
                        /\ inbox[j] = <<>>
                        /\ age[j] = 0 /\ waited[j] = 0 /\ late[j] = 0
    BY DEF Init
  <2>2. wire = {} /\ syns = {} /\ cancelled = FALSE
    BY DEF Init
  <2>3. InProgress /\ SynsOwned /\ PacketsTruthful /\ VerdictExact
    BY <2>1, <2>2 DEF InProgress, SynsOwned, PacketsTruthful, Held, VerdictExact
  <2>4. ClocksOrdered
    BY <2>1, <2>2, SynAssumption DEF ClocksOrdered, LookupTime, SynAssumption
  <2> QED
    BY <2>3, <2>4, TypeInit DEF SynInv
<1>2. SynInv /\ [Next]_vars => SynInv'
  BY TypeStep, ProgressStep, SynsStep, PacketsStep, VerdictStep, ClocksStep DEF SynInv
<1> QED
  BY <1>1, <1>2, PTL DEF Spec

\* "open" is a port that listens, and "closed" one that does not, unless the
\* random source port was another connection's.
THEOREM SynVerdictExact == Spec => []VerdictExact
<1>1. SynInv => VerdictExact
  BY DEF SynInv
<1> QED
  BY <1>1, SynInvariant, PTL

\* Whatever -timeout is: from its SYN on no probe reaches twice the time, and
\* after the cancellation none waits longer than -timeout or than the resolver
\* that has been asked for the name of its host.
THEOREM SynWaitsBounded == Spec => []WaitsBounded
<1>1. SynInv => WaitsBounded
  BY DEF SynInv, ClocksOrdered, WaitsBounded
<1> QED
  BY <1>1, SynInvariant, PTL

-----------------------------------------------------------------------------
\* Each step of a probe is a step of the contract, or none.
LEMMA StepIsContractStep ==
  TypeOK /\ InProgress /\ [Next]_vars => [Contract!Next]_(Contract!contractVars)
<1> SUFFICES ASSUME TypeOK, InProgress, [Next]_vars
             PROVE  [Contract!Next]_(Contract!contractVars)
  OBVIOUS
<1> USE DEF Contract!Next, Contract!contractVars
<1> DEFINE todo == {j \in Jobs : pc[j] = "idle"}
           taken == Inside
<1>1. ASSUME NEW j \in Jobs, Begin(j) PROVE Contract!Next
  <2>1. j \in todo /\ todo' = todo \ {j} /\ taken' = taken \cup {j}
    BY <1>1 DEF Begin, TypeOK
  <2>2. UNCHANGED <<Results, cancelled>>
    BY <1>1 DEF Begin, Results
  <2>3. Contract!Take(j)
    BY <2>1, <2>2 DEF Contract!Take
  <2> QED
    BY <2>3
<1>2. ASSUME NEW j \in Jobs, Resolved(j) \/ Send(j) \/ Wait(j) \/ PassOver(j)
      PROVE  UNCHANGED Contract!contractVars
  <2>1. todo' = todo /\ taken' = taken
    BY <1>2 DEF Resolved, Send, Wait, PassOver, TypeOK
  <2>2. UNCHANGED <<Results, cancelled>>
    BY <1>2 DEF Resolved, Send, Wait, PassOver, Results
  <2> QED
    BY <2>1, <2>2
<1>3. ASSUME NEW j \in Jobs, pc[j] \in Places, Concludes(j)
      PROVE  Contract!Next
  <2>1. PICK s \in States, c \in Causes :
          /\ Conclude(j, s, c)
          /\ c # "network" => s \in {"closed", "filtered"}
          /\ c = "cancel" => cancelled
    BY <1>3 DEF Concludes
  <2>2. PICK r : r = [job |-> j, state |-> s, cause |-> c]
    OBVIOUS
  <2>3. r \in [job : Jobs, state : States, cause : Causes] /\ r # NoResult
    BY <2>2, SynAssumption DEF SynAssumption
  <2>4. result' = [result EXCEPT ![j] = r] /\ result[j] = NoResult
    BY <1>3, <2>1, <2>2 DEF Conclude, InProgress
  <2>5. Results' = Results \cup {r}
    BY <2>3, <2>4 DEF Results, TypeOK
  <2>6. j \in taken /\ taken' = taken \ {j} /\ todo' = todo
    BY <1>3, <2>1 DEF Conclude, TypeOK
  <2>7. Contract!Honest(r) /\ r.job = j
    BY <2>1, <2>2 DEF Contract!Honest
  <2>8. Contract!Report(r)
    BY <2>1, <2>5, <2>6, <2>7 DEF Contract!Report, Conclude
  <2>9. r \in Contract!Results
    BY <2>3 DEF States, Causes, Contract!Results, Contract!States, Contract!Causes
  <2> QED
    BY <2>8, <2>9
<1>4. CASE Cancel
  BY <1>4 DEF Cancel, Contract!Cancel, Results
<1>5. CASE \/ \E syn \in syns : Answer(syn)
           \/ \E p \in wire : Arrive(p)
           \/ \E p \in Traffic : Pass(p)
           \/ Tick \/ UNCHANGED vars
  BY <1>5 DEF Answer, Arrive, Pass, Tick, vars, Results
<1> QED
  BY <1>1, <1>2, <1>3, <1>4, <1>5, StepKinds

\* One result for each probe, honest about its cause, whatever the packets do.
THEOREM SynImplementsContract == Spec => ImplementsContract
<1>1. Init => Contract!Init
  BY DEF Init, Contract!Init, Results
<1>2. SynInv => TypeOK /\ InProgress
  BY DEF SynInv
<1> QED
  BY <1>1, <1>2, SynInvariant, StepIsContractStep, PTL DEF Spec, ImplementsContract
-----------------------------------------------------------------------------
(* The checksum.  Each round of the folding keeps the remainder modulo     *)
(* WordBase - 1, which is what end-around carries are for; that the rounds *)
(* end in a word is an induction over the sum, done as a least             *)
(* counterexample.                                                         *)

\* Induction without an operator to instantiate: a set of numbers has a least one.
LEMMA LeastNat ==
  ASSUME NEW T \in SUBSET Nat, T # {}
  PROVE  \E n \in T : \A m \in T : n <= m
<1> DEFINE R == OpToRel(<, Nat)
<1>1. IsWellFoundedOn(R, Nat)
  BY NatLessThanWellFounded
<1>2. \A m, n \in Nat : m < n => <<m, n>> \in R
  BY DEF OpToRel
<1> HIDE DEF R
<1>3. PICK n \in T : \A m \in T : <<m, n>> \notin R
  BY <1>1, WFMin
<1>4. \A m \in T : ~(m < n)
  BY <1>2, <1>3
<1> QED
  BY <1>4

LEMMA WordFact == WordBase \in Nat /\ WordBase > 1
BY SynAssumption DEF SynAssumption

LEMMA Division ==
  ASSUME NEW n \in Nat, NEW b \in Nat, b > 0
  PROVE  \E d \in Nat, r \in Nat : d = n \div b /\ r = (n % b) /\ r < b /\ n = b * d + r
<1>1. n \div b \in Nat /\ (n % b) \in Nat /\ (n % b) < b /\ n = b * (n \div b) + (n % b)
  OBVIOUS
<1> QED
  BY <1>1

LEMMA Multiple ==
  ASSUME NEW b \in Nat, b > 0, NEW x \in Int, x >= 1
  PROVE  b * x >= b
OBVIOUS

\* A multiple of b does not change the remainder.
LEMMA ModAdd ==
  ASSUME NEW a \in Nat, NEW q \in Nat, NEW b \in Nat, b > 0
  PROVE  (a + b * q) % b = (a % b)
<1> DEFINE c == a + b * q
<1>0. c \in Nat
  OBVIOUS
<1>1. PICK d \in Nat, r \in Nat : r = (a % b) /\ r < b /\ a = b * d + r
  BY Division
<1> HIDE DEF c
<1>2. PICK e \in Nat, s \in Nat : s = (c % b) /\ s < b /\ c = b * e + s
  BY <1>0, Division
<1>3. b * (d + q - e) = s - r
  BY <1>1, <1>2 DEF c
<1>4. ~(d + q - e >= 1)
  BY <1>1, <1>2, <1>3, Multiple
<1>5. ~(e - d - q >= 1)
  <2>1. b * (e - d - q) = r - s
    BY <1>3
  <2> QED
    BY <1>1, <1>2, <2>1, Multiple
<1>6. d + q - e = 0
  BY <1>4, <1>5
<1> QED
  BY <1>1, <1>2, <1>3, <1>6 DEF c

\* One round of the folding: m has the same remainder and is smaller.
LEMMA Round ==
  ASSUME NEW n \in Nat, n >= WordBase
  PROVE  LET m == (n % WordBase) + (n \div WordBase)
             q == n \div WordBase
         IN  m \in Nat /\ m < n /\ m >= 1 /\ q \in Nat /\ n = m + (WordBase - 1) * q
<1>1. PICK q \in Nat, r \in Nat :
        q = n \div WordBase /\ r = (n % WordBase) /\ r < WordBase /\ n = WordBase * q + r
  BY WordFact, Division
<1>2. q >= 1
  <2>1. q # 0
    <3>1. q = 0 => WordBase * q = 0
      BY WordFact
    <3> QED
      BY <1>1, <3>1, WordFact
  <2> QED
    BY <2>1
<1>3. (WordBase - 1) * q = WordBase * q - q
  BY WordFact
<1>4. (WordBase - 1) * q >= WordBase - 1
  BY <1>2, WordFact, Multiple
<1> QED
  BY <1>1, <1>2, <1>3, <1>4, WordFact

\* What fold is defined by; a function that satisfies it is the remainder, with
\* the largest word in the place of zero.
FoldEquation(f) ==
  f = [n \in Nat |-> IF n < WordBase THEN n ELSE f[(n % WordBase) + (n \div WordBase)]]

LEMMA FoldExists == \E f : FoldEquation(f)
<1> DEFINE b == WordBase - 1
           f == [n \in Nat |-> IF n = 0 THEN 0 ELSE ((n - 1) % b) + 1]
<1>1. b \in Nat /\ b > 0
  BY WordFact
<1>2. ASSUME NEW n \in Nat, n < WordBase PROVE f[n] = n
  <2>1. CASE n = 0
    BY <2>1
  <2>2. CASE n # 0
    <3>1. n - 1 \in Nat /\ n - 1 < b
      BY <1>2, <2>2, WordFact
    <3> DEFINE p == n - 1
    <3> HIDE DEF b, p
    <3>2. PICK d \in Nat, r \in Nat : r = (p % b) /\ r < b /\ p = b * d + r
      BY <1>1, <3>1, Division DEF p
    <3> USE DEF b, p
    <3>3. d = 0
      <4>1. d >= 1 => b * d >= b
        BY <1>1, Multiple
      <4> QED
        BY <1>1, <3>1, <3>2, <4>1
    <3>4. n - 1 = r
      <4>1. b * d = 0
        BY <1>1, <3>3
      <4> QED
        BY <3>2, <4>1
    <3> QED
      BY <2>2, <3>2, <3>4
  <2> QED
    BY <2>1, <2>2
<1>3. ASSUME NEW n \in Nat, n >= WordBase
      PROVE  f[n] = f[(n % WordBase) + (n \div WordBase)]
  <2>1. PICK m \in Nat, q \in Nat :
          m = (n % WordBase) + (n \div WordBase) /\ m >= 1 /\ n = m + b * q
    BY <1>3, Round
  <2>2. m - 1 \in Nat /\ n - 1 = (m - 1) + b * q /\ n # 0 /\ m # 0
    BY <1>1, <1>3, <2>1, WordFact
  <2>3. (((m - 1) + b * q) % b) = ((m - 1) % b)
    BY <1>1, <2>2, ModAdd
  <2>4. f[n] = ((n - 1) % b) + 1 /\ f[m] = ((m - 1) % b) + 1
    BY <2>2
  <2> QED
    BY <2>1, <2>2, <2>3, <2>4
<1>4. \A n \in Nat : (n % WordBase) + (n \div WordBase) \in Nat
  BY WordFact, Division
<1>5. f = [n \in Nat |-> f[n]]
  OBVIOUS
<1> HIDE DEF f
<1>6. \A n \in Nat : f[n] = IF n < WordBase THEN n
                            ELSE f[(n % WordBase) + (n \div WordBase)]
  BY <1>2, <1>3, WordFact
<1>7. f = [n \in Nat |-> IF n < WordBase THEN n ELSE f[(n % WordBase) + (n \div WordBase)]]
  BY <1>5, <1>6
<1> QED
  BY <1>7 DEF FoldEquation

LEMMA FoldDefined == FoldEquation(fold)
<1>1. fold = CHOOSE f : FoldEquation(f)
  BY Zenon DEF fold, FoldEquation
<1> QED
  BY <1>1, FoldExists, Zenon

\* The folding gives a word with the remainder of the sum.
LEMMA FoldedSum ==
  ASSUME NEW total \in Nat
  PROVE  fold[total] \in 0 .. WordBase - 1 /\ \E k \in Nat : total = fold[total] + (WordBase - 1) * k
<1> DEFINE Good(n) == fold[n] \in 0 .. WordBase - 1
                      /\ \E k \in Nat : n = fold[n] + (WordBase - 1) * k
           Bad == {n \in Nat : ~Good(n)}
<1>1. \A n \in Nat : fold[n] = IF n < WordBase THEN n
                               ELSE fold[(n % WordBase) + (n \div WordBase)]
  BY FoldDefined DEF FoldEquation
<1>2. ASSUME NEW n \in Nat, \A m \in Nat : m < n => Good(m) PROVE Good(n)
  <2>1. CASE n < WordBase
    <3>1. fold[n] = n
      BY <1>1, <2>1
    <3>2. n = n + (WordBase - 1) * 0
      BY WordFact
    <3> QED
      BY <2>1, <3>1, <3>2, WordFact
  <2>2. CASE n >= WordBase
    <3>1. PICK m \in Nat, q \in Nat : /\ m = (n % WordBase) + (n \div WordBase)
                                      /\ m < n /\ n = m + (WordBase - 1) * q
      BY <2>2, Round
    <3>2. fold[n] = fold[m]
      <4>1. ~(n < WordBase)
        BY <2>2, WordFact
      <4>2. fold[n] = fold[(n % WordBase) + (n \div WordBase)]
        BY <1>1, <4>1, Zenon
      <4> QED
        BY <3>1, <4>2, Zenon
    <3>3. Good(m)
      BY <1>2, <3>1
    <3>4. PICK k \in Nat : m = fold[m] + (WordBase - 1) * k
      BY <3>3
    <3>5. (WordBase - 1) * (k + q) = (WordBase - 1) * k + (WordBase - 1) * q
      BY WordFact
    <3>6. k + q \in Nat /\ n = fold[n] + (WordBase - 1) * (k + q)
      BY <3>1, <3>2, <3>3, <3>4, <3>5, WordFact
    <3> QED
      BY <3>2, <3>3, <3>6
  <2> QED
    BY <2>1, <2>2, WordFact
<1> HIDE DEF Good
<1>3. Bad = {}
  <2> SUFFICES ASSUME Bad # {} PROVE FALSE
    OBVIOUS
  <2>1. PICK n \in Bad : \A m \in Bad : n <= m
    BY LeastNat
  <2>2. \A m \in Nat : m < n => Good(m)
    BY <2>1
  <2> QED
    BY <1>2, <2>1, <2>2
<1>4. Good(total)
  BY <1>3
<1> QED
  BY <1>4 DEF Good

\* A sum and the complement of what it folds to add up to minus zero.
LEMMA ChecksumVerifies ==
  ASSUME NEW total \in Nat
  PROVE  (total + Complement(fold[total])) % (WordBase - 1) = 0
<1>1. PICK f \in Nat, k \in Nat :
        f = fold[total] /\ f <= WordBase - 1 /\ total = f + (WordBase - 1) * k
  <2>1. PICK f \in 0 .. WordBase - 1 : f = fold[total]
    BY FoldedSum
  <2>2. PICK k \in Nat : total = f + (WordBase - 1) * k
    BY <2>1, FoldedSum
  <2>3. f \in Nat /\ f <= WordBase - 1
    BY WordFact
  <2> QED
    BY <2>1, <2>2, <2>3
<1> DEFINE b == WordBase - 1
<1>2. total + Complement(fold[total]) = 0 + b * (k + 1)
  <2>1. b * (k + 1) = b * k + b
    BY WordFact
  <2> QED
    BY <1>1, <2>1, WordFact DEF Complement
<1>3. (0 + b * (k + 1)) % b = (0 % b)
  BY WordFact, ModAdd
<1>4. 0 % b = 0
  BY WordFact
<1> QED
  BY <1>2, <1>3, <1>4

LEMMA SynVerifies ==
  ASSUME NEW j \in Jobs, NEW sport \in SrcPorts, NEW seq \in SeqNumbers
  PROVE  Verifies(SYN(j, sport, seq))
<1>1. j.port \in Nat /\ sport \in Nat /\ seq \in Nat /\ Constant \in Nat
  BY SynAssumption DEF SynAssumption
<1>2. PICK t \in Nat : t = Constant + sport + j.port + seq
  BY <1>1
<1>3. PICK syn : syn = SYN(j, sport, seq)
  OBVIOUS
<1>4. syn.sport = sport /\ syn.to.port = j.port /\ syn.seq = seq /\ syn.sum = Complement(fold[t])
  BY <1>2, <1>3 DEF SYN, Checksum, Folded
<1>5. (t + Complement(fold[t])) % (WordBase - 1) = 0
  BY ChecksumVerifies
<1>6. Constant + syn.sport + syn.to.port + syn.seq + syn.sum = t + Complement(fold[t])
  BY <1>2, <1>4
<1> QED
  BY <1>3, <1>5, <1>6 DEF Verifies

\* syn_linux.go:149-171: every SYN that leaves passes the receiver's test, for
\* every port, sequence number and width of a word.
THEOREM SynsVerify == Spec => []SynsWellFormed
<1>1. Init => SynsWellFormed
  BY DEF Init, SynsWellFormed
<1>2. SynsWellFormed /\ [Next]_vars => SynsWellFormed'
  <2> SUFFICES ASSUME SynsWellFormed, [Next]_vars, NEW syn \in syns' PROVE Verifies(syn)
    BY DEF SynsWellFormed
  <2>1. CASE syn \in syns
    BY <2>1 DEF SynsWellFormed
  <2>2. ASSUME NEW j \in Jobs, Send(j), syn \notin syns PROVE Verifies(syn)
    <3>1. PICK sport \in SrcPorts, seq \in SeqNumbers : syn = SYN(j, sport, seq)
      BY <2>2 DEF Send
    <3> QED
      BY <3>1, SynVerifies
  <2>3. syns' \subseteq syns \/ \E j \in Jobs : Send(j)
    BY StepKinds DEF Begin, Resolved, Concludes, Conclude, Wait, PassOver, Answer, Arrive, Pass, Cancel, Tick, vars
  <2> QED
    BY <2>1, <2>2, <2>3
<1> QED
  BY <1>1, <1>2, PTL DEF Spec
=============================================================================
