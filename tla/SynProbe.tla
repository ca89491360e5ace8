------------------------------- MODULE SynProbe -------------------------------
(***************************************************************************)
(* -syn: some workers inside synProbe (syn_linux.go) at the same time.     *)
(* Each has a raw socket, and every raw socket gets a copy of every TCP    *)
(* packet that reaches this machine: answers to the other probes, traffic  *)
(* of other programs and, when the target is this machine, the probes'     *)
(* own packets.  A probe recognises its answer by address and ports; its   *)
(* source port is a random number that nobody reserves.  Packets get lost, *)
(* repeated and overtaken.  A host given by a name is looked up first, by  *)
(* a call that heeds neither -timeout nor the context.  Time advances in   *)
(* ticks, and only when every goroutine is waiting: the steps of the       *)
(* program take none.                                                      *)
(***************************************************************************)
EXTENDS Integers, Sequences, FiniteSets

CONSTANTS
  Jobs,        \* what is probed: records with a host and a port
  Named,       \* the jobs whose host is given by a name, not by its address
  Local,       \* the hosts that are this machine
  SrcPorts,    \* the numbers rand.Intn may give
  SeqNumbers,  \* likewise for the sequence number
  Traffic,     \* packets of other programs' connections that may arrive
  Timeout,     \* -timeout, in ticks: nothing checks its sign
  Resolver,    \* ticks until net.LookupIP gives up
  Buffer,      \* bound: packets a raw socket keeps; the kernel drops the rest
  WordBase,    \* what a word of the checksum is less than: 2^16
  Constant,    \* what the fixed words of segment and pseudo header add up to
  NoPort,      \* a probe that has not chosen its source port
  NoResult     \* a probe that has not ended

States == {"open", "closed", "filtered"}
Causes == {"network", "cancel", "local"}

SynAssumption ==
  /\ IsFiniteSet(Jobs)
  /\ \A j \in Jobs : j = [host |-> j.host, port |-> j.port] /\ j.port \in Nat
  /\ SrcPorts \subseteq Nat \ {0} /\ SeqNumbers \subseteq Nat /\ NoPort \notin Nat
  /\ \A p \in Traffic : {p.sport, p.dport} \subseteq Nat
  /\ Timeout \in Int /\ Resolver \in Nat /\ Named \subseteq Jobs
  /\ Buffer \in Nat \ {0} /\ WordBase \in Nat \ {0, 1} /\ Constant \in Nat
  /\ NoResult \notin [job : Jobs, state : States, cause : Causes]

ASSUME SynAssumption

VARIABLES
  listening,  \* the jobs whose port accepts connections
  pc,         \* of each probe
  srcPort,    \* its source port
  inbox,      \* what its raw socket holds
  age,        \* ticks since its SYN left
  waited,     \* ticks since its call of LookupIP or Recvfrom began
  late,       \* ticks it has waited since ctx.Done() was closed
  result,     \* what it returned
  syns,       \* SYN segments on their way to a target
  wire,       \* packets on their way to this machine
  cancelled   \* ctx.Done() is closed

clocks == <<age, waited, late>>
probes == <<pc, srcPort, inbox, clocks, result>>
vars == <<listening, probes, syns, wire, cancelled>>

Segment(from, sport, dport, flags) ==
  [from |-> from, sport |-> sport, dport |-> dport, flags |-> flags]

GoTo(j, place) == pc' = [pc EXCEPT ![j] = place]
Places == {"lookup", "prepare", "top", "recv"}
Inside == {j \in Jobs : pc[j] \in Places}
Listeners == {j \in Jobs : pc[j] \in {"top", "recv"}}

-----------------------------------------------------------------------------
(* buildSYN and tcpChecksum: the complement of a sum with end-around carry *)

Complement(word) == WordBase - 1 - word

\* Mutant of Folded: the carry of the folding itself is lost.
FoldedOnce(sum) == ((sum % WordBase) + (sum \div WordBase)) % WordBase

fold[n \in Nat] == IF n < WordBase THEN n ELSE fold[(n % WordBase) + (n \div WordBase)]
Folded(sum) == fold[sum]

Checksum(sport, dport, seq) == Complement(Folded(Constant + sport + dport + seq))

SYN(j, sport, seq) ==
  [to |-> j, sport |-> sport, seq |-> seq, sum |-> Checksum(sport, j.port, seq)]

\* What the receiving TCP verifies, stated without the carries: the words add up
\* to minus zero.  It ignores a segment that fails the test.
Verifies(syn) ==
  (Constant + syn.sport + syn.to.port + syn.seq + syn.sum) % (WordBase - 1) = 0

-----------------------------------------------------------------------------
Init ==
  /\ listening \in SUBSET Jobs
  /\ pc = [j \in Jobs |-> "idle"]
  /\ srcPort = [j \in Jobs |-> NoPort]
  /\ inbox = [j \in Jobs |-> <<>>]
  /\ age = [j \in Jobs |-> 0] /\ waited = [j \in Jobs |-> 0] /\ late = [j \in Jobs |-> 0]
  /\ result = [j \in Jobs |-> NoResult]
  /\ syns = {} /\ wire = {}
  /\ cancelled = FALSE

Enter(j) ==
  /\ GoTo(j, IF j \in Named THEN "lookup" ELSE "prepare")
  /\ UNCHANGED <<listening, srcPort, inbox, clocks, result, syns, wire, cancelled>>

\* Mutant of Begin: a filtered port is probed once more.
BeginAgain(j) ==
  /\ pc[j] = "idle" \/ (pc[j] = "done" /\ result[j].state = "filtered")
  /\ Enter(j)

\* A worker calls synProbe.
Begin(j) == pc[j] = "idle" /\ Enter(j)

\* synProbe returns; its socket is closed.
Conclude(j, state, cause) ==
  /\ result' = [result EXCEPT ![j] = [job |-> j, state |-> state, cause |-> cause]]
  /\ GoTo(j, "done")
  /\ inbox' = [inbox EXCEPT ![j] = <<>>]
  /\ age' = [age EXCEPT ![j] = 0]
  /\ waited' = [waited EXCEPT ![j] = 0] /\ late' = [late EXCEPT ![j] = 0]
  /\ UNCHANGED <<listening, srcPort, syns, wire, cancelled>>

\* net.LookupIP has an address of the host.  Nobody looks at the context.
Resolved(j) ==
  /\ pc[j] = "lookup"
  /\ GoTo(j, "prepare")
  /\ waited' = [waited EXCEPT ![j] = 0]
  /\ UNCHANGED <<listening, srcPort, inbox, age, late, result, syns, wire, cancelled>>

\* resolveIPv4 finds no IPv4 address: there is no such name, or the resolver gave
\* up, or the host is an address of IPv6.
NoAddress(j) ==
  /\ pc[j] = "lookup" \/ (pc[j] = "prepare" /\ j \notin Named)
  /\ Conclude(j, "closed", "local")

\* No route, no raw socket or no permission to send.
Unsent(j) == pc[j] = "prepare" /\ Conclude(j, "filtered", "local")

\* (On this machine the SYN comes back to the raw sockets as well.  Like every
\* packet that is passed over it only restarts the wait, which Traffic shows.)
Send(j) ==
  /\ pc[j] = "prepare"
  /\ \E sport \in SrcPorts, seq \in SeqNumbers :
       /\ srcPort' = [srcPort EXCEPT ![j] = sport]
       /\ syns' = syns \cup {SYN(j, sport, seq)}
  /\ GoTo(j, "top")
  /\ UNCHANGED <<listening, inbox, age, waited, late, result, wire, cancelled>>

\* Mutant of Expired: the loop has no deadline of its own.
NeverExpired(j) == FALSE

Expired(j) == age[j] >= Timeout

\* The head of the loop: the deadline, then the context, then Recvfrom.
Top(j) ==
  /\ pc[j] = "top"
  /\ \/ Expired(j) /\ Conclude(j, "filtered", "network")
     \/ ~Expired(j) /\ cancelled /\ Conclude(j, "filtered", "cancel")
     \/ /\ ~Expired(j) /\ ~cancelled
        /\ GoTo(j, "recv")
        /\ waited' = [waited EXCEPT ![j] = 0]
        /\ UNCHANGED <<listening, srcPort, inbox, age, late, result, syns, wire, cancelled>>

\* Mutant of Ours: the port the packet is sent to is not compared.
OursFromPort(j, p) == p.from = j.host /\ p.sport = j.port

\* What is too short, not TCP, or from or for another port is passed over.
Ours(j, p) == p.from = j.host /\ p.sport = j.port /\ p.dport = srcPort[j]

IsReset(j, p) == Ours(j, p) /\ p.flags = "RST"
IsSynAck(j, p) == Ours(j, p) /\ p.flags = "SYN-ACK"

Receive(j) ==
  /\ pc[j] = "recv" /\ inbox[j] # <<>>
  /\ LET p == Head(inbox[j])
     IN  \/ IsReset(j, p) /\ Conclude(j, "closed", "network")
         \/ IsSynAck(j, p) /\ Conclude(j, "open", "network")
         \/ /\ ~IsReset(j, p) /\ ~IsSynAck(j, p)
            /\ inbox' = [inbox EXCEPT ![j] = Tail(@)]
            /\ GoTo(j, "top")
            /\ UNCHANGED <<listening, srcPort, clocks, result, syns, wire, cancelled>>

\* SO_RCVTIMEO: each call waits for -timeout, whatever is left of the deadline.
ReceiveTimeout(j) ==
  /\ pc[j] = "recv" /\ inbox[j] = <<>>
  /\ waited[j] = Timeout
  /\ Conclude(j, "filtered", "network")

\* A call with SO_RCVTIMEO that a signal interrupts is not restarted, and any
\* error ends the loop.
ReceiveError(j) ==
  /\ pc[j] = "recv"
  /\ Conclude(j, "filtered", "local")

-----------------------------------------------------------------------------
(* The network.  A segment that a filter drops or that gets lost is one     *)
(* that stays in syns or in wire: nothing obliges it to arrive.            *)

\* A target answers a SYN.
Answer(syn) ==
  /\ syn \in syns
  /\ syns' = syns \ {syn}
  /\ LET j == syn.to
         reply == IF j \in listening THEN "SYN-ACK" ELSE "RST"
     IN  wire' = IF Verifies(syn) THEN wire \cup {Segment(j.host, j.port, syn.sport, reply)}
                 ELSE wire
  /\ UNCHANGED <<listening, probes, cancelled>>

\* The kernel knows no connection for a SYN-ACK and resets it; on this machine
\* that segment, too, comes back to the raw sockets.
Reset(p) ==
  IF p.flags = "SYN-ACK" /\ p.from \in Local
  THEN {Segment(p.from, p.dport, p.sport, "RST")} ELSE {}

Deliver(p) ==
  inbox' = [j \in Jobs |-> IF j \in Listeners /\ Len(inbox[j]) < Buffer
                           THEN Append(inbox[j], p) ELSE inbox[j]]

\* Every raw socket gets a copy.
Arrive(p) ==
  /\ p \in wire
  /\ Deliver(p)
  /\ wire' = (wire \ {p}) \cup Reset(p)
  /\ UNCHANGED <<listening, pc, srcPort, clocks, result, syns, cancelled>>

\* A packet of another program's connection, at any time; only a port that
\* listens has accepted one.
Pass(p) ==
  /\ p \in Traffic
  /\ p.flags = "SYN-ACK" => \A j \in Jobs : j.host = p.from /\ j.port = p.sport => j \in listening
  /\ Deliver(p)
  /\ UNCHANGED <<listening, pc, srcPort, clocks, result, syns, wire, cancelled>>

Cancel ==
  /\ ~cancelled
  /\ cancelled' = TRUE
  /\ UNCHANGED <<listening, probes, syns, wire>>

Waiting(j) ==
  \/ pc[j] = "lookup" /\ waited[j] < Resolver
  \/ pc[j] = "recv" /\ inbox[j] = <<>> /\ waited[j] < Timeout

Tick ==
  /\ Inside # {} /\ \A j \in Inside : Waiting(j)
  /\ age' = [j \in Jobs |-> IF j \in Listeners THEN age[j] + 1 ELSE age[j]]
  /\ waited' = [j \in Jobs |-> IF j \in Inside THEN waited[j] + 1 ELSE waited[j]]
  /\ late' = [j \in Jobs |-> IF j \in Inside /\ cancelled THEN late[j] + 1 ELSE late[j]]
  /\ UNCHANGED <<listening, pc, srcPort, inbox, result, syns, wire, cancelled>>

Ended == (\A j \in Jobs : pc[j] = "done") /\ UNCHANGED vars

ProbeStep(j) ==
  \/ Begin(j) \/ Resolved(j) \/ NoAddress(j) \/ Unsent(j) \/ Send(j)
  \/ Top(j) \/ Receive(j) \/ ReceiveTimeout(j) \/ ReceiveError(j)

Next ==
  \/ \E j \in Jobs : ProbeStep(j)
  \/ \E syn \in syns : Answer(syn)
  \/ \E p \in wire : Arrive(p)
  \/ \E p \in Traffic : Pass(p)
  \/ Cancel \/ Tick \/ Ended

Spec == Init /\ [][Next]_vars

-----------------------------------------------------------------------------
\* Somebody else's packets from port j may carry the source port of probe j:
\* those of another program's connection to it, or, on this machine, those of a
\* probe that chose port j for its source and whose target is j's source.
Mistakable(j) ==
  \/ \E p \in Traffic : p.from = j.host /\ p.sport = j.port /\ p.dport = srcPort[j]
  \/ \E k \in Jobs : k.host = j.host /\ srcPort[k] = j.port /\ srcPort[j] = k.port

\* An answer is attributed to the probe it answers, among the copies every raw
\* socket gets: "open" is a port that listens, and "closed" one that does not,
\* unless the random source port was another connection's.
VerdictExact ==
  \A j \in Jobs : result[j] # NoResult /\ result[j].cause = "network" =>
    /\ result[j].state = "open" => j \in listening
    /\ result[j].state = "closed" => j \notin listening \/ Mistakable(j)

LookupTime(j) == IF j \in Named THEN Resolver ELSE 0

\* A probe outlives -timeout, because every packet of somebody else restarts
\* the wait of the socket, but from its SYN on it ends before twice the time.
\* (Before that it waits for the name of its host for as long as the resolver
\* pleases, which is not up to -timeout.)  After Ctrl+C, which interrupts neither
\* Recvfrom nor the lookup, it waits for -timeout or for the resolver, but not for
\* one after the other.
WaitsBounded ==
  \A j \in Jobs :
    /\ age[j] > 0 => age[j] < 2 * Timeout
    /\ late[j] <= LookupTime(j) \/ late[j] <= Timeout

\* Every SYN on the wire passes the test of its receiver, whatever the random
\* port and sequence number: the sum needs all of its carries.
SynsWellFormed == \A syn \in syns : Verifies(syn)

\* The workers in synProbe do to each job what the contract of a scan allows:
\* one result each, with a cause that explains it.
Results == {result[j] : j \in Jobs} \ {NoResult}
Contract == INSTANCE ScanContract WITH
  ckptDone <- {},
  todo <- {j \in Jobs : pc[j] = "idle"},
  taken <- Inside,
  reported <- Results,
  finished <- FALSE
ImplementsContract == Contract!Init /\ [][Contract!Next]_(Contract!contractVars)
=============================================================================
