----------------------------- MODULE ConnectProbe -----------------------------
(***************************************************************************)
(* One call of probe() for a connection (fastTCPScan.go, everything but    *)
(* -syn): the attempts, the dial, directly or through a SOCKS5 proxy, the  *)
(* reading of a banner, the second connection of -tls, and the exchange    *)
(* over UDP.  The proxy, the service and the network do what they like:    *)
(* answer, stop in the middle of a reply, close, or say nothing.  Time     *)
(* advances in ticks, only while the probe is blocked.                     *)
(***************************************************************************)
EXTENDS Integers, Sequences, Socks5

CONSTANTS
  Job,         \* the host and port
  Settings,    \* the invocations: records of the fields in SettingsType
  SystemTime,  \* ticks until a dial ends that has no limit of its own (external)
  ReadTime,    \* 750 ms for a banner and one second for -sV, in ticks
  MaxService   \* bound: how much a service says on a connection

SettingsType ==
  [via : {"direct", "proxy", "udp"},
   timeout : Int,          \* -timeout in ticks, and -retries: nothing checks
   retries : Int,          \* their signs
   overlong : BOOLEAN,     \* the host's name is longer than 255 bytes
   read : BOOLEAN,         \* -sV or -banner
   http : BOOLEAN,         \* isHTTPPort
   tls : BOOLEAN]          \* -tls

ConnectAssumption ==
  /\ Settings \subseteq SettingsType
  /\ SystemTime \in Nat /\ {ReadTime, MaxService} \subseteq Nat \ {0}

ASSUME ConnectAssumption

VARIABLES
  set,        \* this invocation
  listening,  \* the port accepts connections
  pc, leg,    \* the place, and the dial it belongs to: "main" or "tls"
  attempt, cause,   \* dials that failed, and why the last one did
  fds,        \* the descriptors the probe holds
  down,       \* bytes of the current connection the probe has not read
  skip,       \* bytes of BND.ADDR and BND.PORT
  proxy,      \* the other end: what it has to answer, or what it has done
  said,       \* bytes the service has sent on the current connection
  banner,     \* the bytes taken for the service's
  left,       \* ticks to the deadline of the dial, the handshake or the read
  age,        \* ticks since the probe began
  cancelled, late,   \* ctx.Done() is closed, and for how many ticks
  result

loop == <<leg, attempt, cause>>
peer == <<proxy, said>>
clock == <<age, cancelled, late>>
vars == <<set, listening, pc, loop, fds, down, skip, peer, banner, left, clock, result>>

\* The i-th byte a service sends; its value tells it from a proxy's byte.
Service(i) == 255 + i
Said(n) == [i \in 1 .. n |-> Service(i)]

Init ==
  /\ set \in Settings /\ listening \in BOOLEAN
  /\ pc = "idle" /\ leg = "main" /\ attempt = 0 /\ cause = "none"
  /\ fds = 0 /\ down = <<>> /\ skip = 0
  /\ proxy = "off" /\ said = 0
  /\ banner = <<>>
  /\ left = 0 /\ age = 0 /\ cancelled = FALSE /\ late = 0
  /\ result = {}

Begin ==
  /\ pc = "idle"
  /\ pc' = "attempt"
  /\ UNCHANGED <<set, listening, loop, fds, down, skip, peer, banner, left, clock, result>>

\* probe() returns; what it deferred closes the connections it holds.
Return(state, why, held) ==
  /\ result' = {[job |-> Job, state |-> state, cause |-> why]}
  /\ pc' = "done"
  /\ fds' = fds - held
  /\ proxy' = "off" /\ down' = <<>> /\ left' = 0
  /\ UNCHANGED <<set, listening, loop, skip, said, banner, clock>>

\* How long a dial may take: net.Dialer takes 0 for no limit, and the operating
\* system has the last word.
DialLimit ==
  IF set.timeout = 0 THEN SystemTime ELSE IF set.timeout > 0 THEN set.timeout ELSE 0

\* How long a connection with a deadline of -timeout from now on may be waited
\* for: a deadline that is not in the future has expired.
Limit == IF set.timeout > 0 THEN set.timeout ELSE 0

-----------------------------------------------------------------------------
(* The loop over the attempts                                              *)

MayTry == attempt <= set.retries

\* With negative -retries the loop is never entered, and the deferred Close is
\* called on no connection.
Attempt ==
  /\ pc = "attempt"
  /\ \/ /\ MayTry /\ ~cancelled
        /\ pc' = "dial" /\ left' = DialLimit
        /\ UNCHANGED <<set, listening, loop, fds, down, skip, peer, banner, clock, result>>
     \/ MayTry /\ cancelled /\ Return("closed", "cancel", 0)
     \/ ~MayTry /\ attempt > 0 /\ Return("closed", cause, 0)
     \/ /\ ~MayTry /\ attempt = 0
        /\ pc' = "panic"
        /\ UNCHANGED <<set, listening, loop, fds, down, skip, peer, banner, left, clock, result>>

\* dialContext returns an error, after it has closed what it opened.  grabTLS
\* gives up; the loop tries again.
DialError(why, opened) ==
  \/ leg = "tls" /\ Return("open", "network", opened + 1)
  \/ /\ leg = "main"
     /\ attempt' = attempt + 1 /\ cause' = why
     /\ pc' = "attempt"
     /\ fds' = fds - opened
     /\ proxy' = "off" /\ down' = <<>> /\ left' = 0
     /\ UNCHANGED <<set, listening, leg, skip, said, banner, clock, result>>

\* Mutant of DialFailsHere: over UDP, an error is taken for silence.
DialFailsSilently ==
  /\ pc = "dial"
  /\ \/ set.via = "udp" /\ Return("open|filtered", "local", 0)
     \/ set.via # "udp" /\ DialError(IF cancelled THEN "cancel" ELSE "local", 0)

\* No descriptor, no such name, no proxy, no time: nothing the port has answered for.
DialFailsHere == pc = "dial" /\ DialError(IF cancelled THEN "cancel" ELSE "local", 0)

\* A dial whose deadline is over before it begins does not begin.
MayConnect == set.timeout >= 0

\* A port that refuses; or nothing comes back, from the port or from the proxy.
DialRefused ==
  /\ pc = "dial" /\ set.via = "direct" /\ MayConnect
  /\ ~listening \/ left = 0
  /\ DialError("network", 0)

DialProxyTimeout == pc = "dial" /\ set.via = "proxy" /\ left = 0 /\ DialError("local", 0)

-----------------------------------------------------------------------------
(* What a successful dial leads to                                         *)

\* The descriptor and the buffers of a new connection.
Opened == fds' = fds + 1 /\ down' = <<>> /\ said' = 0

GoOn(place, ticks) ==
  /\ pc' = place /\ left' = ticks
  /\ UNCHANGED <<set, listening, attempt, cause, skip, clock>>

\* After the reading, or instead of it: -tls dials again, or it is over.
Finish ==
  \/ /\ set.tls
     /\ GoOn("dial", DialLimit)
     /\ leg' = "tls"
     /\ UNCHANGED <<fds, down, peer, banner, result>>
  \/ ~set.tls /\ Return("open", "network", 1)

\* dialContext has returned a connection: the wait of what is done with it.
Connected ==
  LET place == IF leg = "tls" THEN "tls" ELSE IF set.read THEN "read" ELSE "finish"
  IN  GoOn(place, CASE place = "tls" -> Limit [] place = "read" -> ReadTime [] OTHER -> 0)

DialDirect ==
  /\ pc = "dial" /\ set.via = "direct" /\ listening /\ MayConnect /\ ~cancelled
  /\ Opened /\ proxy' = "relay"
  /\ Connected
  /\ UNCHANGED <<leg, banner, result>>

\* A socket for UDP needs no answer.
DialUDP ==
  /\ pc = "dial" /\ set.via = "udp" /\ MayConnect /\ ~cancelled
  /\ Opened /\ proxy' = "relay"
  /\ GoOn("udp", Limit)
  /\ UNCHANGED <<leg, banner, result>>

\* One deadline for the whole handshake; the greeting is written.
DialProxy ==
  /\ pc = "dial" /\ set.via = "proxy" /\ MayConnect /\ ~cancelled
  /\ Opened /\ proxy' = "method"
  /\ GoOn("method", Limit)
  /\ UNCHANGED <<leg, banner, result>>

-----------------------------------------------------------------------------
(* socks.handshake                                                         *)

\* Mutant of HandshakeError: dial forgets to close the connection.
HandshakeLeaks(why) == DialError(why, 0)

HandshakeError(why) == DialError(why, 1)

\* Mutant of LeftAfterRead: every read gets a deadline of its own.
LeftRenewed == Limit

LeftAfterRead == left

Needs(place) ==
  CASE place \in {"method", "auth"} -> 2 [] place = "head" -> 4
    [] place = "length" -> 1 [] place = "bind" -> skip
Handshake == {"method", "auth", "head", "length", "bind"}

\* With a deadline that is over from the start no byte is looked at.
Complete == Limit > 0 /\ Len(down) >= Needs(pc)

\* A write to an end that has gone is noticed by the read after it.
Proceed(place, owed) ==
  /\ down' = Rest(down, Needs(pc))
  /\ pc' = place /\ left' = LeftAfterRead
  /\ proxy' = IF proxy = "waits" THEN owed ELSE proxy
  /\ UNCHANGED <<set, listening, loop, fds, said, banner, clock, result>>

AskConnect ==
  \/ set.overlong /\ HandshakeError("local")
  \/ ~set.overlong /\ Proceed("head", "connect") /\ UNCHANGED skip

\* The end of file or the deadline before the read is complete.
ReadFails ==
  /\ pc \in Handshake
  /\ ~Complete
  /\ proxy = "closed" \/ left = 0
  /\ HandshakeError("local")

ReadMethod ==
  /\ pc = "method" /\ Complete
  /\ LET method == down[2]
     IN  \/ down[1] = 5 /\ method = 0 /\ AskConnect
         \/ down[1] = 5 /\ method = 2 /\ Proceed("auth", "auth") /\ UNCHANGED skip
         \/ (down[1] # 5 \/ method \notin {0, 2}) /\ HandshakeError("local")

ReadAuth ==
  /\ pc = "auth" /\ Complete
  /\ \/ down[2] = 0 /\ AskConnect
     \/ down[2] # 0 /\ HandshakeError("local")

Accepts(head) == head[2] = 0

ReadHead ==
  /\ pc = "head" /\ Complete
  /\ LET head == Taken(down, 4)
         atyp == head[4]
     IN  \/ ~Accepts(head) /\ HandshakeError("network")
         \/ /\ Accepts(head) /\ atyp \in {1, 4}
            /\ Proceed("bind", "relay") /\ skip' = SkipOf(atyp, 0)
         \/ Accepts(head) /\ atyp = 3 /\ Proceed("length", "relay") /\ UNCHANGED skip
         \/ Accepts(head) /\ atyp \notin {1, 3, 4} /\ HandshakeError("local")

ReadLength ==
  /\ pc = "length" /\ Complete
  /\ Proceed("bind", "relay") /\ skip' = SkipOf(3, down[1])

\* The deadline is taken off the connection.
ReadBind ==
  /\ pc = "bind" /\ Complete
  /\ down' = Rest(down, skip)
  /\ Connected
  /\ UNCHANGED <<leg, fds, peer, banner, result>>

-----------------------------------------------------------------------------
(* grabBanner and detectVersion, grabTLS, UDP                              *)

Finishes == pc = "finish" /\ Finish

ReadSome ==
  /\ pc \in {"read", "reread"} /\ down # <<>>
  /\ banner' = down /\ down' = <<>>
  /\ GoOn("finish", 0)
  /\ UNCHANGED <<leg, fds, peer, result>>

\* Nobody greeted: a web server is asked for its page, and read once more.
ReadNothing ==
  /\ pc \in {"read", "reread"} /\ down = <<>>
  /\ proxy = "closed" \/ left = 0
  /\ LET again == pc = "read" /\ set.http
     IN  GoOn(IF again THEN "reread" ELSE "finish", IF again THEN ReadTime ELSE 0)
  /\ UNCHANGED <<leg, fds, down, peer, banner, result>>

\* The handshake of TLS ends, well or not; its bytes are not looked at.
EndTLS == pc = "tls" /\ Return("open", "network", 2)

UDPExchange ==
  /\ pc = "udp"
  /\ \/ Limit > 0 /\ listening /\ Return("open", "network", 1)
     \/ Limit > 0 /\ ~listening /\ Return("closed", "network", 1)
     \/ left = 0 /\ Return("open|filtered", "network", 1)

-----------------------------------------------------------------------------
(* The proxy and the service (external), and time                          *)

Replies ==
  CASE proxy = "method" -> MethodReplies
    [] proxy = "auth" -> AuthReplies
    [] proxy = "connect" -> IF listening THEN Granted \cup Refused ELSE Refused

\* A whole reply.  After one that grants the connection the service is heard.
ProxyReplies ==
  /\ proxy \in {"method", "auth", "connect"}
  /\ \E reply \in Replies :
       /\ down' = down \o reply
       /\ proxy' = IF reply \in Granted THEN "relay" ELSE "waits"
  /\ UNCHANGED <<set, listening, pc, loop, fds, skip, said, banner, left, clock, result>>

\* The first bytes of one, and no more.
ProxyStops ==
  /\ proxy \in {"method", "auth", "connect"}
  /\ \E reply \in Replies :
       \E n \in {0, 1, Len(reply) - 1} : down' = down \o Taken(reply, n)
  /\ proxy' = "silent"
  /\ UNCHANGED <<set, listening, pc, loop, fds, skip, said, banner, left, clock, result>>

PeerCloses ==
  /\ proxy \notin {"off", "closed"} /\ set.via # "udp"
  /\ proxy' = "closed"
  /\ UNCHANGED <<set, listening, pc, loop, fds, down, skip, said, banner, left, clock, result>>

ServiceSpeaks ==
  /\ proxy = "relay" /\ set.via # "udp" /\ said < MaxService
  /\ down' = Append(down, Service(said + 1))
  /\ said' = said + 1
  /\ UNCHANGED <<set, listening, pc, loop, fds, skip, proxy, banner, left, clock, result>>

Cancel ==
  /\ ~cancelled /\ pc # "done"
  /\ cancelled' = TRUE
  /\ UNCHANGED <<set, listening, pc, loop, fds, down, skip, peer, banner, left, age, late, result>>

\* A dial ends at once when the context does; no read does.
Blocked ==
  \/ pc = "dial" /\ ~cancelled
  \/ pc \in Handshake /\ ~Complete /\ proxy # "closed"
  \/ pc \in {"read", "reread"} /\ down = <<>> /\ proxy # "closed"
  \/ pc \in {"tls", "udp"}

Tick ==
  /\ Blocked /\ left > 0
  /\ left' = left - 1 /\ age' = age + 1
  /\ late' = IF cancelled THEN late + 1 ELSE late
  /\ UNCHANGED <<set, listening, pc, loop, fds, down, skip, peer, banner, cancelled, result>>

Ended == pc \in {"done", "panic"} /\ UNCHANGED vars

ProbeStep ==
  \/ Begin \/ Attempt
  \/ DialFailsHere \/ DialRefused \/ DialProxyTimeout \/ DialDirect \/ DialUDP \/ DialProxy
  \/ ReadFails \/ ReadMethod \/ ReadAuth \/ ReadHead \/ ReadLength \/ ReadBind
  \/ Finishes \/ ReadSome \/ ReadNothing \/ EndTLS \/ UDPExchange

Next ==
  \/ ProbeStep
  \/ ProxyReplies \/ ProxyStops \/ PeerCloses \/ ServiceSpeaks
  \/ Cancel \/ Tick \/ Ended

Spec == Init /\ [][Next]_vars

-----------------------------------------------------------------------------
HandshakeTime == IF set.via = "proxy" THEN Limit ELSE 0
DialTime == DialLimit + HandshakeTime
Attempts == IF set.retries < 0 THEN 0 ELSE set.retries + 1
ReadsTime == IF set.read THEN (IF set.http THEN 2 * ReadTime ELSE ReadTime) ELSE 0
TLSTime == IF set.tls THEN DialTime + Limit ELSE 0
ExchangeTime == IF set.via = "udp" THEN Limit ELSE ReadsTime + TLSTime

\* The probe believes neither more nor less than it was told: a TCP port it
\* calls open was connected to, and what it takes for the service's words is a
\* stretch of them, with no byte of the proxy's reply in front.  Of those it has
\* read and those still unread together none is missing.
StreamAligned ==
  /\ \A r \in result : r.state = "open" => listening
  /\ set.via # "udp" /\ pc \in {"read", "reread"} => down = Said(said)
  /\ \A i \in DOMAIN banner : banner[i] = Service(i)

\* Every descriptor is given back, after an attempt and after the probe; one is
\* held at a time, two while -tls is at work; and a probe that goes on past the
\* attempts has its connection, except that negative -retries leave it none.
DescriptorsBalanced ==
  /\ pc \in {"idle", "attempt", "done"} => fds = 0
  /\ pc \in {"read", "reread", "finish", "udp"} => fds = 1
  /\ pc \in Handshake \cup {"dial", "tls"} =>
       fds = (IF leg = "tls" THEN 1 ELSE 0) + (IF pc = "dial" THEN 0 ELSE 1)
  /\ pc = "panic" => set.retries < 0

\* How long a worker may be held: the attempts, each with a dial and a
\* handshake; then the exchange over UDP, or the reads and the second connection.
\* With -timeout 0 a dial lasts as long as the operating system tries, and every
\* wait of a connection that has a deadline is over at once.
\* After Ctrl+C it is held by the handshake with the proxy, which does not listen
\* to the context, and then by the reads, or by the handshake of TLS or the answer
\* over UDP, which do not listen to it either.
WaitsBounded ==
  /\ age <= Attempts * DialTime + ExchangeTime
  /\ \/ late <= HandshakeTime + ReadsTime
     \/ (set.tls \/ set.via = "udp") /\ late <= HandshakeTime + Limit

\* A probe is what the contract of a scan says of one job.
Contract == INSTANCE ScanContract WITH
  Jobs <- {Job},
  ckptDone <- {},
  todo <- IF pc = "idle" THEN {Job} ELSE {},
  taken <- IF pc \in {"idle", "done"} THEN {} ELSE {Job},
  reported <- result,
  finished <- FALSE
ImplementsContract == Contract!Init /\ [][Contract!Next]_(Contract!contractVars)
=============================================================================
