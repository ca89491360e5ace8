-------------------------- MODULE ConnectProbe_proofs --------------------------
(***************************************************************************)
(* A probe for any proxy, any service and every -timeout and -retries: the *)
(* descriptors come back (DescriptorsBalanced), a worker is held no longer *)
(* than the flags say (WaitsBounded), what is taken for the service's      *)
(* words is (StreamAligned), and the verdict keeps to the contract of a    *)
(* scan.  All rest on where a probe can be with which connection (Placed); *)
(* the time on a budget for every place (OnTime), the words on what may    *)
(* still come before them at every place (InStep).                         *)
(***************************************************************************)
EXTENDS ConnectProbe, SequenceTheorems, TLAPS

Reading == {"read", "reread"}
Places ==
  Handshake \cup Reading \cup {"idle", "attempt", "dial", "finish", "tls", "udp", "done", "panic"}
Asked == {"method", "auth", "connect"}
Causes == {"network", "cancel", "local"}

Verdicts == [job : {Job}, state : Contract!States, cause : Causes]

DataOK ==
  /\ set \in Settings
  /\ pc \in Places /\ leg \in {"main", "tls"}
  /\ attempt \in Nat /\ cause \in Causes \cup {"none"}
  /\ attempt > 0 => cause \in Causes
  /\ fds \in Int
  /\ down \in Seq(Nat) /\ skip \in Nat
  /\ proxy \in Asked \cup {"off", "waits", "silent", "closed", "relay"} /\ said \in Nat
  /\ banner \in Seq(Nat)
  /\ left \in Nat /\ age \in Nat /\ late \in Nat
  /\ result \subseteq Verdicts

TypeOK == DataOK /\ listening \in BOOLEAN /\ cancelled \in BOOLEAN

\* Which connection a probe can be at each place with, and what it knows there.
Placed ==
  /\ pc = "idle" => attempt = 0
  /\ pc \notin {"idle", "attempt", "panic", "done"} => attempt < Attempts
  /\ attempt <= Attempts
  /\ pc \in Handshake => set.via = "proxy"
  /\ pc = "udp" => set.via = "udp"
  /\ pc \in Reading \cup {"finish"} => set.via # "udp" /\ listening
  /\ pc \in Reading => set.read /\ leg = "main"
  /\ pc = "reread" => set.http
  /\ leg = "tls" =>
       /\ pc \in Handshake \cup {"dial", "tls", "done"}
       /\ set.via # "udp" /\ set.tls /\ listening
  /\ pc = "tls" => leg = "tls"
  /\ pc # "done" => result = {}

\* A dial is given up only after the cancellation.
CauseKnown == cause = "cancel" => cancelled

-----------------------------------------------------------------------------
(* Time                                                                    *)

\* What the attempts so far may have taken.
Base == attempt * DialTime

\* What they and the exchange may take.
Budget == Attempts * DialTime + ExchangeTime

\* The clock and what is left to the deadline are within what the connection may
\* have taken up to this place.
OnTime ==
  /\ pc \in {"idle", "attempt"} => age <= Base
  /\ leg = "main" =>
       /\ pc = "dial" => age + left <= Base + DialLimit
       /\ pc \in Handshake => age + left <= Base + DialTime
       /\ pc = "udp" => age + left <= Base + DialTime + Limit
       /\ pc = "read" => age + left <= Base + DialTime + ReadTime
       /\ pc = "reread" => age + left <= Base + DialTime + 2 * ReadTime
       /\ pc = "finish" => age <= Base + DialTime + ReadsTime
  /\ leg = "tls" =>
       /\ pc = "dial" => age + left <= Base + DialTime + ReadsTime + DialLimit
       /\ pc \in Handshake => age + left <= Base + DialTime + ReadsTime + DialTime
       /\ pc = "tls" => age + left <= Base + DialTime + ReadsTime + DialTime + Limit

\* The same, since the cancellation: a dial begins only before it.
LetGo ==
  /\ ~cancelled => late = 0
  /\ pc \in {"idle", "attempt", "dial", "finish"} => late <= HandshakeTime + ReadsTime
  /\ pc \in Handshake => late + left <= HandshakeTime
  /\ pc = "read" => late + left <= HandshakeTime + ReadTime
  /\ pc = "reread" => late + left <= HandshakeTime + 2 * ReadTime
  /\ pc = "tls" => late + left <= HandshakeTime + Limit
  /\ pc = "udp" => late + left <= Limit
  /\ \/ late <= HandshakeTime + ReadsTime
     \/ (set.tls \/ set.via = "udp") /\ late <= HandshakeTime + Limit

-----------------------------------------------------------------------------
(* Bytes                                                                   *)

\* What is unread are the words of the service, after n bytes of the reply.
Heard(n) ==
  /\ Len(down) = n + said
  /\ \A i \in 1 .. said : down[n + i] = Service(i)

\* It is the beginning of a reply of n bytes that will not be completed.
Begun(n) == Len(down) < n /\ said = 0 /\ proxy \in {"connect", "silent", "closed"}

Agrees(reply) == \A i \in 1 .. Len(reply) : i <= Len(down) => down[i] = reply[i]

\* What the proxy may be answering the CONNECT with.
Answers == {reply \in Granted \cup Refused : reply \in Granted => listening}

\* Nothing is ahead of the reply that is read, and the service's words follow it.
InStep ==
  /\ pc \in {"method", "auth"} =>
       /\ Len(down) <= 2 /\ said = 0
       /\ proxy = pc => down = <<>>
       /\ proxy \in {pc, "waits", "silent", "closed"}
  /\ pc = "head" =>
       /\ \E reply \in Answers : Agrees(reply) /\ (Begun(Len(reply)) \/ Heard(Len(reply)))
       /\ proxy \in {"connect", "waits", "silent", "closed", "relay"}
       /\ proxy = "connect" => down = <<>> /\ said = 0
  /\ pc = "length" => \E l \in Nat :
       (Len(down) > 0 => down[1] = l) /\ (Begun(l + 3) \/ Heard(l + 3))
  /\ pc = "bind" => Begun(skip) \/ Heard(skip)
  /\ pc \in Reading => Heard(0)
  /\ pc \in {"length", "bind"} => listening
  /\ pc \notin {"method", "auth", "head"} => proxy \notin Asked

IInv ==
  /\ DataOK /\ Placed /\ CauseKnown
  /\ OnTime /\ age <= Budget /\ LetGo
  /\ InStep /\ StreamAligned /\ DescriptorsBalanced

-----------------------------------------------------------------------------
(* Streams and replies                                                     *)

LEMMA ConcatShape ==
  ASSUME NEW s \in Seq(Nat), NEW t \in Seq(Nat)
  PROVE  /\ s \o t \in Seq(Nat) /\ Len(s \o t) = Len(s) + Len(t)
         /\ \A i \in 1 .. Len(s) : (s \o t)[i] = s[i]
         /\ \A i \in 1 .. Len(t) : (s \o t)[Len(s) + i] = t[i]
<1>1. Len(s) \in Nat /\ Len(t) \in Nat
  BY LenProperties
<1>2. \A i \in 1 .. Len(t) :
        Len(s) + i \in 1 .. Len(s) + Len(t) /\ ~(Len(s) + i <= Len(s)) /\ Len(s) + i - Len(s) = i
  BY <1>1
<1>3. \A i \in 1 .. Len(s) : i \in 1 .. Len(s) + Len(t) /\ i <= Len(s)
  BY <1>1
<1> QED
  BY <1>1, <1>2, <1>3, ConcatProperties

\* What is left of a stream after n bytes.
LEMMA RestShape ==
  ASSUME NEW s \in Seq(Nat), NEW n \in Nat, n <= Len(s)
  PROVE  /\ Rest(s, n) \in Seq(Nat) /\ Len(Rest(s, n)) = Len(s) - n
         /\ \A i \in 1 .. (Len(s) - n) : Rest(s, n)[i] = s[n + i]
<1>1. Len(s) \in Nat
  BY LenProperties
<1>2. n + 1 \in 1 .. Len(s) + 1 /\ Len(s) \in n .. Len(s)
  BY <1>1
<1>3. \A i \in 1 .. Len(s) - n : n + 1 + i - 1 = n + i
  BY <1>1
<1>4. (IF n + 1 <= Len(s) THEN Len(s) - (n + 1) + 1 ELSE 0) = Len(s) - n
  BY <1>1
<1> QED
  BY <1>1, <1>2, <1>3, <1>4, SubSeqProperties DEF Rest

LEMMA TakenShape ==
  ASSUME NEW s \in Seq(Nat), NEW n \in Nat, n <= Len(s)
  PROVE  /\ Taken(s, n) \in Seq(Nat) /\ Len(Taken(s, n)) = n
         /\ \A i \in 1 .. n : Taken(s, n)[i] = s[i]
<1>1. Len(s) \in Nat
  BY LenProperties
<1>2. 1 \in 1 .. Len(s) + 1 /\ n \in 0 .. Len(s)
  BY <1>1
<1>3. \A i \in 1 .. n : 1 + i - 1 = i
  OBVIOUS
<1>4. (IF 1 <= n THEN n - 1 + 1 ELSE 0) = n
  OBVIOUS
<1> QED
  BY <1>1, <1>2, <1>3, <1>4, SubSeqProperties DEF Taken

\* What a client may find in a reply to CONNECT: where its length is written.
LEMMA ReplyShape ==
  /\ MethodReplies \cup AuthReplies \subseteq Seq(Nat) /\ Refused \cup Granted \subseteq Seq(Nat)
  /\ \A reply \in MethodReplies \cup AuthReplies : Len(reply) = 2
  /\ \A reply \in Refused : Len(reply) = 10 /\ reply[2] = 5
  /\ \A reply \in Granted :
       /\ Len(reply) >= 4 /\ reply[2] = 0
       /\ reply[4] = 1 => Len(reply) = 10
       /\ reply[4] = 4 => Len(reply) = 22
       /\ reply[4] = 3 => Len(reply) >= 5 /\ Len(reply) = reply[5] + 7
<1>1. \A n \in Nat : Zeros(n) \in Seq(Nat) /\ Len(Zeros(n)) = n
  BY DEF Zeros
<1>2. /\ \E z \in Seq(Nat) : z = Zeros(4 + 2) /\ Len(z) = 6
      /\ \E z \in Seq(Nat) : z = Zeros(16 + 2) /\ Len(z) = 18
  <2>1. 4 + 2 \in Nat /\ 16 + 2 \in Nat
    OBVIOUS
  <2>2. Zeros(4 + 2) \in Seq(Nat) /\ Len(Zeros(4 + 2)) = 4 + 2
    BY <1>1, <2>1, Zenon
  <2>3. Zeros(16 + 2) \in Seq(Nat) /\ Len(Zeros(16 + 2)) = 16 + 2
    BY <1>1, <2>1, Zenon
  <2>4. 4 + 2 = 6 /\ 16 + 2 = 18
    OBVIOUS
  <2> QED
    BY <2>2, <2>3, <2>4, Zenon
<1>3. MethodReplies \cup AuthReplies \subseteq Seq(Nat)
      /\ \A reply \in MethodReplies \cup AuthReplies : Len(reply) = 2
  BY DEF MethodReplies, AuthReplies
<1>4. \A reply \in Refused : reply \in Seq(Nat) /\ Len(reply) = 10 /\ reply[2] = 5
  <2>1. PICK h \in Seq(Nat) : h = <<5, 5, 0, 1>> /\ Len(h) = 4 /\ h[2] = 5
    <3>1. <<5, 5, 0, 1>> \in Seq(Nat) /\ Len(<<5, 5, 0, 1>>) = 4 /\ <<5, 5, 0, 1>>[2] = 5
      OBVIOUS
    <3> QED
      BY <3>1, Zenon
  <2>2. PICK z \in Seq(Nat) : z = Zeros(4 + 2) /\ Len(z) = 6
    BY <1>2
  <2>3. Refused = {h \o z}
    BY <2>1, <2>2, Zenon DEF Refused
  <2>4. h \o z \in Seq(Nat) /\ Len(h \o z) = Len(h) + Len(z) /\ (h \o z)[2] = h[2]
    <3>1. 2 \in 1 .. Len(h)
      BY <2>1
    <3> QED
      BY <3>1, ConcatShape, Zenon
  <2>5. Len(h) + Len(z) = 10
    <3>1. Len(h) = 4 /\ Len(z) = 6
      BY <2>1, <2>2, Zenon
    <3> QED
      BY <3>1
  <2> QED
    BY <2>1, <2>3, <2>4, <2>5, Zenon
<1>5. ASSUME NEW b \in Bound
      PROVE  /\ b \in Seq(Nat) /\ Len(b) >= 1
             /\ b[1] = 1 => Len(b) = 7
             /\ b[1] = 4 => Len(b) = 19
             /\ b[1] = 3 => Len(b) >= 2 /\ Len(b) = b[2] + 4
  <2>1. CASE b = <<1>> \o Zeros(4 + 2)
    <3>1. PICK z \in Seq(Nat) : z = Zeros(4 + 2) /\ Len(z) = 6
      BY <1>2
    <3>2. PICK h \in Seq(Nat) : h = <<1>> /\ Len(h) = 1 /\ h[1] = 1
      <4>1. <<1>> \in Seq(Nat) /\ Len(<<1>>) = 1 /\ <<1>>[1] = 1
        OBVIOUS
      <4> QED
        BY <4>1, Zenon
    <3>3. b = h \o z
      BY <2>1, <3>1, <3>2, Zenon
    <3>4. b \in Seq(Nat) /\ Len(b) = Len(h) + Len(z) /\ b[1] = h[1]
      <4>1. 1 \in 1 .. Len(h)
        BY <3>2
      <4> QED
        BY <3>3, <4>1, ConcatShape, Zenon
    <3>5. b \in Seq(Nat) /\ Len(b) = 7 /\ b[1] = 1
      BY <3>1, <3>2, <3>4
    <3>6. Len(b) >= 1 /\ b[1] # 4 /\ b[1] # 3
      BY <3>5
    <3> QED
      BY <3>5, <3>6, Zenon
  <2>2. CASE b = <<4>> \o Zeros(16 + 2)
    <3>1. PICK z \in Seq(Nat) : z = Zeros(16 + 2) /\ Len(z) = 18
      BY <1>2
    <3>2. PICK h \in Seq(Nat) : h = <<4>> /\ Len(h) = 1 /\ h[1] = 4
      <4>1. <<4>> \in Seq(Nat) /\ Len(<<4>>) = 1 /\ <<4>>[1] = 4
        OBVIOUS
      <4> QED
        BY <4>1, Zenon
    <3>3. b = h \o z
      BY <2>2, <3>1, <3>2, Zenon
    <3>4. b \in Seq(Nat) /\ Len(b) = Len(h) + Len(z) /\ b[1] = h[1]
      <4>1. 1 \in 1 .. Len(h)
        BY <3>2
      <4> QED
        BY <3>3, <4>1, ConcatShape, Zenon
    <3>5. b \in Seq(Nat) /\ Len(b) = 19 /\ b[1] = 4
      BY <3>1, <3>2, <3>4
    <3>6. Len(b) >= 1 /\ b[1] # 1 /\ b[1] # 3
      BY <3>5
    <3> QED
      BY <3>5, <3>6, Zenon
  <2>3. CASE b = <<UnknownType>>
    BY <2>3, SocksAssumption DEF SocksAssumption
  <2>4. ASSUME NEW l \in NameLengths, b = <<3, l>> \o Zeros(l + 2)
        PROVE  b \in Seq(Nat) /\ Len(b) = l + 4 /\ b[1] = 3 /\ b[2] = l /\ l \in Nat
    <3>1. l \in Nat
      BY SocksAssumption DEF SocksAssumption
    <3>2. Zeros(l + 2) \in Seq(Nat) /\ Len(Zeros(l + 2)) = l + 2
      BY <1>1, <3>1
    <3>3. <<3, l>> \in Seq(Nat) /\ Len(<<3, l>>) = 2 /\ <<3, l>>[1] = 3 /\ <<3, l>>[2] = l
      BY <3>1
    <3> QED
      BY <2>4, <3>1, <3>2, <3>3, ConcatShape
  <2>5. \/ b \in {<<1>> \o Zeros(4 + 2), <<4>> \o Zeros(16 + 2), <<UnknownType>>}
        \/ \E l \in NameLengths : b = <<3, l>> \o Zeros(l + 2)
    BY DEF Bound
  <2>6. CASE \E l \in NameLengths : b = <<3, l>> \o Zeros(l + 2)
    <3>1. PICK l \in NameLengths : b = <<3, l>> \o Zeros(l + 2)
      BY <2>6
    <3>2. b \in Seq(Nat) /\ Len(b) = l + 4 /\ b[1] = 3 /\ b[2] = l /\ l \in Nat
      BY <2>4, <3>1
    <3> QED
      BY <3>2
  <2> QED
    BY <2>1, <2>2, <2>3, <2>5, <2>6
<1>6. ASSUME NEW reply \in Granted
      PROVE  /\ reply \in Seq(Nat) /\ Len(reply) >= 4 /\ reply[2] = 0
             /\ reply[4] = 1 => Len(reply) = 10
             /\ reply[4] = 4 => Len(reply) = 22
             /\ reply[4] = 3 => Len(reply) >= 5 /\ Len(reply) = reply[5] + 7
  <2>1. PICK b \in Bound : reply = <<5, 0, 0>> \o b
    BY DEF Granted
  <2>2. b \in Seq(Nat) /\ Len(b) >= 1 /\ Len(b) \in Nat
    BY <1>5, LenProperties
  <2>3. <<5, 0, 0>> \in Seq(Nat) /\ Len(<<5, 0, 0>>) = 3 /\ <<5, 0, 0>>[2] = 0
    OBVIOUS
  <2>4. reply \in Seq(Nat) /\ Len(reply) = 3 + Len(b) /\ reply[2] = 0
        /\ \A i \in 1 .. Len(b) : reply[3 + i] = b[i]
    BY <2>1, <2>2, <2>3, ConcatShape
  <2>5. reply[4] = b[1] /\ (Len(b) >= 2 => reply[5] = b[2])
    <3>1. 1 \in 1 .. Len(b) /\ (Len(b) >= 2 => 2 \in 1 .. Len(b)) /\ 3 + 1 = 4 /\ 3 + 2 = 5
      BY <2>2
    <3> QED
      BY <2>4, <3>1
  <2>6. /\ b[1] = 1 => Len(b) = 7
        /\ b[1] = 4 => Len(b) = 19
        /\ b[1] = 3 => Len(b) >= 2 /\ Len(b) = b[2] + 4
    BY <1>5
  <2>7. ASSUME reply[4] = 3
        PROVE  Len(reply) >= 5 /\ Len(reply) = reply[5] + 7
    <3>1. Len(b) >= 2 /\ Len(b) = b[2] + 4
      BY <2>5, <2>6, <2>7
    <3>2. b[2] \in Nat /\ reply[5] = b[2]
      BY <2>2, <2>5, <3>1
    <3>3. Len(b) = reply[5] + 4 /\ reply[5] \in Nat
      BY <3>1, <3>2
    <3>4. Len(reply) = 3 + (reply[5] + 4)
      BY <2>4, <3>3
    <3> QED
      BY <3>3, <3>4
  <2>8. ASSUME reply[4] = 1
        PROVE  Len(reply) = 10
    <3>1. Len(b) = 7
      BY <2>5, <2>6, <2>8
    <3> QED
      BY <2>4, <3>1
  <2>9. ASSUME reply[4] = 4
        PROVE  Len(reply) = 22
    <3>1. Len(b) = 19
      BY <2>5, <2>6, <2>9
    <3> QED
      BY <2>4, <3>1
  <2>10. Len(reply) >= 4
    BY <2>2, <2>4
  <2> QED
    BY <2>4, <2>7, <2>8, <2>9, <2>10, Zenon
<1> QED
  BY <1>3, <1>4, <1>6

-----------------------------------------------------------------------------
(* Types and places                                                        *)

LEMMA Constants ==
  /\ ReadTime \in Nat \ {0} /\ MaxService \in Nat
  /\ set \in Settings => set \in SettingsType /\ Limit \in Nat /\ DialLimit \in Nat
BY ConnectAssumption DEF ConnectAssumption, SettingsType, Limit, DialLimit

\* What the proxy may send now, whole or cut short.
LEMMA RepliesTyped ==
  ASSUME DataOK, proxy \in Asked, NEW reply \in Replies
  PROVE  /\ reply \in Seq(Nat) /\ Len(reply) >= 2 /\ down \o reply \in Seq(Nat)
         /\ Len(down \o reply) = Len(down) + Len(reply)
         /\ \A n \in {0, 1, Len(reply) - 1} :
              /\ n \in Nat /\ n < Len(reply)
              /\ down \o Taken(reply, n) \in Seq(Nat)
              /\ Len(down \o Taken(reply, n)) = Len(down) + n
<1>1. reply \in MethodReplies \cup AuthReplies \cup Granted \cup Refused
  BY DEF Asked, Replies
<1>2. reply \in Seq(Nat) /\ down \in Seq(Nat)
  BY <1>1, ReplyShape DEF DataOK
<1>3. Len(reply) \in Nat /\ Len(reply) >= 2
  <2>1. Len(reply) \in Nat
    BY <1>2, LenProperties
  <2>2. CASE reply \in MethodReplies \cup AuthReplies
    <3>1. Len(reply) = 2
      BY <2>2, ReplyShape, Zenon
    <3> QED
      BY <3>1
  <2>3. CASE reply \in Refused
    BY <2>1, <2>3, ReplyShape
  <2>4. CASE reply \in Granted
    BY <2>1, <2>4, ReplyShape
  <2> QED
    BY <1>1, <2>2, <2>3, <2>4
<1>4. ASSUME NEW n \in {0, 1, Len(reply) - 1}
      PROVE  /\ n \in Nat /\ n < Len(reply)
             /\ down \o Taken(reply, n) \in Seq(Nat)
             /\ Len(down \o Taken(reply, n)) = Len(down) + n
  <2>1. n \in Nat /\ n < Len(reply) /\ n <= Len(reply)
    BY <1>3
  <2>2. Taken(reply, n) \in Seq(Nat) /\ Len(Taken(reply, n)) = n
    BY <1>2, <2>1, TakenShape
  <2> QED
    BY <1>2, <2>1, <2>2, ConcatShape
<1> QED
  BY <1>2, <1>3, <1>4, ConcatShape

\* Of a reply that is complete, the parts a client reads next.
LEMMA NeedsTyped ==
  ASSUME DataOK, pc \in Handshake, Complete
  PROVE  /\ Needs(pc) \in Nat /\ Needs(pc) <= Len(down) /\ Len(down) \in Nat
         /\ Rest(down, Needs(pc)) \in Seq(Nat)
         /\ Len(Rest(down, Needs(pc))) = Len(down) - Needs(pc)
         /\ \A i \in 1 .. (Len(down) - Needs(pc)) : Rest(down, Needs(pc))[i] = down[Needs(pc) + i]
<1>1. Needs(pc) \in Nat
  BY DEF DataOK, Handshake, Needs
<1>2. down \in Seq(Nat) /\ Len(down) \in Nat
  BY LenProperties DEF DataOK
<1>3. Needs(pc) <= Len(down)
  BY <1>1, <1>2 DEF Complete
<1> QED
  BY <1>1, <1>2, <1>3, RestShape

LEMMA HeadTyped ==
  ASSUME DataOK, pc = "head", Complete
  PROVE  LET head == Taken(down, 4)
         IN  /\ Len(down) >= 4
             /\ head[2] = down[2] /\ head[4] = down[4] /\ head[4] \in Nat
<1>1. down \in Seq(Nat) /\ Len(down) \in Nat /\ Len(down) >= 4
  BY LenProperties DEF DataOK, Complete, Needs, Handshake
<1>2. Taken(down, 4) \in Seq(Nat) /\ Len(Taken(down, 4)) = 4
      /\ \A i \in 1 .. 4 : Taken(down, 4)[i] = down[i]
  BY <1>1, TakenShape
<1> QED
  BY <1>1, <1>2

LEMMA DataInit == Init => DataOK
BY DEF Init, DataOK, Places, Handshake, Reading, Asked

LEMMA ReturnTyped ==
  ASSUME DataOK, NEW state \in Contract!States, NEW why \in Causes, NEW held \in Int,
         Return(state, why, held)
  PROVE  DataOK'
<1>1. [job |-> Job, state |-> state, cause |-> why] \in Verdicts
  BY DEF Verdicts
<1> QED
  BY <1>1 DEF Return, DataOK, Places, Handshake, Reading, Asked, loop, peer, clock

LEMMA ErrorTyped ==
  ASSUME DataOK, NEW why \in Causes, NEW opened \in Int, DialError(why, opened)
  PROVE  DataOK'
<1>1. CASE leg = "tls" /\ Return("open", "network", opened + 1)
  BY <1>1, ReturnTyped DEF Causes, Contract!States
<1>2. CASE leg = "main" /\ ~(leg = "tls" /\ Return("open", "network", opened + 1))
  BY <1>2 DEF DialError, DataOK, Places, Handshake, Reading, Asked, loop, peer, clock
<1> QED
  BY <1>1, <1>2 DEF DialError

LEMMA ProceedTyped ==
  ASSUME DataOK, pc \in Handshake, Complete, NEW place \in Handshake,
         NEW owed \in Asked \cup {"relay"}, Proceed(place, owed), skip' \in Nat
  PROVE  DataOK'
<1>1. Rest(down, Needs(pc)) \in Seq(Nat)
  BY NeedsTyped
<1> QED
  BY <1>1 DEF Proceed, LeftAfterRead, DataOK, Places, Handshake, Reading, Asked, loop, peer, clock

LEMMA AskTyped ==
  ASSUME DataOK, pc \in Handshake, Complete, AskConnect
  PROVE  DataOK'
<1>1. CASE set.overlong /\ HandshakeError("local")
  BY <1>1, ErrorTyped DEF HandshakeError, Causes
<1>2. CASE ~set.overlong /\ Proceed("head", "connect") /\ UNCHANGED skip
  <2>1. skip' \in Nat
    BY <1>2 DEF DataOK
  <2> QED
    BY <1>2, <2>1, ProceedTyped DEF Handshake, Asked
<1> QED
  BY <1>1, <1>2 DEF AskConnect

LEMMA GoOnTyped ==
  ASSUME DataOK, NEW place \in Places, NEW ticks \in Nat, GoOn(place, ticks),
         leg' \in {"main", "tls"}, fds' \in Int, down' \in Seq(Nat), said' \in Nat,
         banner' \in Seq(Nat), UNCHANGED result,
         proxy' \in Asked \cup {"off", "waits", "silent", "closed", "relay"}
  PROVE  DataOK'
BY DEF GoOn, DataOK, clock

LEMMA ConnectedTyped ==
  ASSUME DataOK, Connected, UNCHANGED <<leg, banner, result>>,
         fds' \in Int, down' \in Seq(Nat), said' \in Nat,
         proxy' \in Asked \cup {"off", "waits", "silent", "closed", "relay"}
  PROVE  DataOK'
<1>0. Limit \in Nat /\ ReadTime \in Nat
  BY Constants DEF DataOK
<1>1. PICK place \in {"tls", "read", "finish"}, ticks \in Nat : GoOn(place, ticks)
  BY <1>0 DEF Connected
<1>2. place \in Places /\ leg' \in {"main", "tls"} /\ banner' \in Seq(Nat) /\ UNCHANGED result
  BY DEF DataOK, Places, Reading
<1> QED
  BY <1>1, <1>2, GoOnTyped

LEMMA DataNext == DataOK /\ [Next]_vars => DataOK'
<1> SUFFICES ASSUME DataOK, [Next]_vars
             PROVE  DataOK'
  OBVIOUS
<1> USE DEF Places, Handshake, Reading, Asked, Causes, loop, peer, clock
<1>1. Limit \in Nat /\ DialLimit \in Nat /\ ReadTime \in Nat
  BY Constants DEF DataOK
<1>2. CASE Begin
  BY <1>2 DEF DataOK, Begin
<1>3. CASE Attempt
  <2>1. CASE MayTry /\ cancelled /\ Return("closed", "cancel", 0)
    BY <2>1, ReturnTyped DEF Contract!States
  <2>2. CASE ~MayTry /\ attempt > 0 /\ Return("closed", cause, 0)
    <3>1. cause \in {"network", "cancel", "local"}
      BY <2>2 DEF DataOK
    <3> QED
      BY <2>2, <3>1, ReturnTyped DEF Contract!States
  <2>3. ASSUME pc' \in {"dial", "panic"}, left' \in {left, DialLimit}, 
               UNCHANGED <<set, listening, loop, fds, down, skip, peer, banner, clock, result>>
        PROVE  DataOK'
    BY <1>1, <2>3 DEF DataOK
  <2> QED
    BY <1>3, <2>1, <2>2, <2>3 DEF Attempt
<1>4. CASE DialFailsHere
  BY <1>4, ErrorTyped DEF DialFailsHere
<1>5. CASE DialRefused
  BY <1>5, ErrorTyped DEF DialRefused
<1>6. CASE DialProxyTimeout
  BY <1>6, ErrorTyped DEF DialProxyTimeout
<1>7. CASE DialDirect
  BY <1>7, ConnectedTyped DEF DataOK, DialDirect, Opened
<1>8. CASE DialUDP
  BY <1>1, <1>8, GoOnTyped DEF DataOK, DialUDP, Opened
<1>9. CASE DialProxy
  BY <1>1, <1>9, GoOnTyped DEF DataOK, DialProxy, Opened
<1>10. CASE ReadFails
  BY <1>10, ErrorTyped DEF ReadFails, HandshakeError
<1>11. CASE ReadMethod
  <2>1. ASSUME Proceed("auth", "auth"), UNCHANGED skip
        PROVE  DataOK'
    BY <1>11, <2>1, ProceedTyped DEF ReadMethod, DataOK
  <2> QED
    BY <1>11, <2>1, ErrorTyped, AskTyped DEF ReadMethod, HandshakeError
<1>12. CASE ReadAuth
  BY <1>12, ErrorTyped, AskTyped DEF ReadAuth, HandshakeError
<1>13. CASE ReadHead
  <2>1. ASSUME Proceed("bind", "relay"), skip' \in {6, 18}
        PROVE  DataOK'
    BY <1>13, <2>1, ProceedTyped DEF ReadHead
  <2>2. ASSUME Proceed("length", "relay"), UNCHANGED skip
        PROVE  DataOK'
    BY <1>13, <2>2, ProceedTyped DEF ReadHead, DataOK
  <2>3. \A atyp \in {1, 4} : SkipOf(atyp, 0) \in {6, 18}
    BY DEF SkipOf
  <2> QED
    BY <1>13, <2>1, <2>2, <2>3, ErrorTyped DEF ReadHead, HandshakeError
<1>14. CASE ReadLength
  <2>1. down[1] \in Nat
    BY <1>14 DEF ReadLength, DataOK, Complete, Needs
  <2>2. skip' \in Nat
    BY <1>14, <2>1 DEF ReadLength, SkipOf
  <2> QED
    BY <1>14, <2>2, ProceedTyped DEF ReadLength
<1>15. CASE ReadBind
  <2>1. Rest(down, skip) \in Seq(Nat)
    BY <1>15, NeedsTyped DEF ReadBind, Needs
  <2> QED
    BY <1>15, <2>1, ConnectedTyped DEF ReadBind, DataOK
<1>16. CASE Finishes
  <2>1. CASE Return("open", "network", 1)
    BY <2>1, ReturnTyped DEF Contract!States
  <2>2. CASE GoOn("dial", DialLimit) /\ leg' = "tls" /\ UNCHANGED <<fds, down, peer, banner, result>>
    BY <1>1, <2>2, GoOnTyped DEF DataOK
  <2> QED
    BY <1>16, <2>1, <2>2 DEF Finishes, Finish
<1>17. CASE ReadSome
  BY <1>17, GoOnTyped DEF DataOK, ReadSome
<1>18. CASE ReadNothing
  BY <1>1, <1>18, GoOnTyped DEF DataOK, ReadNothing
<1>19. CASE EndTLS
  BY <1>19, ReturnTyped DEF EndTLS, Contract!States
<1>20. CASE UDPExchange
  BY <1>20, ReturnTyped DEF UDPExchange, Contract!States
<1>21. CASE ProxyReplies
  BY <1>21, RepliesTyped DEF DataOK, ProxyReplies
<1>22. CASE ProxyStops
  BY <1>22, RepliesTyped DEF DataOK, ProxyStops
<1>23. CASE PeerCloses
  BY <1>23 DEF DataOK, PeerCloses
<1>24. CASE ServiceSpeaks
  BY <1>24 DEF DataOK, ServiceSpeaks, Service
<1>25. CASE Cancel
  BY <1>25 DEF DataOK, Cancel
<1>26. CASE Tick
  BY <1>26 DEF DataOK, Tick
<1>27. CASE Ended \/ UNCHANGED vars
  BY <1>27 DEF DataOK, Ended, vars
<1> QED
  BY <1>2, <1>3, <1>4, <1>5, <1>6, <1>7, <1>8, <1>9, <1>10, <1>11, <1>12, <1>13, <1>14, <1>15, <1>16,
     <1>17, <1>18, <1>19, <1>20, <1>21, <1>22, <1>23, <1>24, <1>25, <1>26, <1>27 DEF Next, ProbeStep

LEMMA FlagsNext ==
  listening \in BOOLEAN /\ cancelled \in BOOLEAN /\ [Next]_vars
    => listening' \in BOOLEAN /\ cancelled' \in BOOLEAN
<1> SUFFICES ASSUME listening \in BOOLEAN, cancelled \in BOOLEAN, [Next]_vars
             PROVE  listening' \in BOOLEAN /\ cancelled' \in BOOLEAN
  OBVIOUS
<1>1. CASE Cancel
  BY <1>1, Zenon DEF Cancel
<1>2. CASE UNCHANGED <<listening, cancelled>>
  BY <1>2, Zenon
<1>3. ProbeStep => UNCHANGED <<listening, cancelled>>
  <2> USE DEF Return, DialError, HandshakeError, Proceed, GoOn, Connected, clock
  <2>1. Begin \/ Attempt \/ DialFailsHere \/ DialRefused \/ DialProxyTimeout
          => UNCHANGED <<listening, cancelled>>
    BY Zenon DEF Begin, Attempt, DialFailsHere, DialRefused, DialProxyTimeout
  <2>2. DialDirect \/ DialUDP \/ DialProxy \/ ReadBind \/ ReadSome \/ ReadNothing
          => UNCHANGED <<listening, cancelled>>
    BY Zenon DEF DialDirect, DialUDP, DialProxy, ReadBind, ReadSome, ReadNothing
  <2>3. ReadFails \/ ReadMethod \/ ReadAuth \/ ReadHead \/ ReadLength
          => UNCHANGED <<listening, cancelled>>
    BY Zenon DEF ReadFails, ReadMethod, ReadAuth, ReadHead, ReadLength, AskConnect
  <2>4. Finishes \/ EndTLS \/ UDPExchange => UNCHANGED <<listening, cancelled>>
    BY Zenon DEF Finishes, Finish, EndTLS, UDPExchange
  <2> QED
    BY <2>1, <2>2, <2>3, <2>4 DEF ProbeStep
<1>4. ProxyReplies \/ ProxyStops \/ PeerCloses \/ ServiceSpeaks \/ Tick \/ Ended \/ UNCHANGED vars
        => UNCHANGED <<listening, cancelled>>
  BY Zenon DEF ProxyReplies, ProxyStops, PeerCloses, ServiceSpeaks, Tick, Ended, vars, clock
<1> QED
  BY <1>1, <1>2, <1>3, <1>4 DEF Next

\* Every variable keeps its type.
THEOREM TypeCorrect == Spec => []TypeOK
<1>1. Init => TypeOK
  BY DataInit DEF Init, TypeOK
<1>2. TypeOK /\ [Next]_vars => TypeOK'
  BY DataNext, FlagsNext DEF TypeOK
<1> QED
  BY <1>1, <1>2, PTL DEF Spec

-----------------------------------------------------------------------------
(* Places                                                                  *)

LEMMA PlacedInit == Init => Placed
BY Constants DEF Init, Placed, Attempts, SettingsType, Handshake, Reading

LEMMA ReturnPlaced ==
  ASSUME DataOK, Placed, NEW state, NEW why, NEW held, Return(state, why, held)
  PROVE  Placed'
BY DEF Return, Placed, Attempts, Handshake, Reading, loop

LEMMA ErrorPlaced ==
  ASSUME DataOK, Placed, pc \in Handshake \cup {"dial"}, NEW why, NEW opened, DialError(why, opened)
  PROVE  Placed'
<1>1. CASE leg = "tls" /\ Return("open", "network", opened + 1)
  BY <1>1, ReturnPlaced
<1>2. CASE leg = "main" /\ ~(leg = "tls" /\ Return("open", "network", opened + 1))
  BY <1>2, Constants DEF DialError, DataOK, Placed, Attempts, SettingsType, Handshake, Reading
<1> QED
  BY <1>1, <1>2 DEF DialError

LEMMA ProceedPlaced ==
  ASSUME DataOK, Placed, pc \in Handshake, NEW place \in Handshake, NEW owed, Proceed(place, owed)
  PROVE  Placed'
BY DEF Proceed, Placed, Attempts, Handshake, Reading, loop

LEMMA AskPlaced ==
  ASSUME DataOK, Placed, pc \in Handshake, AskConnect
  PROVE  Placed'
BY ErrorPlaced, ProceedPlaced DEF AskConnect, HandshakeError, Handshake

\* What a connection is used for, and for how long.
LEMMA ConnectedShape ==
  ASSUME Connected
  PROVE  /\ \/ leg = "tls" /\ pc' = "tls" /\ left' = Limit
            \/ leg # "tls" /\ set.read /\ pc' = "read" /\ left' = ReadTime
            \/ leg # "tls" /\ ~set.read /\ pc' = "finish" /\ left' = 0
         /\ UNCHANGED <<set, listening, attempt, cause, skip, age, cancelled, late>>
BY DEF Connected, GoOn, clock

\* The connection a port accepted, of the attempt or of -tls.
LEMMA ConnectedPlaced ==
  ASSUME DataOK, Placed, pc \in Handshake \cup {"dial"}, set.via # "udp", listening,
         Connected, UNCHANGED <<leg, banner, result>>
  PROVE  Placed'
<1>1. CASE leg = "tls" /\ pc' = "tls"
  BY <1>1, ConnectedShape DEF DataOK, Placed, Attempts, Handshake, Reading
<1>2. CASE leg # "tls" /\ set.read /\ pc' = "read"
  BY <1>2, ConnectedShape DEF DataOK, Placed, Attempts, Handshake, Reading
<1>3. CASE leg # "tls" /\ pc' = "finish"
  BY <1>3, ConnectedShape DEF DataOK, Placed, Attempts, Handshake, Reading
<1> QED
  BY <1>1, <1>2, <1>3, ConnectedShape

LEMMA PlacedNext ==
  DataOK /\ Placed /\ (pc = "bind" => listening) /\ [Next]_vars => Placed'
<1> SUFFICES ASSUME DataOK, Placed, pc = "bind" => listening, [Next]_vars
             PROVE  Placed'
  OBVIOUS
<1> USE DEF Handshake, Reading, loop, peer, clock
<1>0. ASSUME UNCHANGED <<set, listening, pc, leg, attempt, result>>
      PROVE  Placed'
  BY <1>0 DEF Placed, Attempts
<1>1. set \in SettingsType
  BY Constants DEF DataOK
<1>2. CASE Begin
  BY <1>2 DEF Begin, Placed, Attempts
<1>3. CASE Attempt
  <2>1. CASE \E state, why, held : Return(state, why, held)
    BY <2>1, ReturnPlaced
  <2>2. CASE MayTry /\ pc' = "dial"
             /\ UNCHANGED <<set, listening, loop, fds, down, skip, peer, banner, clock, result>>
    BY <1>1, <1>3, <2>2 DEF Attempt, DataOK, MayTry, Placed, Attempts, SettingsType
  <2>3. CASE pc' = "panic"
             /\ UNCHANGED <<set, listening, loop, fds, down, skip, peer, banner, clock, result>>
    BY <1>3, <2>3 DEF Attempt, Placed, Attempts
  <2> QED
    BY <1>3, <2>1, <2>2, <2>3 DEF Attempt
<1>4. CASE DialFailsHere \/ DialRefused \/ DialProxyTimeout
  BY <1>4, ErrorPlaced DEF DialFailsHere, DialRefused, DialProxyTimeout
<1>5. CASE DialDirect
  BY <1>5, ConnectedPlaced DEF DialDirect
<1>6. CASE DialUDP
  BY <1>6 DEF DialUDP, GoOn, Placed, Attempts
<1>7. CASE DialProxy
  BY <1>7 DEF DialProxy, GoOn, Placed, Attempts
<1>8. CASE ReadFails
  BY <1>8, ErrorPlaced DEF ReadFails, HandshakeError
<1>9. CASE ReadMethod
  BY <1>9, ErrorPlaced, ProceedPlaced, AskPlaced DEF ReadMethod, HandshakeError
<1>10. CASE ReadAuth
  BY <1>10, ErrorPlaced, AskPlaced DEF ReadAuth, HandshakeError
<1>11. CASE ReadHead
  BY <1>11, ErrorPlaced, ProceedPlaced DEF ReadHead, HandshakeError
<1>12. CASE ReadLength
  BY <1>12, ProceedPlaced DEF ReadLength
<1>13. CASE ReadBind
  <2>1. set.via # "udp" /\ listening
    BY <1>13 DEF ReadBind, Placed
  <2> QED
    BY <1>13, <2>1, ConnectedPlaced DEF ReadBind
<1>14. CASE Finishes
  BY <1>14, ReturnPlaced DEF Finishes, Finish, GoOn, Placed, Attempts
<1>15. CASE ReadSome
  BY <1>15 DEF ReadSome, GoOn, Placed, Attempts
<1>16. CASE ReadNothing
  BY <1>16 DEF ReadNothing, GoOn, Placed, Attempts
<1>17. CASE EndTLS \/ UDPExchange
  BY <1>17, ReturnPlaced DEF EndTLS, UDPExchange
<1>18. CASE ProxyReplies \/ ProxyStops \/ PeerCloses \/ ServiceSpeaks \/ Cancel \/ Tick \/ Ended
            \/ UNCHANGED vars
  BY <1>0, <1>18
     DEF ProxyReplies, ProxyStops, PeerCloses, ServiceSpeaks, Cancel, Tick, Ended, vars
<1> QED
  BY <1>2, <1>3, <1>4, <1>5, <1>6, <1>7, <1>8, <1>9, <1>10, <1>11, <1>12, <1>13, <1>14, <1>15, <1>16,
     <1>17, <1>18 DEF Next, ProbeStep

-----------------------------------------------------------------------------
(* Descriptors                                                             *)

LEMMA DescriptorsInit == Init => DescriptorsBalanced
BY DEF Init, DescriptorsBalanced, Handshake

LEMMA DescriptorsNext ==
  DataOK /\ Placed /\ DescriptorsBalanced /\ [Next]_vars => DescriptorsBalanced'
<1> SUFFICES ASSUME DataOK, Placed, DescriptorsBalanced, [Next]_vars
             PROVE  DescriptorsBalanced'
  OBVIOUS
<1> USE DEF Handshake, Reading, loop, peer, clock
<1>0. ASSUME UNCHANGED <<set, pc, leg, fds>>
      PROVE  DescriptorsBalanced'
  BY <1>0 DEF DescriptorsBalanced
<1>1. ASSUME NEW why, (pc = "dial" /\ DialError(why, 0)) \/ (pc \in Handshake /\ DialError(why, 1))
      PROVE  DescriptorsBalanced'
  BY <1>1 DEF DialError, Return, DataOK, Placed, DescriptorsBalanced
<1>2. ASSUME NEW place \in Handshake, NEW owed, pc \in Handshake, Proceed(place, owed)
      PROVE  DescriptorsBalanced'
  BY <1>2 DEF Proceed, DescriptorsBalanced
<1>3. ASSUME pc \in Handshake, AskConnect
      PROVE  DescriptorsBalanced'
  BY <1>1, <1>2, <1>3 DEF AskConnect, HandshakeError
<1>4. ASSUME (pc = "dial" /\ fds' = fds + 1) \/ (pc \in Handshake /\ fds' = fds),
             Connected, UNCHANGED leg
      PROVE  DescriptorsBalanced'
  <2>1. /\ leg = "tls" => fds' = 2
        /\ leg # "tls" => fds' = 1
    BY <1>4 DEF DataOK, DescriptorsBalanced
  <2>2. CASE leg = "tls" /\ pc' = "tls"
    BY <1>4, <2>1, <2>2 DEF DescriptorsBalanced
  <2>3. CASE leg # "tls" /\ pc' \in {"read", "finish"}
    BY <1>4, <2>1, <2>3 DEF DescriptorsBalanced
  <2>4. (leg = "tls" /\ pc' = "tls") \/ (leg # "tls" /\ pc' \in {"read", "finish"})
    BY <1>4, ConnectedShape
  <2> QED
    BY <2>2, <2>3, <2>4
<1>5. CASE Begin \/ Attempt
  <2>1. fds = 0 /\ (~MayTry /\ attempt = 0 => set.retries < 0) /\ leg = "main"
    BY <1>5, Constants DEF Begin, Attempt, MayTry, DataOK, Placed, DescriptorsBalanced, SettingsType
  <2>2. CASE Begin
    BY <2>1, <2>2 DEF Begin, DescriptorsBalanced
  <2>3. CASE pc' = "done" /\ fds' = 0
    BY <2>3 DEF DescriptorsBalanced
  <2>4. CASE pc' = "dial" /\ fds' = 0 /\ leg' = "main"
    BY <2>4 DEF DescriptorsBalanced
  <2>5. CASE pc' = "panic" /\ set'.retries < 0
    BY <2>5 DEF DescriptorsBalanced
  <2>6. ASSUME NEW state, NEW why, Return(state, why, 0)
        PROVE  pc' = "done" /\ fds' = 0
    BY <2>1, <2>6 DEF Return
  <2>7. CASE Attempt
    BY <2>1, <2>3, <2>4, <2>5, <2>6, <2>7 DEF Attempt
  <2> QED
    BY <1>5, <2>2, <2>7
<1>6. CASE DialFailsHere \/ DialRefused \/ DialProxyTimeout
  BY <1>1, <1>6 DEF DialFailsHere, DialRefused, DialProxyTimeout
<1>7. CASE DialDirect
  BY <1>4, <1>7 DEF DialDirect, Opened
<1>8. CASE DialUDP \/ DialProxy
  BY <1>8 DEF DialUDP, DialProxy, Opened, GoOn, DataOK, Placed, DescriptorsBalanced
<1>9. CASE ReadFails
  BY <1>1, <1>9 DEF ReadFails, HandshakeError
<1>10. CASE ReadMethod \/ ReadAuth
  BY <1>1, <1>2, <1>3, <1>10 DEF ReadMethod, ReadAuth, HandshakeError
<1>11. CASE ReadHead \/ ReadLength
  BY <1>1, <1>2, <1>11 DEF ReadHead, ReadLength, HandshakeError
<1>12. CASE ReadBind
  BY <1>4, <1>12 DEF ReadBind
<1>13. CASE Finishes \/ ReadSome \/ ReadNothing
  BY <1>13 DEF Finishes, Finish, ReadSome, ReadNothing, GoOn, Return, DataOK, Placed,
               DescriptorsBalanced
<1>14. CASE EndTLS \/ UDPExchange
  BY <1>14 DEF EndTLS, UDPExchange, Return, DataOK, Placed, DescriptorsBalanced
<1>15. CASE ProxyReplies \/ ProxyStops \/ PeerCloses \/ ServiceSpeaks \/ Cancel \/ Tick \/ Ended
            \/ UNCHANGED vars
  BY <1>0, <1>15
     DEF ProxyReplies, ProxyStops, PeerCloses, ServiceSpeaks, Cancel, Tick, Ended, vars
<1> QED
  BY <1>5, <1>6, <1>7, <1>8, <1>9, <1>10, <1>11, <1>12, <1>13, <1>14, <1>15 DEF Next, ProbeStep

-----------------------------------------------------------------------------
(* Time                                                                    *)

\* The times are natural numbers, and one more dial is one more DialTime.
LEMMA TimesTyped ==
  ASSUME DataOK
  PROVE  /\ set \in SettingsType
         /\ Limit \in Nat /\ DialLimit \in Nat /\ ReadTime \in Nat
         /\ HandshakeTime \in Nat /\ DialTime \in Nat /\ DialTime = DialLimit + HandshakeTime
         /\ set.via = "proxy" => HandshakeTime = Limit
         /\ Attempts \in Nat /\ ReadsTime \in Nat /\ TLSTime \in Nat /\ ExchangeTime \in Nat
         /\ Base \in Nat
         /\ \A n \in Nat : (n + 1) * DialTime = n * DialTime + DialTime
         /\ attempt < Attempts => Base + DialTime <= Attempts * DialTime
         /\ attempt <= Attempts => Base <= Attempts * DialTime
<1>1. set \in SettingsType /\ Limit \in Nat /\ DialLimit \in Nat /\ ReadTime \in Nat
      /\ attempt \in Nat
  BY Constants DEF DataOK
<1>2. HandshakeTime \in Nat /\ (set.via = "proxy" => HandshakeTime = Limit)
  BY <1>1 DEF HandshakeTime
<1>3. DialTime \in Nat /\ DialTime = DialLimit + HandshakeTime
  BY <1>1, <1>2 DEF DialTime
<1>4. Attempts \in Nat
  BY <1>1 DEF Attempts, SettingsType
<1>5. ReadsTime \in Nat /\ TLSTime \in Nat
  BY <1>1, <1>3 DEF ReadsTime, TLSTime
<1>6. ExchangeTime \in Nat
  BY <1>1, <1>5 DEF ExchangeTime
<1>7. \A n, d \in Nat : (n + 1) * d = n * d + d /\ n * d \in Nat
  OBVIOUS
<1>8. \A m, n, d \in Nat : m <= n => m * d <= n * d
  OBVIOUS
<1>9. Base \in Nat /\ \A n \in Nat : (n + 1) * DialTime = n * DialTime + DialTime
  BY <1>1, <1>3, <1>7 DEF Base
<1>10. attempt <= Attempts => Base <= Attempts * DialTime
  BY <1>1, <1>3, <1>4, <1>8 DEF Base
<1>11. ASSUME attempt < Attempts
       PROVE  Base + DialTime <= Attempts * DialTime
  <2>1. attempt + 1 <= Attempts /\ attempt + 1 \in Nat
    BY <1>1, <1>4, <1>11
  <2>2. (attempt + 1) * DialTime <= Attempts * DialTime
    BY <1>3, <1>4, <1>8, <2>1
  <2> QED
    BY <1>1, <1>7, <1>3, <2>2 DEF Base
<1> QED
  BY <1>1, <1>2, <1>3, <1>4, <1>5, <1>6, <1>9, <1>10, <1>11

LEMMA OnTimeInit == Init => OnTime /\ age <= Budget
<1> SUFFICES ASSUME Init
             PROVE  OnTime /\ age <= Budget
  OBVIOUS
<1>1. Base \in Nat /\ Attempts * DialTime \in Nat /\ ExchangeTime \in Nat
  BY DataInit, TimesTyped
<1> QED
  BY <1>1 DEF Init, OnTime, Budget, Handshake

LEMMA OnTimeNext ==
  DataOK /\ Placed /\ OnTime /\ age <= Budget /\ [Next]_vars => OnTime' /\ age' <= Budget'
<1> SUFFICES ASSUME DataOK, Placed, OnTime, age <= Budget, [Next]_vars
             PROVE  OnTime' /\ age' <= Budget'
  OBVIOUS
<1> USE DEF Handshake, Reading, loop, peer, clock
<1>1. UNCHANGED set =>
        UNCHANGED <<Limit, DialLimit, HandshakeTime, DialTime, Attempts, ReadsTime, TLSTime,
                    ExchangeTime>>
  BY DEF Limit, DialLimit, HandshakeTime, DialTime, Attempts, ReadsTime, TLSTime, ExchangeTime
<1>2. /\ UNCHANGED set => Budget' = Budget
      /\ UNCHANGED <<set, attempt>> => Base' = Base
  BY <1>1 DEF Budget, Base
<1> DEFINE D == DialTime
           R == ReadsTime
<1>3. /\ Limit \in Nat /\ DialLimit \in Nat /\ ReadTime \in Nat /\ HandshakeTime \in Nat /\ D \in Nat /\ R \in Nat
      /\ D = DialLimit + HandshakeTime /\ Base \in Nat
      /\ left \in Nat /\ age \in Nat
  BY TimesTyped DEF DataOK
<1>0. ASSUME UNCHANGED <<set, attempt, pc, leg, left, age>>
      PROVE  OnTime' /\ age' <= Budget'
  BY <1>0, <1>1, <1>2 DEF OnTime
<1>4. ASSUME NEW state, NEW why, NEW held, Return(state, why, held)
      PROVE  OnTime' /\ age' <= Budget'
  BY <1>2, <1>4 DEF Return, OnTime
<1>5. ASSUME NEW why, NEW opened, DialError(why, opened), pc \in Handshake \cup {"dial"}
      PROVE  OnTime' /\ age' <= Budget'
  <2>1. CASE leg = "main" /\ ~(leg = "tls" /\ Return("open", "network", opened + 1))
    <3>1. Base' = Base + D
      BY <1>1, <1>5, <2>1, TimesTyped DEF DialError, Base, DataOK
    <3>2. age <= Base + D
      BY <1>3, <1>5, <2>1 DEF OnTime
    <3> QED
      BY <1>2, <1>5, <2>1, <3>1, <3>2 DEF DialError, OnTime
  <2> QED
    BY <1>4, <1>5, <2>1 DEF DialError
<1>6. ASSUME NEW place \in Handshake, NEW owed, pc \in Handshake, Proceed(place, owed)
      PROVE  OnTime' /\ age' <= Budget'
  <2>1. UNCHANGED <<set, attempt, leg, left, age>>
    BY <1>6 DEF Proceed, LeftAfterRead
  <2>2. pc' \in Handshake
    BY <1>6 DEF Proceed
  <2> QED
    BY <1>1, <1>2, <1>6, <2>1, <2>2 DEF OnTime
<1>7. ASSUME pc \in Handshake, AskConnect
      PROVE  OnTime' /\ age' <= Budget'
  BY <1>5, <1>6, <1>7 DEF AskConnect, HandshakeError
<1>8. ASSUME Connected, UNCHANGED leg, pc \in Handshake \cup {"dial"},
             pc = "dial" => HandshakeTime = 0
      PROVE  OnTime' /\ age' <= Budget'
  <2>1. UNCHANGED <<set, attempt, age>>
    BY <1>8, ConnectedShape
  <2>2. CASE leg = "tls" /\ pc' = "tls" /\ left' = Limit
    <3>1. age <= Base + D + R + D
      BY <1>3, <1>8, <2>2 DEF OnTime
    <3> QED
      BY <1>1, <1>2, <1>3, <1>8, <2>1, <2>2, <3>1 DEF OnTime
  <2>3. CASE leg # "tls" /\ pc' \in {"read", "finish"} /\ (pc' = "read" => left' = ReadTime)
    <3>1. leg = "main"
      BY <2>3 DEF DataOK
    <3>2. age <= Base + D
      BY <1>3, <1>8, <3>1 DEF OnTime
    <3> QED
      BY <1>1, <1>2, <1>3, <1>8, <2>1, <2>3, <3>1, <3>2 DEF OnTime
  <2>4. \/ leg = "tls" /\ pc' = "tls" /\ left' = Limit
        \/ leg # "tls" /\ pc' \in {"read", "finish"} /\ (pc' = "read" => left' = ReadTime)
    BY <1>8, ConnectedShape
  <2> QED
    BY <2>2, <2>3, <2>4
<1>9. CASE Begin
  BY <1>1, <1>2, <1>9 DEF Begin, OnTime
<1>10. CASE Attempt
  <2>1. leg = "main" /\ age <= Base
    BY <1>10 DEF Attempt, DataOK, Placed, OnTime
  <2>2. CASE \E state, why, held : Return(state, why, held)
    BY <1>4, <2>2
  <2>3. CASE pc' \in {"dial", "panic"} /\ (pc' = "dial" => left' = DialLimit)
             /\ UNCHANGED <<set, listening, loop, fds, down, skip, peer, banner, clock, result>>
    BY <1>1, <1>2, <1>3, <2>1, <2>3 DEF OnTime
  <2> QED
    BY <1>10, <2>2, <2>3 DEF Attempt
<1>11. CASE DialFailsHere \/ DialRefused \/ DialProxyTimeout
  BY <1>5, <1>11 DEF DialFailsHere, DialRefused, DialProxyTimeout
<1>12. CASE DialDirect
  BY <1>8, <1>12 DEF DialDirect, HandshakeTime
<1>13. CASE DialUDP
  <2>1. leg = "main" /\ age <= Base + D
    BY <1>3, <1>13 DEF DialUDP, DataOK, Placed, OnTime
  <2> QED
    BY <1>1, <1>2, <1>3, <1>13, <2>1 DEF DialUDP, GoOn, OnTime
<1>14. CASE DialProxy
  <2>1. /\ leg = "main" => age <= Base + DialLimit
        /\ leg = "tls" => age <= Base + D + R + DialLimit
    BY <1>3, <1>14 DEF DialProxy, OnTime
  <2>2. HandshakeTime = Limit
    BY <1>14 DEF DialProxy, HandshakeTime
  <2>3. UNCHANGED <<set, attempt, leg, age>> /\ pc' = "method" /\ left' = Limit
    BY <1>14 DEF DialProxy, GoOn
  <2> QED
    BY <1>1, <1>2, <1>3, <2>1, <2>2, <2>3 DEF OnTime
<1>15. CASE ReadFails
  BY <1>5, <1>15 DEF ReadFails, HandshakeError
<1>16. CASE ReadMethod \/ ReadAuth
  BY <1>5, <1>6, <1>7, <1>16 DEF ReadMethod, ReadAuth, HandshakeError
<1>17. CASE ReadHead \/ ReadLength
  BY <1>5, <1>6, <1>17 DEF ReadHead, ReadLength, HandshakeError
<1>18. CASE ReadBind
  BY <1>8, <1>18 DEF ReadBind
<1>19. CASE Finishes
  <2>1. CASE Return("open", "network", 1)
    BY <1>4, <2>1
  <2>2. CASE GoOn("dial", DialLimit) /\ leg' = "tls"
    <3>1. age <= Base + D + R
      BY <1>19 DEF Finishes, DataOK, Placed, OnTime
    <3> QED
      BY <1>1, <1>2, <1>3, <2>2, <3>1 DEF GoOn, OnTime
  <2> QED
    BY <1>19, <2>1, <2>2 DEF Finishes, Finish
<1>20. CASE ReadSome \/ ReadNothing
  <2>1. /\ leg = "main" /\ leg' = leg
        /\ pc = "read" => age + left <= Base + D + ReadTime
        /\ pc = "reread" => age + left <= Base + D + 2 * ReadTime
        /\ set.read /\ (pc = "reread" => set.http) /\ pc \in {"read", "reread"}
    BY <1>20 DEF ReadSome, ReadNothing, Placed, OnTime
  <2>2. UNCHANGED <<set, attempt, age>>
    BY <1>20 DEF ReadSome, ReadNothing, GoOn
  <2>3. R >= ReadTime /\ (set.http => R = 2 * ReadTime)
    BY <1>3, <2>1 DEF ReadsTime
  <2>4. CASE pc' = "finish"
    <3>1. age <= Base + D + R
      BY <1>3, <2>1, <2>3
    <3> QED
      BY <1>1, <1>2, <2>1, <2>2, <2>4, <3>1 DEF OnTime
  <2>5. CASE pc = "read" /\ pc' = "reread" /\ left' = ReadTime
    <3>1. age + ReadTime <= Base + D + 2 * ReadTime
      BY <1>3, <2>1, <2>5
    <3> QED
      BY <1>1, <1>2, <2>1, <2>2, <2>5, <3>1 DEF OnTime
  <2> QED
    BY <1>20, <2>4, <2>5 DEF ReadSome, ReadNothing, GoOn
<1>21. CASE EndTLS \/ UDPExchange
  BY <1>4, <1>21 DEF EndTLS, UDPExchange
<1>22. CASE Tick
  <2>1. UNCHANGED <<set, attempt, pc, leg>> /\ left' = left - 1 /\ age' = age + 1 /\ left > 0
    BY <1>22 DEF Tick
  <2>2. age' + left' = age + left /\ left' <= left
    BY <1>3, <2>1
  <2>3. pc \in Handshake \cup {"dial", "read", "reread", "tls", "udp"}
    BY <1>22 DEF Tick, Blocked
  <2>4. OnTime'
    BY <1>1, <1>2, <1>3, <2>1, <2>2, <2>3 DEF OnTime
  <2>5. age + left <= Budget
    <3>1. attempt < Attempts /\ leg \in {"main", "tls"}
      BY <2>3 DEF Placed, DataOK
    <3>2. Base + D <= Attempts * D /\ Attempts \in Nat /\ ExchangeTime \in Nat
      BY <3>1, TimesTyped
    <3>3. Attempts * D \in Nat
      BY <1>3, <3>2
    <3>4. CASE leg = "tls"
      <4>1. pc \in Handshake \cup {"dial", "tls"} /\ set.tls /\ set.via # "udp"
        BY <2>3, <3>4 DEF Placed
      <4>2. ExchangeTime = R + (D + Limit)
        BY <4>1 DEF ExchangeTime, TLSTime
      <4>3. age + left <= Base + D + R + D + Limit
        BY <1>3, <3>4, <4>1 DEF OnTime
      <4> QED
        BY <1>3, <3>2, <3>3, <4>2, <4>3 DEF Budget
    <3>5. CASE leg = "main" /\ pc = "udp"
      <4>1. ExchangeTime = Limit
        BY <3>5 DEF Placed, ExchangeTime
      <4>2. age + left <= Base + D + Limit
        BY <3>5 DEF OnTime
      <4> QED
        BY <1>3, <3>2, <3>3, <4>1, <4>2 DEF Budget
    <3>6. CASE leg = "main" /\ pc \in {"read", "reread"}
      <4>1. set.read /\ (pc = "reread" => set.http) /\ set.via # "udp"
        BY <3>6 DEF Placed
      <4>2. R >= ReadTime /\ (set.http => R = 2 * ReadTime)
        BY <1>3, <4>1 DEF ReadsTime
      <4>3. age + left <= Base + D + R
        BY <1>3, <3>6, <4>1, <4>2 DEF OnTime
      <4>4. ExchangeTime = R + TLSTime /\ TLSTime \in Nat
        BY <4>1, TimesTyped DEF ExchangeTime
      <4> QED
        BY <1>3, <3>2, <3>3, <4>3, <4>4 DEF Budget
    <3>7. CASE leg = "main" /\ pc \in Handshake \cup {"dial"}
      <4>1. age + left <= Base + D
        BY <1>3, <3>7 DEF OnTime
      <4> QED
        BY <1>3, <3>2, <3>3, <4>1 DEF Budget
    <3> QED
      BY <2>3, <3>1, <3>4, <3>5, <3>6, <3>7 DEF Placed
  <2>6. Budget' = Budget /\ Budget \in Nat
    <3>1. Attempts \in Nat /\ D \in Nat /\ ExchangeTime \in Nat
      BY TimesTyped
    <3>2. Attempts * D \in Nat
      BY <3>1
    <3> QED
      BY <1>2, <2>1, <3>1, <3>2 DEF Budget
  <2>7. age' <= Budget'
    BY <1>3, <2>1, <2>5, <2>6
  <2> QED
    BY <2>4, <2>7
<1>23. CASE ProxyReplies \/ ProxyStops \/ PeerCloses \/ ServiceSpeaks \/ Cancel \/ Ended
            \/ UNCHANGED vars
  BY <1>0, <1>23
     DEF ProxyReplies, ProxyStops, PeerCloses, ServiceSpeaks, Cancel, Ended, vars
<1> QED
  BY <1>9, <1>10, <1>11, <1>12, <1>13, <1>14, <1>15, <1>16, <1>17, <1>18, <1>19, <1>20, <1>21,
     <1>22, <1>23 DEF Next, ProbeStep

LEMMA LetGoInit == Init => LetGo
<1> SUFFICES ASSUME Init
             PROVE  LetGo
  OBVIOUS
<1>1. HandshakeTime \in Nat /\ ReadsTime \in Nat
  BY DataInit, TimesTyped
<1> QED
  BY <1>1 DEF Init, LetGo, Handshake

LEMMA LetGoNext == DataOK /\ Placed /\ OnTime /\ LetGo /\ [Next]_vars => LetGo'
<1> SUFFICES ASSUME DataOK, Placed, OnTime, LetGo, [Next]_vars
             PROVE  LetGo'
  OBVIOUS
<1> USE DEF Handshake, Reading, loop, peer, clock
<1> DEFINE H == HandshakeTime
           R == ReadsTime
<1>1. UNCHANGED set => H' = H /\ R' = R /\ Limit' = Limit
  BY DEF HandshakeTime, ReadsTime, Limit
<1>2. /\ Limit \in Nat /\ ReadTime \in Nat /\ H \in Nat /\ R \in Nat
      /\ left \in Nat /\ late \in Nat
  BY TimesTyped DEF DataOK
<1>0. ASSUME UNCHANGED <<set, pc, left, cancelled, late>>
      PROVE  LetGo'
  BY <1>0, <1>1 DEF LetGo
<1>3. ASSUME NEW state, NEW why, NEW held, Return(state, why, held)
      PROVE  LetGo'
  BY <1>1, <1>3 DEF Return, LetGo
<1>4. ASSUME NEW why, NEW opened, DialError(why, opened), pc \in Handshake \cup {"dial"}
      PROVE  LetGo'
  <2>1. CASE leg = "main" /\ ~(leg = "tls" /\ Return("open", "network", opened + 1))
    <3>1. late <= H + R
      BY <1>2, <1>4, <2>1 DEF LetGo
    <3>2. UNCHANGED <<set, cancelled, late>> /\ pc' = "attempt"
      BY <1>4, <2>1 DEF DialError
    <3> QED
      BY <1>1, <1>2, <3>1, <3>2 DEF LetGo
  <2> QED
    BY <1>3, <1>4, <2>1 DEF DialError
<1>5. ASSUME NEW place \in Handshake, NEW owed, pc \in Handshake, Proceed(place, owed)
      PROVE  LetGo'
  <2>1. UNCHANGED <<set, left, cancelled, late>> /\ pc' \in Handshake
    BY <1>5 DEF Proceed, LeftAfterRead
  <2> QED
    BY <1>1, <1>2, <1>5, <2>1 DEF LetGo
<1>6. ASSUME pc \in Handshake, AskConnect
      PROVE  LetGo'
  BY <1>4, <1>5, <1>6 DEF AskConnect, HandshakeError
<1>7. ASSUME Connected, pc \in Handshake \/ ~cancelled
      PROVE  LetGo'
  <2>1. UNCHANGED <<set, cancelled, late>>
    BY <1>7, ConnectedShape
  <2>2. late <= H
    BY <1>2, <1>7 DEF LetGo
  <2>3. \/ pc' = "tls" /\ left' = Limit
        \/ pc' = "read" /\ left' = ReadTime
        \/ pc' = "finish" /\ left' = 0
    BY <1>7, ConnectedShape
  <2>4. late <= H + R /\ late + Limit <= H + Limit /\ late + ReadTime <= H + ReadTime
    BY <1>2, <2>2
  <2> QED
    BY <1>1, <1>2, <2>1, <2>3, <2>4 DEF LetGo
<1>8. CASE Begin
  BY <1>1, <1>2, <1>8 DEF Begin, LetGo
<1>9. CASE Attempt
  <2>1. CASE \E state, why, held : Return(state, why, held)
    BY <1>3, <2>1
  <2>2. CASE pc' \in {"dial", "panic"}
             /\ UNCHANGED <<set, listening, loop, fds, down, skip, peer, banner, clock, result>>
    <3>1. late <= H + R
      BY <1>9 DEF Attempt, LetGo
    <3> QED
      BY <1>1, <1>2, <2>2, <3>1 DEF LetGo
  <2> QED
    BY <1>9, <2>1, <2>2 DEF Attempt
<1>10. CASE DialFailsHere \/ DialRefused \/ DialProxyTimeout
  BY <1>4, <1>10 DEF DialFailsHere, DialRefused, DialProxyTimeout
<1>11. CASE DialDirect
  BY <1>7, <1>11 DEF DialDirect
<1>12. CASE DialUDP \/ DialProxy
  <2>1. late = 0 /\ UNCHANGED <<set, cancelled, late>> /\ left' = Limit
    BY <1>12 DEF DialUDP, DialProxy, GoOn, LetGo
  <2>2. CASE pc' = "udp"
    BY <1>1, <1>2, <2>1, <2>2 DEF LetGo
  <2>3. CASE pc' = "method" /\ H = Limit
    BY <1>1, <1>2, <2>1, <2>3 DEF LetGo
  <2>4. pc' = "udp" \/ (pc' = "method" /\ H = Limit)
    BY <1>12 DEF DialUDP, DialProxy, GoOn, HandshakeTime
  <2> QED
    BY <2>2, <2>3, <2>4
<1>13. CASE ReadFails
  BY <1>4, <1>13 DEF ReadFails, HandshakeError
<1>14. CASE ReadMethod \/ ReadAuth
  BY <1>4, <1>5, <1>6, <1>14 DEF ReadMethod, ReadAuth, HandshakeError
<1>15. CASE ReadHead \/ ReadLength
  BY <1>4, <1>5, <1>15 DEF ReadHead, ReadLength, HandshakeError
<1>16. CASE ReadBind
  BY <1>7, <1>16 DEF ReadBind
<1>17. CASE Finishes
  <2>1. CASE Return("open", "network", 1)
    BY <1>3, <2>1
  <2>2. CASE GoOn("dial", DialLimit)
    <3>1. late <= H + R
      BY <1>17 DEF Finishes, LetGo
    <3> QED
      BY <1>1, <1>2, <2>2, <3>1 DEF GoOn, LetGo
  <2> QED
    BY <1>17, <2>1, <2>2 DEF Finishes, Finish
<1>18. CASE ReadSome \/ ReadNothing
  <2>1. /\ pc = "read" => late + left <= H + ReadTime
        /\ pc = "reread" => late + left <= H + 2 * ReadTime
        /\ set.read /\ (pc = "reread" => set.http) /\ pc \in {"read", "reread"}
    BY <1>18 DEF ReadSome, ReadNothing, Placed, LetGo
  <2>2. UNCHANGED <<set, cancelled, late>>
    BY <1>18 DEF ReadSome, ReadNothing, GoOn
  <2>3. R >= ReadTime /\ (set.http => R = 2 * ReadTime)
    BY <1>2, <2>1 DEF ReadsTime
  <2>4. late <= H + R
    BY <1>2, <2>1, <2>3
  <2>5. CASE pc' = "finish"
    BY <1>1, <1>2, <2>2, <2>4, <2>5 DEF LetGo
  <2>6. CASE pc = "read" /\ pc' = "reread" /\ left' = ReadTime
    <3>1. late + ReadTime <= H + 2 * ReadTime
      BY <1>2, <2>1, <2>6
    <3> QED
      BY <1>1, <1>2, <2>2, <2>4, <2>6, <3>1 DEF LetGo
  <2> QED
    BY <1>18, <2>5, <2>6 DEF ReadSome, ReadNothing, GoOn
<1>19. CASE EndTLS \/ UDPExchange
  BY <1>3, <1>19 DEF EndTLS, UDPExchange
<1>20. CASE Cancel
  BY <1>1, <1>2, <1>20 DEF Cancel, LetGo
<1>21. CASE Tick
  <2>1. /\ UNCHANGED <<set, pc, cancelled>> /\ left' = left - 1 /\ left > 0
        /\ late' = IF cancelled THEN late + 1 ELSE late
    BY <1>21 DEF Tick
  <2>2. late' \in Nat /\ late' + left' <= late + left
    BY <1>2, <2>1
  <2>3. ~cancelled => late' = 0
    BY <2>1 DEF LetGo
  <2>4. pc \in {"read", "reread", "tls", "udp"} \cup Handshake \/ (pc = "dial" /\ ~cancelled)
    BY <1>21 DEF Tick, Blocked
  <2>5. CASE pc = "dial" /\ ~cancelled
    BY <1>1, <1>2, <2>1, <2>3, <2>5 DEF LetGo
  <2>6. CASE pc \in Handshake
    BY <1>1, <1>2, <2>1, <2>2, <2>3, <2>6 DEF LetGo
  <2>7. CASE pc \in {"read", "reread"}
    <3>1. set.read /\ (pc = "reread" => set.http)
      BY <2>7 DEF Placed
    <3>2. R >= ReadTime /\ (set.http => R = 2 * ReadTime)
      BY <1>2, <3>1 DEF ReadsTime
    <3>3. /\ pc = "read" => late' + left' <= H + ReadTime
          /\ pc = "reread" => late' + left' <= H + 2 * ReadTime
      BY <1>2, <2>1, <2>2, <2>7 DEF LetGo
    <3>4. late' <= H + R
      BY <1>2, <2>1, <2>2, <2>7, <3>1, <3>2, <3>3
    <3> QED
      BY <1>1, <1>2, <2>1, <2>3, <2>7, <3>3, <3>4 DEF LetGo
  <2>8. CASE pc \in {"tls", "udp"}
    <3>1. /\ pc = "tls" => late' + left' <= H + Limit /\ set.tls
          /\ pc = "udp" => late' + left' <= Limit /\ set.via = "udp"
      BY <1>2, <2>1, <2>2, <2>8 DEF LetGo, Placed
    <3>2. late' <= H + Limit /\ (set.tls \/ set.via = "udp")
      BY <1>2, <2>1, <2>2, <2>8, <3>1
    <3> QED
      BY <1>1, <1>2, <2>1, <2>3, <2>8, <3>1, <3>2 DEF LetGo
  <2> QED
    BY <2>4, <2>5, <2>6, <2>7, <2>8
<1>22. CASE ProxyReplies \/ ProxyStops \/ PeerCloses \/ ServiceSpeaks \/ Ended \/ UNCHANGED vars
  BY <1>0, <1>22 DEF ProxyReplies, ProxyStops, PeerCloses, ServiceSpeaks, Ended, vars
<1> QED
  BY <1>8, <1>9, <1>10, <1>11, <1>12, <1>13, <1>14, <1>15, <1>16, <1>17, <1>18, <1>19, <1>20,
     <1>21, <1>22 DEF Next, ProbeStep

-----------------------------------------------------------------------------
(* Bytes                                                                   *)

\* Reading n bytes of a reply of m brings it, and what follows it, closer.
LEMMA Shifted ==
  ASSUME DataOK, NEW m \in Nat, NEW n \in Nat, NEW k \in Nat, m = n + k,
         n <= Len(down), n > 0, proxy = "connect" => down = <<>>,
         down' = Rest(down, n), said' = said, proxy \in {"silent", "closed"} => proxy' = proxy
  PROVE  /\ Heard(m) => Heard(k)'
         /\ Begun(m) => Begun(k)'
<1>1. /\ down \in Seq(Nat) /\ Len(down) \in Nat /\ said \in Nat
      /\ down' \in Seq(Nat) /\ Len(down') = Len(down) - n
      /\ \A i \in 1 .. (Len(down) - n) : down'[i] = down[n + i]
  BY RestShape, LenProperties DEF DataOK
<1>2. ASSUME Heard(m)
      PROVE  Heard(k)'
  <2>1. Len(down) = m + said /\ \A i \in 1 .. said : down[m + i] = Service(i)
    BY <1>2 DEF Heard
  <2>2. Len(down') = k + said'
    BY <1>1, <2>1
  <2>3. ASSUME NEW i \in 1 .. said'
        PROVE  down'[k + i] = Service(i)
    <3>1. i \in 1 .. said /\ k + i \in 1 .. (Len(down) - n) /\ n + (k + i) = m + i
      BY <1>1, <2>1
    <3> QED
      BY <1>1, <2>1, <3>1
  <2> QED
    BY <2>2, <2>3 DEF Heard, Service
<1>3. ASSUME Begun(m)
      PROVE  Begun(k)'
  <2>1. Len(down) < m /\ said = 0 /\ proxy \in {"silent", "closed"}
    BY <1>1, <1>3 DEF Begun
  <2> QED
    BY <1>1, <2>1 DEF Begun
<1> QED
  BY <1>2, <1>3

LEMMA NothingAhead ==
  ASSUME down = <<>>, said = 0
  PROVE  Heard(0)
BY DEF Heard

\* What the client finds in the four bytes that say whether it is connected.
LEMMA AnswerRead ==
  ASSUME DataOK, pc = "head", Complete,
         NEW reply \in Answers, Agrees(reply), Accepts(Taken(down, 4))
  PROVE  /\ listening /\ Len(reply) \in Nat
         /\ Taken(down, 4)[4] = 1 => Len(reply) = 4 + 6
         /\ Taken(down, 4)[4] = 4 => Len(reply) = 4 + 18
         /\ Taken(down, 4)[4] = 3 => \E l \in Nat :
              Len(reply) = 4 + (l + 3) /\ (Len(down) > 4 => down[5] = l)
<1>1. /\ reply \in Seq(Nat) /\ Len(reply) \in Nat /\ Len(reply) >= 4
      /\ reply \in Refused => reply[2] = 5
  <2>1. reply \in Granted \cup Refused
    BY DEF Answers
  <2>2. reply \in Seq(Nat) /\ Len(reply) \in Nat
    BY <2>1, ReplyShape, LenProperties
  <2>3. CASE reply \in Refused
    <3>1. Len(reply) = 10 /\ reply[2] = 5
      BY <2>3, ReplyShape, Zenon
    <3>2. Len(reply) >= 4
      BY <3>1
    <3> QED
      BY <2>2, <3>1, <3>2, Zenon
  <2>4. CASE reply \in Granted
    <3>1. Len(reply) >= 4 /\ reply[2] = 0
      BY <2>4, ReplyShape
    <3>2. reply \notin Refused
      BY <3>1, ReplyShape
    <3> QED
      BY <2>2, <3>1, <3>2
  <2> QED
    BY <2>1, <2>3, <2>4
<1>2. Len(down) \in Nat /\ Len(down) >= 4
  BY HeadTyped, LenProperties DEF DataOK
<1>3. down[2] = reply[2] /\ down[4] = reply[4]
  BY <1>1, <1>2 DEF Agrees
<1>4. Taken(down, 4)[2] = down[2] /\ Taken(down, 4)[4] = down[4]
  BY HeadTyped
<1>5. reply[2] = 0
  BY <1>3, <1>4 DEF Accepts
<1>6. reply \in Granted /\ listening
  BY <1>1, <1>5 DEF Answers
<1>7. ASSUME Taken(down, 4)[4] = 1
      PROVE  Len(reply) = 4 + 6
  <2>1. reply[4] = 1
    BY <1>3, <1>4, <1>7
  <2>2. Len(reply) = 10
    BY <1>6, <2>1, ReplyShape
  <2> QED
    BY <2>2
<1>8. ASSUME Taken(down, 4)[4] = 4
      PROVE  Len(reply) = 4 + 18
  <2>1. reply[4] = 4
    BY <1>3, <1>4, <1>8
  <2>2. Len(reply) = 22
    BY <1>6, <2>1, ReplyShape
  <2> QED
    BY <2>2
<1>9. ASSUME Taken(down, 4)[4] = 3
      PROVE  \E l \in Nat : Len(reply) = 4 + (l + 3) /\ (Len(down) > 4 => down[5] = l)
  <2>1. reply[4] = 3
    BY <1>3, <1>4, <1>9
  <2>2. Len(reply) >= 5 /\ Len(reply) = reply[5] + 7
    BY <1>6, <2>1, ReplyShape
  <2>3. reply[5] \in Nat
    BY <1>1, <2>2
  <2>4. Len(reply) = 4 + (reply[5] + 3)
    BY <2>2, <2>3
  <2>5. Len(down) > 4 => down[5] = reply[5]
    BY <1>1, <1>2, <2>2 DEF Agrees
  <2> QED
    BY <2>3, <2>4, <2>5
<1> QED
  BY <1>1, <1>6, <1>7, <1>8, <1>9

LEMMA RefusedAnswers == \E reply \in Answers : reply \in Seq(Nat) /\ Len(reply) > 4
<1>1. PICK reply \in Refused : TRUE
  BY DEF Refused
<1>2. reply \in Seq(Nat) /\ Len(reply) = 10 /\ reply[2] = 5
  BY <1>1, ReplyShape
<1>3. reply \notin Granted
  <2>1. reply \in Granted => reply[2] = 0
    BY ReplyShape
  <2> QED
    BY <1>2, <2>1
<1>4. Len(reply) > 4
  BY <1>2
<1> QED
  BY <1>1, <1>2, <1>3, <1>4, Zenon DEF Answers

\* The handshake goes on: what is unread stays in step.
LEMMA ReadInStep ==
  ASSUME DataOK, InStep, ReadMethod \/ ReadAuth \/ ReadHead \/ ReadLength,
         ~ \E why : HandshakeError(why)
  PROVE  InStep'
<1> USE DEF Handshake, Reading, Asked, loop, peer, clock
<1>1. Complete /\ pc \in {"method", "auth", "head", "length"}
  BY DEF ReadMethod, ReadAuth, ReadHead, ReadLength
<1>2. /\ Needs(pc) \in Nat /\ Needs(pc) <= Len(down) /\ Len(down) \in Nat
      /\ Rest(down, Needs(pc)) \in Seq(Nat)
      /\ Len(Rest(down, Needs(pc))) = Len(down) - Needs(pc)
      /\ \A i \in 1 .. (Len(down) - Needs(pc)) : Rest(down, Needs(pc))[i] = down[Needs(pc) + i]
  BY <1>1, NeedsTyped
<1>3. ASSUME pc \in {"method", "auth"}
      PROVE  /\ Rest(down, Needs(pc)) = <<>> /\ said = 0
             /\ proxy \in {"waits", "silent", "closed"}
  <2>1. Len(down) <= 2 /\ Needs(pc) = 2 /\ said = 0
    BY <1>3 DEF InStep, Needs
  <2>2. Len(Rest(down, Needs(pc))) = 0
    BY <1>2, <2>1
  <2>3. proxy = pc => down = <<>>
    BY <1>3 DEF InStep
  <2>4. proxy # pc
    BY <1>2, <2>1, <2>3
  <2> QED
    BY <1>2, <1>3, <2>1, <2>2, <2>4, EmptySeq DEF InStep
<1>4. ASSUME pc \in {"method", "auth"}, Proceed("head", "connect")
      PROVE  InStep'
  <2>1. /\ pc' = "head" /\ down' = <<>> /\ said' = 0 /\ UNCHANGED listening
        /\ proxy' \in {"connect", "silent", "closed"}
    BY <1>3, <1>4 DEF Proceed
  <2>2. PICK reply \in Answers : reply \in Seq(Nat) /\ Len(reply) > 4
    BY RefusedAnswers
  <2>3. Agrees(reply)' /\ Begun(Len(reply))'
    <3>1. Len(reply) \in Nat
      BY <2>2, LenProperties
    <3> QED
      BY <2>1, <2>2, <3>1 DEF Agrees, Begun
  <2>4. reply \in Answers'
    BY <2>1, <2>2 DEF Answers
  <2> QED
    BY <2>1, <2>3, <2>4 DEF InStep
<1>5. CASE ReadMethod
  <2>1. ASSUME Proceed("auth", "auth")
        PROVE  InStep'
    <3>1. /\ pc' = "auth" /\ down' = <<>> /\ said' = 0
          /\ proxy' \in {"auth", "silent", "closed"}
      BY <1>3, <1>5, <2>1 DEF Proceed, ReadMethod
    <3> QED
      BY <3>1 DEF InStep
  <2> QED
    BY <1>4, <1>5, <2>1 DEF ReadMethod, AskConnect
<1>6. CASE ReadAuth
  BY <1>4, <1>6 DEF ReadAuth, AskConnect
<1>7. CASE ReadHead
  <2> DEFINE atyp == Taken(down, 4)[4]
  <2>1. PICK place \in {"bind", "length"} :
          /\ Accepts(Taken(down, 4)) /\ Proceed(place, "relay")
          /\ \/ place = "bind" /\ atyp \in {1, 4} /\ skip' = SkipOf(atyp, 0)
             \/ place = "length" /\ atyp = 3
    BY <1>7 DEF ReadHead
  <2>2. PICK reply \in Answers : Agrees(reply) /\ (Begun(Len(reply)) \/ Heard(Len(reply)))
    BY <1>7 DEF ReadHead, InStep
  <2>3. /\ listening /\ Len(reply) \in Nat
        /\ atyp = 1 => Len(reply) = 4 + 6
        /\ atyp = 4 => Len(reply) = 4 + 18
        /\ atyp = 3 => \E l \in Nat : Len(reply) = 4 + (l + 3) /\ (Len(down) > 4 => down[5] = l)
    BY <1>7, <2>1, <2>2, AnswerRead DEF ReadHead
  <2>4. /\ pc' = place /\ down' = Rest(down, 4) /\ said' = said /\ UNCHANGED listening
        /\ proxy' = IF proxy = "waits" THEN "relay" ELSE proxy
        /\ pc = "head" /\ Needs(pc) = 4
    BY <1>7, <2>1 DEF Proceed, ReadHead, Needs
  <2>5. proxy = "connect" => down = <<>>
    BY <2>4 DEF InStep
  <2>6. proxy # "connect"
    BY <1>2, <2>4, <2>5
  <2>7. proxy' \notin Asked
    BY <2>4, <2>6 DEF InStep
  <2>8. ASSUME NEW k \in Nat, Len(reply) = 4 + k
        PROVE  Heard(k)' \/ Begun(k)'
    BY <1>2, <2>2, <2>3, <2>4, <2>5, <2>8, Shifted
  <2>9. CASE place = "bind"
    <3>1. skip' \in Nat /\ Len(reply) = 4 + skip'
      <4>1. CASE atyp = 1
        <5>1. skip' = 6
          BY <2>1, <2>9, <4>1 DEF SkipOf
        <5> QED
          BY <2>3, <4>1, <5>1
      <4>2. CASE atyp = 4
        <5>1. skip' = 18
          BY <2>1, <2>9, <4>2 DEF SkipOf
        <5> QED
          BY <2>3, <4>2, <5>1
      <4> QED
        BY <2>1, <2>9, <4>1, <4>2
    <3>2. PICK k \in Nat : k = skip'
      BY <3>1
    <3>3. Heard(k)' \/ Begun(k)'
      BY <2>8, <3>1, <3>2
    <3>4. Heard(skip)' \/ Begun(skip)'
      BY <3>2, <3>3 DEF Heard, Begun
    <3> QED
      BY <2>3, <2>4, <2>7, <2>9, <3>4 DEF InStep
  <2>10. CASE place = "length"
    <3>1. PICK l \in Nat : Len(reply) = 4 + (l + 3) /\ (Len(down) > 4 => down[5] = l)
      BY <2>1, <2>3, <2>10
    <3>2. Heard(l + 3)' \/ Begun(l + 3)'
      BY <2>8, <3>1
    <3>3. Len(down') > 0 => down'[1] = l
      <4>1. Len(down') = Len(down) - 4 /\ \A i \in 1 .. (Len(down) - 4) : down'[i] = down[4 + i]
        BY <1>2, <2>4
      <4> QED
        BY <1>2, <3>1, <4>1
    <3> QED
      BY <2>3, <2>4, <2>7, <2>10, <3>2, <3>3 DEF InStep
  <2> QED
    BY <2>9, <2>10
<1>8. CASE ReadLength
  <2>1. /\ pc = "length" /\ Needs(pc) = 1 /\ pc' = "bind" /\ down' = Rest(down, 1) /\ said' = said
        /\ proxy' = IF proxy = "waits" THEN "relay" ELSE proxy
        /\ UNCHANGED listening /\ skip' = down[1] + 2
    BY <1>8 DEF ReadLength, Proceed, Needs, SkipOf
  <2>2. PICK l \in Nat : (Len(down) > 0 => down[1] = l) /\ (Begun(l + 3) \/ Heard(l + 3))
    BY <2>1 DEF InStep
  <2>3. skip' = l + 2 /\ l + 2 \in Nat /\ l + 3 = 1 + (l + 2) /\ l + 3 \in Nat
    BY <1>2, <2>1, <2>2
  <2>4. proxy \notin Asked /\ listening
    BY <2>1 DEF InStep
  <2>5. Heard(l + 2)' \/ Begun(l + 2)'
    BY <1>2, <2>1, <2>2, <2>3, <2>4, Shifted
  <2>6. Heard(skip)' \/ Begun(skip)'
    BY <2>3, <2>5 DEF Heard, Begun
  <2> QED
    BY <2>1, <2>4, <2>6 DEF InStep
<1> QED
  BY <1>5, <1>6, <1>7, <1>8

\* A reply comes, whole or cut short, only where one is waited for.
LEMMA ReplyInStep ==
  ASSUME DataOK, InStep, ProxyReplies \/ ProxyStops
  PROVE  InStep'
<1> USE DEF Reading, Asked, loop, peer, clock
<1>1. proxy \in Asked /\ pc \in {"method", "auth", "head"}
  BY DEF ProxyReplies, ProxyStops, InStep
<1>2. PICK reply \in Replies :
        \/ /\ down' = down \o reply
           /\ proxy' = IF reply \in Granted THEN "relay" ELSE "waits"
        \/ /\ \E n \in {0, 1, Len(reply) - 1} : down' = down \o Taken(reply, n)
           /\ proxy' = "silent"
  BY DEF ProxyReplies, ProxyStops
<1>3. UNCHANGED <<listening, pc, said>>
  BY DEF ProxyReplies, ProxyStops
<1>4. /\ reply \in Seq(Nat) /\ Len(reply) \in Nat /\ Len(reply) >= 2
      /\ \A n \in {0, 1, Len(reply) - 1} : n \in Nat /\ n < Len(reply)
  BY <1>1, RepliesTyped, LenProperties
<1>5. down = <<>> /\ said = 0
  BY <1>1 DEF InStep
<1>6. down \o reply = reply
  BY <1>4, <1>5, ConcatEmptySeq
<1>7. ASSUME NEW n \in {0, 1, Len(reply) - 1}
      PROVE  /\ n \in Nat /\ n < Len(reply)
             /\ down \o Taken(reply, n) = Taken(reply, n) /\ Len(Taken(reply, n)) = n
             /\ \A i \in 1 .. n : Taken(reply, n)[i] = reply[i]
  <2>1. n \in Nat /\ n < Len(reply) /\ n <= Len(reply)
    BY <1>4
  <2>2. /\ Taken(reply, n) \in Seq(Nat) /\ Len(Taken(reply, n)) = n
        /\ \A i \in 1 .. n : Taken(reply, n)[i] = reply[i]
    BY <1>4, <2>1, TakenShape
  <2>3. <<>> \o Taken(reply, n) = Taken(reply, n)
    BY <2>2, ConcatEmptySeq
  <2> QED
    BY <1>5, <2>1, <2>2, <2>3
<1>8. \/ /\ down' = reply
         /\ proxy' = IF reply \in Granted THEN "relay" ELSE "waits"
      \/ \E n \in Nat :
           /\ n < Len(reply) /\ Len(down') = n /\ proxy' = "silent"
           /\ \A i \in 1 .. n : down'[i] = reply[i]
  BY <1>2, <1>6, <1>7
<1>9. CASE pc \in {"method", "auth"}
  <2>1. proxy = pc
    BY <1>1, <1>9 DEF InStep
  <2>2. reply \in MethodReplies \cup AuthReplies
    BY <1>9, <2>1 DEF Replies
  <2>3. Len(reply) = 2
    BY <2>2, ReplyShape, Zenon
  <2>4. reply \notin Granted
    <3>1. reply \in Granted => Len(reply) >= 4
      BY ReplyShape
    <3> QED
      BY <2>3, <3>1
  <2>5. Len(down') <= 2 /\ proxy' \in {"waits", "silent"}
    <3>1. CASE down' = reply /\ proxy' = "waits"
      <4>1. Len(down') = 2
        BY <2>3, <3>1, Zenon
      <4> QED
        BY <3>1, <4>1
    <3>2. CASE \E n \in Nat : n < Len(reply) /\ Len(down') = n /\ proxy' = "silent"
      BY <2>3, <3>2
    <3>3. \/ down' = reply /\ proxy' = "waits"
          \/ \E n \in Nat : n < Len(reply) /\ Len(down') = n /\ proxy' = "silent"
      BY <1>8, <2>4, Zenon
    <3> QED
      BY <3>1, <3>2, <3>3
  <2> QED
    BY <1>3, <1>5, <1>9, <2>5 DEF InStep
<1>10. CASE pc = "head"
  <2>1. proxy = "connect"
    BY <1>1, <1>10 DEF InStep
  <2>2. reply \in Answers
    <3>1. reply \in Refused \/ (reply \in Granted /\ listening)
      BY <2>1 DEF Replies
    <3>2. reply \in Refused => reply \notin Granted
      BY ReplyShape
    <3> QED
      BY <3>1, <3>2 DEF Answers
  <2>3. reply \in Answers'
    BY <1>3, <2>2 DEF Answers
  <2>4. proxy' \in {"relay", "waits", "silent"}
    BY <1>8
  <2>5. Agrees(reply)' /\ (Begun(Len(reply))' \/ Heard(Len(reply))')
    <3>1. CASE down' = reply
      BY <1>3, <1>4, <1>5, <3>1 DEF Agrees, Heard
    <3>2. ASSUME NEW n \in Nat, n < Len(reply), Len(down') = n, proxy' = "silent",
                 \A i \in 1 .. n : down'[i] = reply[i]
          PROVE  Agrees(reply)' /\ Begun(Len(reply))'
      BY <1>3, <1>4, <1>5, <3>2 DEF Agrees, Begun
    <3> QED
      BY <1>8, <3>1, <3>2
  <2> QED
    BY <1>3, <1>10, <2>3, <2>4, <2>5 DEF InStep
<1> QED
  BY <1>1, <1>9, <1>10

\* Its end closes, or the service speaks: only after a reply that let it.
LEMMA PeerInStep ==
  ASSUME DataOK, InStep, PeerCloses \/ ServiceSpeaks
  PROVE  InStep'
<1> USE DEF Reading, Asked, loop, peer, clock
<1>1. UNCHANGED <<listening, pc, skip>>
  BY DEF PeerCloses, ServiceSpeaks
<1>2. Answers' = Answers
  BY <1>1 DEF Answers
<1>3. CASE PeerCloses
  <2>1. UNCHANGED <<down, said>> /\ proxy' = "closed"
    BY <1>3 DEF PeerCloses
  <2>2. \A n \in Int : (Heard(n) => Heard(n)') /\ (Begun(n) => Begun(n)')
    BY <2>1 DEF Heard, Begun
  <2>3. \A reply \in Answers : Agrees(reply) => Agrees(reply)'
    BY <2>1 DEF Agrees
  <2>4. Begun(skip) \/ Heard(skip) => Begun(skip)' \/ Heard(skip)'
    BY <1>1, <2>1 DEF Heard, Begun
  <2>5. pc \in Reading => Heard(0)'
    BY <2>2 DEF InStep
  <2>6. pc = "length" => \E l \in Nat :
          (Len(down') > 0 => down'[1] = l) /\ (Begun(l + 3)' \/ Heard(l + 3)')
    <3>1. SUFFICES ASSUME pc = "length"
                   PROVE  \E l \in Nat :
                            (Len(down') > 0 => down'[1] = l) /\ (Begun(l + 3)' \/ Heard(l + 3)')
      OBVIOUS
    <3>2. PICK l \in Nat : (Len(down) > 0 => down[1] = l) /\ (Begun(l + 3) \/ Heard(l + 3))
      BY <3>1 DEF InStep
    <3>3. Begun(l + 3)' \/ Heard(l + 3)'
      BY <2>2, <3>2
    <3> QED
      BY <2>1, <3>2, <3>3
  <2>7. pc = "head" => \E reply \in Answers :
          Agrees(reply)' /\ (Begun(Len(reply))' \/ Heard(Len(reply))')
    <3>1. SUFFICES ASSUME pc = "head"
                   PROVE  \E reply \in Answers :
                            Agrees(reply)' /\ (Begun(Len(reply))' \/ Heard(Len(reply))')
      OBVIOUS
    <3>2. PICK reply \in Answers : Agrees(reply) /\ (Begun(Len(reply)) \/ Heard(Len(reply)))
      BY <3>1 DEF InStep
    <3>3. Len(reply) \in Int
      <4>1. reply \in Seq(Nat)
        BY ReplyShape DEF Answers
      <4> QED
        BY <4>1, LenProperties
    <3> QED
      BY <2>2, <2>3, <3>2, <3>3
  <2> QED
    BY <1>1, <1>2, <2>1, <2>4, <2>5, <2>6, <2>7 DEF InStep
<1>4. CASE ServiceSpeaks
  <2>1. /\ down \in Seq(Nat) /\ Len(down) \in Nat /\ said \in Nat
        /\ proxy = "relay" /\ proxy' = proxy
        /\ said' = said + 1 /\ down' = Append(down, Service(said'))
    BY <1>4, LenProperties DEF ServiceSpeaks, DataOK
  <2>2. /\ Len(down') = Len(down) + 1 /\ down'[Len(down) + 1] = Service(said')
        /\ \A i \in 1 .. Len(down) : down'[i] = down[i]
    BY <2>1 DEF Service
  <2>3. \A n \in Int : ~Begun(n)
    BY <2>1 DEF Begun
  <2>4. ASSUME NEW n \in Nat, Heard(n)
        PROVE  Heard(n)'
    <3>1. Len(down) = n + said /\ \A i \in 1 .. said : down[n + i] = Service(i)
      BY <2>4 DEF Heard
    <3>2. Len(down') = n + said'
      BY <2>1, <2>2, <3>1
    <3>3. ASSUME NEW i \in 1 .. said'
          PROVE  down'[n + i] = Service(i)
      <4>1. CASE i = said'
        BY <2>1, <2>2, <3>1, <4>1
      <4>2. CASE i # said'
        <5>1. i \in 1 .. said /\ n + i \in 1 .. Len(down)
          BY <2>1, <3>1, <4>2
        <5> QED
          BY <2>2, <3>1, <5>1
      <4> QED
        BY <4>1, <4>2
    <3> QED
      BY <3>2, <3>3 DEF Heard, Service
  <2>5. pc \notin {"method", "auth"}
    BY <2>1 DEF InStep
  <2>6. pc = "bind" => Heard(skip)'
    <3>1. SUFFICES ASSUME pc = "bind"
                   PROVE  Heard(skip)'
      OBVIOUS
    <3>2. PICK n \in Nat : n = skip
      BY DEF DataOK
    <3>3. Heard(n)
      BY <2>3, <3>1, <3>2 DEF InStep
    <3>4. Heard(n)'
      BY <2>4, <3>3
    <3> QED
      BY <1>1, <3>2, <3>4 DEF Heard
  <2>7. pc \in Reading => Heard(0)'
    BY <2>4 DEF InStep
  <2>8. pc = "length" => \E l \in Nat : (Len(down') > 0 => down'[1] = l) /\ Heard(l + 3)'
    <3>1. SUFFICES ASSUME pc = "length"
                   PROVE  \E l \in Nat : (Len(down') > 0 => down'[1] = l) /\ Heard(l + 3)'
      OBVIOUS
    <3>2. PICK l \in Nat : (Len(down) > 0 => down[1] = l) /\ (Begun(l + 3) \/ Heard(l + 3))
      BY <3>1 DEF InStep
    <3>3. PICK n \in Nat : n = l + 3
      OBVIOUS
    <3>4. Heard(n) /\ Heard(n)'
      BY <2>3, <2>4, <3>2, <3>3
    <3>5. Len(down) > 0
      BY <2>1, <3>3, <3>4 DEF Heard
    <3>6. 1 \in 1 .. Len(down) /\ (Len(down') > 0 => down'[1] = l)
      BY <2>1, <2>2, <3>2, <3>5
    <3> QED
      BY <3>3, <3>4, <3>6
  <2>9. pc = "head" => \E reply \in Answers : Agrees(reply)' /\ Heard(Len(reply))'
    <3>1. SUFFICES ASSUME pc = "head"
                   PROVE  \E reply \in Answers : Agrees(reply)' /\ Heard(Len(reply))'
      OBVIOUS
    <3>2. PICK reply \in Answers : Agrees(reply) /\ (Begun(Len(reply)) \/ Heard(Len(reply)))
      BY <3>1 DEF InStep
    <3>3. Len(reply) \in Nat
      <4>1. reply \in Seq(Nat)
        BY ReplyShape DEF Answers
      <4> QED
        BY <4>1, LenProperties
    <3>4. Heard(Len(reply)) /\ Heard(Len(reply))'
      BY <2>3, <2>4, <3>2, <3>3
    <3>5. Len(reply) <= Len(down)
      BY <2>1, <3>3, <3>4 DEF Heard
    <3>6. Agrees(reply)'
      BY <2>1, <2>2, <3>2, <3>3, <3>5 DEF Agrees
    <3> QED
      BY <3>4, <3>6
  <2>10. proxy' \in {"connect", "waits", "silent", "closed", "relay"} /\ proxy' # "connect"
         /\ proxy' \notin Asked
    BY <2>1
  <2>11. pc \in {"length", "bind"} => listening'
    BY <1>1 DEF InStep
  <2> QED
    BY <1>1, <1>2, <2>5, <2>6, <2>7, <2>8, <2>9, <2>10, <2>11 DEF InStep
<1> QED
  BY <1>3, <1>4

LEMMA InStepInit == Init => InStep
BY DEF Init, InStep, Reading, Asked

LEMMA InStepNext == DataOK /\ Placed /\ InStep /\ [Next]_vars => InStep'
<1> SUFFICES ASSUME DataOK, Placed, InStep, [Next]_vars
             PROVE  InStep'
  OBVIOUS
<1> USE DEF Handshake, Reading, Asked, loop, peer, clock
<1>1. ASSUME UNCHANGED <<listening, pc, down, skip, peer>>
      PROVE  InStep'
  BY <1>1 DEF InStep, Answers, Agrees, Begun, Heard
<1>2. ASSUME pc' \notin Handshake \cup {"read", "reread"}, proxy' \notin Asked
      PROVE  InStep'
  BY <1>2 DEF InStep
<1>3. ASSUME NEW state, NEW why, NEW held, Return(state, why, held)
      PROVE  InStep'
  <2>1. pc' = "done" /\ proxy' = "off"
    BY <1>3 DEF Return
  <2> QED
    BY <1>2, <2>1
<1>4. ASSUME NEW why, NEW opened, DialError(why, opened)
      PROVE  InStep'
  BY <1>2, <1>3, <1>4 DEF DialError
<1>5. ASSUME Connected, pc' = "read" => Heard(0)', proxy' \notin Asked
      PROVE  InStep'
  <2>1. pc' \in {"tls", "read", "finish"}
    BY <1>5, ConnectedShape
  <2> QED
    BY <1>5, <2>1 DEF InStep
<1>6. CASE Begin \/ Attempt
  <2>1. proxy \notin Asked
    BY <1>6 DEF Begin, Attempt, InStep
  <2> QED
    BY <1>2, <1>3, <1>6, <2>1 DEF Begin, Attempt
<1>7. CASE DialFailsHere \/ DialRefused \/ DialProxyTimeout
  BY <1>4, <1>7 DEF DialFailsHere, DialRefused, DialProxyTimeout
<1>8. CASE DialDirect
  <2>1. Heard(0)' /\ proxy' \notin Asked
    BY <1>8 DEF DialDirect, Opened, Heard
  <2> QED
    BY <1>5, <1>8, <2>1 DEF DialDirect
<1>9. CASE DialUDP
  BY <1>2, <1>9 DEF DialUDP, GoOn
<1>10. CASE DialProxy
  BY <1>10 DEF DialProxy, GoOn, Opened, InStep
<1>11. CASE ReadFails
  BY <1>4, <1>11 DEF ReadFails, HandshakeError
<1>12. CASE ReadMethod \/ ReadAuth \/ ReadHead \/ ReadLength
  BY <1>4, <1>12, ReadInStep DEF HandshakeError
<1>13. CASE ReadBind
  <2>1. pc = "bind" /\ skip \in Nat /\ skip <= Len(down) /\ proxy \notin Asked /\ proxy' = proxy
    <3>1. pc = "bind" /\ skip \in Nat /\ Len(down) \in Nat
      BY <1>13, LenProperties DEF ReadBind, DataOK
    <3> QED
      BY <1>13, <3>1 DEF ReadBind, Complete, Needs, InStep
  <2>2. Heard(skip)
    <3>1. ~Begun(skip)
      BY <1>13, <2>1, LenProperties DEF DataOK, Begun
    <3> QED
      BY <2>1, <3>1 DEF InStep
  <2>3. Heard(0)'
    <3>1. /\ down \in Seq(Nat) /\ Len(down) \in Nat
          /\ Len(down') = Len(down) - skip
          /\ \A i \in 1 .. (Len(down) - skip) : down'[i] = down[skip + i]
      BY <1>13, <2>1, RestShape, LenProperties DEF ReadBind, DataOK
    <3>2. said' = said /\ said \in Nat
      BY <1>13 DEF ReadBind, DataOK
    <3> QED
      BY <2>1, <2>2, <3>1, <3>2 DEF Heard, Service
  <2> QED
    BY <1>5, <1>13, <2>1, <2>3 DEF ReadBind
<1>14. CASE Finishes
  <2>1. proxy \notin Asked
    BY <1>14 DEF Finishes, InStep
  <2> QED
    BY <1>2, <1>3, <1>14, <2>1 DEF Finishes, Finish, GoOn
<1>15. CASE ReadSome
  <2>1. proxy \notin Asked
    BY <1>15 DEF ReadSome, InStep
  <2> QED
    BY <1>2, <1>15, <2>1 DEF ReadSome, GoOn
<1>16. CASE ReadNothing
  <2>1. proxy \notin Asked /\ Heard(0) /\ pc' \in {"reread", "finish"} /\ UNCHANGED <<down, peer>>
    BY <1>16 DEF ReadNothing, InStep, GoOn
  <2>2. Heard(0)'
    BY <2>1 DEF Heard
  <2> QED
    BY <2>1, <2>2 DEF InStep
<1>17. CASE EndTLS \/ UDPExchange
  BY <1>3, <1>17 DEF EndTLS, UDPExchange
<1>18. CASE ProxyReplies \/ ProxyStops
  BY <1>18, ReplyInStep
<1>19. CASE PeerCloses \/ ServiceSpeaks
  BY <1>19, PeerInStep
<1>20. CASE Cancel \/ Tick \/ Ended \/ UNCHANGED vars
  BY <1>1, <1>20 DEF Cancel, Tick, Ended, vars
<1> QED
  BY <1>6, <1>7, <1>8, <1>9, <1>10, <1>11, <1>12, <1>13, <1>14, <1>15, <1>16, <1>17, <1>18, <1>19,
     <1>20 DEF Next, ProbeStep

\* The words of the service, one by one or all at once.
LEMMA SaidEqual ==
  ASSUME NEW s \in Seq(Nat), NEW k \in Nat, Len(s) = k, \A i \in 1 .. k : s[0 + i] = Service(i)
  PROVE  s = Said(k) /\ \A i \in DOMAIN s : s[i] = Service(i)
<1>1. /\ Said(k) \in Seq(Nat) /\ Len(Said(k)) = k
      /\ \A i \in 1 .. k : Said(k)[i] = Service(i)
  BY DEF Said, Service
<1>2. \A i \in 1 .. k : s[i] = Service(i)
  BY DEF Service
<1>3. \A i \in 1 .. Len(s) : s[i] = Said(k)[i]
  BY <1>1, <1>2
<1>4. DOMAIN s = 1 .. k
  BY LenProperties
<1> QED
  BY <1>1, <1>2, <1>3, <1>4, SeqEqual

LEMMA AlignedInit == Init => StreamAligned
BY DEF Init, StreamAligned

LEMMA AlignedNext ==
  DataOK /\ Placed /\ InStep /\ StreamAligned /\ DataOK' /\ Placed' /\ InStep' /\ [Next]_vars
    => StreamAligned'
<1> SUFFICES ASSUME DataOK, Placed, InStep, StreamAligned, DataOK', Placed', InStep', [Next]_vars
             PROVE  StreamAligned'
  OBVIOUS
<1> USE DEF Handshake, Reading, loop, peer, clock
<1>1. pc' \in {"read", "reread"} => down' = Said(said')
  <2>1. SUFFICES ASSUME pc' \in {"read", "reread"}
                 PROVE  down' = Said(said')
    OBVIOUS
  <2>2. Heard(0)' /\ down' \in Seq(Nat) /\ said' \in Nat
    BY <2>1 DEF InStep, DataOK
  <2>3. Len(down') = said' /\ \A i \in 1 .. said' : down'[0 + i] = Service(i)
    <3>1. 0 + said' = said'
      <4>1. \A n \in Nat : 0 + n = n
        OBVIOUS
      <4> QED
        BY <2>2, <4>1, Zenon
    <3> QED
      BY <2>2, <3>1, Zenon DEF Heard, Service
  <2> QED
    BY <2>2, <2>3, SaidEqual
<1>2. \A i \in DOMAIN banner' : banner'[i] = Service(i)
  <2>1. CASE banner' = banner
    BY <2>1 DEF StreamAligned, Service
  <2>2. CASE ReadSome
    <3>1. Heard(0) /\ down \in Seq(Nat) /\ said \in Nat /\ banner' = down
      BY <2>2 DEF ReadSome, InStep, DataOK
    <3>2. Len(down) = said /\ \A i \in 1 .. said : down[0 + i] = Service(i)
      BY <3>1 DEF Heard
    <3>3. \A i \in DOMAIN down : down[i] = Service(i)
      BY <3>1, <3>2, SaidEqual
    <3> QED
      BY <3>1, <3>3, Zenon DEF Service
  <2>3. ReadSome \/ banner' = banner
    BY DEF Next, ProbeStep, vars, Begin, Attempt, DialFailsHere, DialRefused, DialProxyTimeout,
           DialDirect, DialUDP, DialProxy, ReadFails, ReadMethod, ReadAuth, ReadHead, ReadLength,
           ReadBind, Finishes, Finish, ReadNothing, EndTLS, UDPExchange, ProxyReplies, ProxyStops,
           PeerCloses, ServiceSpeaks, Cancel, Tick, Ended, Return, DialError, HandshakeError,
           AskConnect, Proceed
  <2> QED
    BY <2>1, <2>2, <2>3
<1>3. \A r \in result' : r.state = "open" => listening'
  <2>1. CASE UNCHANGED <<result, listening>>
    BY <2>1 DEF StreamAligned
  <2>2. ASSUME NEW state, NEW why, NEW held, Return(state, why, held), state = "open" => listening
        PROVE  \A r \in result' : r.state = "open" => listening'
    BY <2>2 DEF Return
  <2>3. ASSUME NEW why, NEW opened, DialError(why, opened)
        PROVE  \A r \in result' : r.state = "open" => listening'
    <3>1. leg = "tls" => listening
      BY DEF Placed
    <3>2. CASE UNCHANGED <<result, listening>>
      BY <2>1, <3>2
    <3> QED
      BY <2>2, <2>3, <3>1, <3>2 DEF DialError
  <2>4. CASE Begin \/ Attempt
    BY <2>1, <2>2, <2>4 DEF Begin, Attempt
  <2>5. CASE DialFailsHere \/ DialRefused \/ DialProxyTimeout
    BY <2>3, <2>5 DEF DialFailsHere, DialRefused, DialProxyTimeout
  <2>6. CASE DialDirect \/ DialUDP \/ DialProxy \/ ReadBind \/ ReadSome \/ ReadNothing
    BY <2>1, <2>6, ConnectedShape
       DEF DialDirect, DialUDP, DialProxy, ReadBind, ReadSome, ReadNothing, GoOn
  <2>7. CASE ReadFails \/ ReadMethod \/ ReadAuth \/ ReadHead \/ ReadLength
    <3>1. (\E why : HandshakeError(why)) \/ UNCHANGED <<result, listening>>
      BY <2>7 DEF ReadFails, ReadMethod, ReadAuth, ReadHead, ReadLength, AskConnect, Proceed
    <3> QED
      BY <2>1, <2>3, <3>1 DEF HandshakeError
  <2>8. CASE Finishes \/ EndTLS \/ UDPExchange
    <3>1. pc \in {"finish", "tls"} => listening
      BY DEF Placed
    <3> QED
      BY <2>1, <2>2, <2>8, <3>1 DEF Finishes, Finish, EndTLS, UDPExchange, GoOn
  <2>9. CASE ProxyReplies \/ ProxyStops \/ PeerCloses \/ ServiceSpeaks \/ Cancel \/ Tick \/ Ended
              \/ UNCHANGED vars
    BY <2>1, <2>9
       DEF ProxyReplies, ProxyStops, PeerCloses, ServiceSpeaks, Cancel, Tick, Ended, vars
  <2> QED
    BY <2>4, <2>5, <2>6, <2>7, <2>8, <2>9 DEF Next, ProbeStep
<1> QED
  BY <1>1, <1>2, <1>3 DEF StreamAligned, Service

-----------------------------------------------------------------------------
(* The invariant and the theorems                                          *)

LEMMA CauseNext ==
  DataOK /\ CauseKnown /\ [Next]_vars => CauseKnown' /\ (cancelled => cancelled')
<1> SUFFICES ASSUME DataOK, CauseKnown, [Next]_vars
             PROVE  CauseKnown' /\ (cancelled => cancelled')
  OBVIOUS
<1> USE DEF loop, peer, clock
<1>1. CASE UNCHANGED <<cause, cancelled>>
  BY <1>1 DEF CauseKnown
<1>2. ASSUME NEW why, NEW opened, why = "cancel" => cancelled, DialError(why, opened)
      PROVE  CauseKnown' /\ (cancelled => cancelled')
  BY <1>1, <1>2 DEF DialError, Return, CauseKnown
<1>3. CASE DialFailsHere \/ DialRefused \/ DialProxyTimeout
  BY <1>2, <1>3 DEF DialFailsHere, DialRefused, DialProxyTimeout
<1>4. CASE Begin \/ Attempt \/ Finishes \/ EndTLS \/ UDPExchange
  BY <1>1, <1>4 DEF Begin, Attempt, Finishes, Finish, EndTLS, UDPExchange, Return, GoOn
<1>5. CASE DialDirect \/ DialUDP \/ DialProxy \/ ReadBind \/ ReadSome \/ ReadNothing
  BY <1>1, <1>5, ConnectedShape
     DEF DialDirect, DialUDP, DialProxy, ReadBind, ReadSome, ReadNothing, GoOn
<1>6. CASE ReadFails \/ ReadMethod \/ ReadAuth \/ ReadHead \/ ReadLength
  <2>1. (\E why \in {"local", "network"} : HandshakeError(why)) \/ UNCHANGED <<cause, cancelled>>
    BY <1>6 DEF ReadFails, ReadMethod, ReadAuth, ReadHead, ReadLength, AskConnect, Proceed
  <2> QED
    BY <1>1, <1>2, <2>1 DEF HandshakeError
<1>7. CASE ProxyReplies \/ ProxyStops \/ PeerCloses \/ ServiceSpeaks \/ Tick \/ Ended
           \/ UNCHANGED vars
  BY <1>1, <1>7 DEF ProxyReplies, ProxyStops, PeerCloses, ServiceSpeaks, Tick, Ended, vars
<1>8. CASE Cancel
  BY <1>8 DEF Cancel, CauseKnown
<1> QED
  BY <1>3, <1>4, <1>5, <1>6, <1>7, <1>8 DEF Next, ProbeStep

LEMMA InvariantInit == Init => IInv
<1>1. Init => CauseKnown
  BY DEF Init, CauseKnown
<1> QED
  BY <1>1, DataInit, PlacedInit, OnTimeInit, LetGoInit, InStepInit, AlignedInit, DescriptorsInit
     DEF IInv

LEMMA InvariantNext == IInv /\ [Next]_vars => IInv'
<1> SUFFICES ASSUME IInv, [Next]_vars
             PROVE  IInv'
  OBVIOUS
<1>1. pc = "bind" => listening
  BY DEF IInv, InStep
<1>2. DataOK' /\ Placed' /\ InStep'
  BY <1>1, DataNext, PlacedNext, InStepNext DEF IInv
<1>3. CauseKnown' /\ OnTime' /\ age' <= Budget' /\ LetGo'
  BY CauseNext, OnTimeNext, LetGoNext DEF IInv
<1>4. StreamAligned' /\ DescriptorsBalanced'
  BY <1>2, AlignedNext, DescriptorsNext DEF IInv
<1> QED
  BY <1>2, <1>3, <1>4 DEF IInv

THEOREM Invariant == Spec => []IInv
BY InvariantInit, InvariantNext, PTL DEF Spec

\* Every descriptor of a probe comes back, whichever of the reads of the
\* handshake fails, and one is held at a time, two while -tls is at work (probe,
\* grabTLS and socks.dial).
THEOREM Descriptors == Spec => []DescriptorsBalanced
<1>1. IInv => DescriptorsBalanced
  BY DEF IInv
<1> QED
  BY <1>1, Invariant, PTL

\* The bytes taken for a banner are the service's, from its first byte on, behind
\* any reply of any proxy that lets the client through (socks.handshake).
THEOREM Aligned == Spec => []StreamAligned
<1>1. IInv => StreamAligned
  BY DEF IInv
<1> QED
  BY <1>1, Invariant, PTL

\* A worker is held no longer than -timeout (or, when that is 0, the operating
\* system), -retries and the reads allow, and after Ctrl+C no longer than one
\* handshake and what follows it: for every -timeout, also those below zero.
THEOREM Waits == Spec => []WaitsBounded
<1>1. IInv => WaitsBounded
  BY DEF IInv, WaitsBounded, LetGo, Budget
<1> QED
  BY <1>1, Invariant, PTL

-----------------------------------------------------------------------------
(* The contract of a scan                                                  *)

LEMMA StepIsContractStep ==
  DataOK /\ Placed /\ CauseKnown /\ [Next]_vars => [Contract!Next]_(Contract!contractVars)
<1> SUFFICES ASSUME DataOK, Placed, CauseKnown, [Next]_vars
             PROVE  [Contract!Next]_(Contract!contractVars)
  OBVIOUS
<1> USE DEF Handshake, Reading, loop, peer, clock
<1>1. ASSUME UNCHANGED <<result, cancelled>>, pc \notin {"idle", "done"}, pc' \notin {"idle", "done"}
      PROVE  UNCHANGED Contract!contractVars
  BY <1>1 DEF Contract!contractVars
<1>2. ASSUME UNCHANGED <<pc, result, cancelled>>
      PROVE  UNCHANGED Contract!contractVars
  BY <1>2 DEF Contract!contractVars
<1>3. ASSUME NEW state \in Contract!States, NEW why \in Causes, NEW held, Return(state, why, held),
             pc \notin {"idle", "done"},
             why # "network" => state = "closed", why = "cancel" => cancelled
      PROVE  Contract!Next
  <2> DEFINE r == [job |-> Job, state |-> state, cause |-> why]
  <2>1. r \in Contract!Results
    BY DEF Contract!Results, Contract!Causes, Causes
  <2>2. result = {}
    BY <1>3 DEF Placed
  <2>3. result' = {r} /\ pc' = "done" /\ cancelled' = cancelled
    BY <1>3 DEF Return
  <2>4. Contract!Honest(r)
    BY <1>3 DEF Contract!Honest
  <2>5. Contract!Report(r)
    BY <1>3, <2>2, <2>3, <2>4 DEF Contract!Report
  <2> QED
    BY <2>1, <2>5 DEF Contract!Next
<1>4. ASSUME NEW why \in {"network", "local", "cancel"}, NEW opened, DialError(why, opened),
             pc \in Handshake \cup {"dial"}
      PROVE  [Contract!Next]_(Contract!contractVars)
  <2>1. CASE leg = "tls" /\ Return("open", "network", opened + 1)
    BY <1>3, <1>4, <2>1 DEF Contract!States, Causes
  <2>2. CASE leg = "main" /\ ~(leg = "tls" /\ Return("open", "network", opened + 1))
    BY <1>1, <1>4, <2>2 DEF DialError
  <2> QED
    BY <1>4, <2>1, <2>2 DEF DialError
<1>5. CASE Begin
  <2>1. Contract!Take(Job)
    BY <1>5 DEF Begin, Contract!Take
  <2> QED
    BY <2>1 DEF Contract!Next
<1>6. CASE Attempt
  <2>1. CASE Return("closed", "cancel", 0) /\ cancelled
    BY <1>3, <1>6, <2>1 DEF Attempt, Contract!States, Causes
  <2>2. CASE Return("closed", cause, 0) /\ attempt > 0
    <3>1. cause \in Causes /\ (cause = "cancel" => cancelled)
      BY <2>2 DEF DataOK, CauseKnown
    <3> QED
      BY <1>3, <1>6, <2>2, <3>1 DEF Attempt, Contract!States
  <2>3. CASE UNCHANGED <<result, cancelled>> /\ pc' \in {"dial", "panic"}
    BY <1>1, <1>6, <2>3 DEF Attempt
  <2> QED
    BY <1>6, <2>1, <2>2, <2>3 DEF Attempt
<1>7. CASE DialFailsHere \/ DialRefused \/ DialProxyTimeout
  BY <1>4, <1>7 DEF DialFailsHere, DialRefused, DialProxyTimeout
<1>8. CASE DialDirect \/ DialUDP \/ DialProxy \/ ReadBind \/ ReadSome \/ ReadNothing
  <2>1. UNCHANGED <<result, cancelled>> /\ pc \notin {"idle", "done"} /\ pc' \notin {"idle", "done"}
    BY <1>8, ConnectedShape
       DEF DialDirect, DialUDP, DialProxy, ReadBind, ReadSome, ReadNothing, GoOn
  <2> QED
    BY <1>1, <2>1
<1>9. CASE ReadFails \/ ReadMethod \/ ReadAuth \/ ReadHead \/ ReadLength
  <2>1. pc \in Handshake
    BY <1>9 DEF ReadFails, ReadMethod, ReadAuth, ReadHead, ReadLength
  <2>2. \/ \E why \in {"local", "network"} : HandshakeError(why)
        \/ UNCHANGED <<result, cancelled>> /\ pc' \notin {"idle", "done"}
    BY <1>9 DEF ReadFails, ReadMethod, ReadAuth, ReadHead, ReadLength, AskConnect, Proceed
  <2> QED
    BY <1>1, <1>4, <2>1, <2>2 DEF HandshakeError
<1>10. CASE Finishes
  BY <1>1, <1>3, <1>10 DEF Finishes, Finish, GoOn, Contract!States, Causes
<1>11. CASE EndTLS \/ UDPExchange
  BY <1>3, <1>11 DEF EndTLS, UDPExchange, Contract!States, Causes
<1>12. CASE ProxyReplies \/ ProxyStops \/ PeerCloses \/ ServiceSpeaks \/ Tick \/ Ended
            \/ UNCHANGED vars
  BY <1>2, <1>12 DEF ProxyReplies, ProxyStops, PeerCloses, ServiceSpeaks, Tick, Ended, vars
<1>13. CASE Cancel
  <2>1. Contract!Cancel
    BY <1>13 DEF Cancel, Contract!Cancel
  <2> QED
    BY <2>1 DEF Contract!Next
<1> QED
  BY <1>5, <1>6, <1>7, <1>8, <1>9, <1>10, <1>11, <1>12, <1>13 DEF Next, ProbeStep

\* A probe takes its job, ends with one result that is worth what it says, and
\* gives up only after the cancellation (probe in fastTCPScan.go).
THEOREM ConnectImplementsContract == Spec => ImplementsContract
<1>1. Init => Contract!Init
  BY DEF Init, Contract!Init
<1>2. IInv => DataOK /\ Placed /\ CauseKnown
  BY DEF IInv
<1> QED
  BY <1>1, <1>2, Invariant, StepIsContractStep, PTL DEF Spec, ImplementsContract
=============================================================================
