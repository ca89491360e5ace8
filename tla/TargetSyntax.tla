---------------------------- MODULE TargetSyntax ----------------------------
(***************************************************************************)
(* How fastTCPScan reads its targets: expandPorts, topPortsN, expandHosts, *)
(* expandCIDR and inc, as operators on parsed text.  A port argument is a  *)
(* sequence of blocks, a host argument a sequence of prefixes and of parts *)
(* without a slash, which are texts that nobody looks into.  The text of   *)
(* an address as ip.String() spells it is the address: a sequence of       *)
(* Digits digits that wrap around like the bytes of a net.IP; any other    *)
(* text, a host name or another spelling of an address, is an alias.  The  *)
(* result is a list, empty when the function returns an error (none of     *)
(* them returns an empty list otherwise).                                  *)
(***************************************************************************)
EXTENDS Integers, Sequences, SequencesExt

CONSTANTS
  MaxPort,      \* 65535
  TopPorts,     \* the list of the most common ports
  DigitBits,    \* bits of a digit of an address: 8
  Digits,       \* digits of an address: 4 (16 in IPv6)
  MaxHostBits,  \* the largest prefix expandCIDR enumerates: 20 bits of host
  Aliases       \* the texts that no address is printed as

Bits == DigitBits * Digits

\* 2 ^ n; like the lists below it is a recursive function, which, unlike ^ and
\* the folds, can be reasoned about.
Pow2[n \in 0 .. Bits] == IF n = 0 THEN 1 ELSE 2 * Pow2[n - 1]

Base == Pow2[DigitBits]
Addresses == [1 .. Digits -> 0 .. Base - 1]

\* That MaxHostBits < Bits is what makes the enumeration of a prefix end.
SyntaxAssumption ==
  /\ MaxPort \in Nat \ {0}
  /\ TopPorts \in Seq(1 .. MaxPort) /\ IsInjective(TopPorts) /\ TopPorts # <<>>
  /\ DigitBits \in Nat \ {0} /\ Digits \in Nat \ {0}
  /\ MaxHostBits \in 0 .. Bits - 1
  /\ Aliases \cap Addresses = {}

ASSUME SyntaxAssumption

Blocks == [lo : 0 .. MaxPort + 1, hi : 0 .. MaxPort + 1]
Texts == Addresses \cup Aliases
CIDRParts == [addr : Addresses, ones : 0 .. Bits]
TextParts == [text : Texts]
HostParts == CIDRParts \cup TextParts

\* The number that the first j digits of an address stand for, and all of them.
Leading(ip) ==
  LET upTo[j \in 0 .. Digits] == IF j = 0 THEN 0 ELSE upTo[j - 1] * Base + ip[j] IN upTo
Number(ip) == Leading(ip)[Digits]
Address(n) == [j \in 1 .. Digits |-> (n \div Pow2[DigitBits * (Digits - j)]) % Base]

-----------------------------------------------------------------------------
\* The first n items of a list without what was seen before, and all of them.
Mentions(s) ==
  LET upTo[n \in 0 .. Len(s)] ==
        IF n = 0 THEN <<>>
        ELSE IF Contains(upTo[n - 1], s[n]) THEN upTo[n - 1] ELSE Append(upTo[n - 1], s[n])
  IN  upTo
FirstMentions(s) == Mentions(s)[Len(s)]

\* One block: "hi-lo" is read as "lo-hi".
Low(b) == IF b.lo > b.hi THEN b.hi ELSE b.lo
High(b) == IF b.lo > b.hi THEN b.lo ELSE b.hi
BlockPorts(b) == [k \in 1 .. High(b) - Low(b) + 1 |-> Low(b) + k - 1]

expandPorts(blocks) ==
  IF \E b \in ToSet(blocks) : Low(b) < 1 \/ High(b) > MaxPort
  THEN <<>>
  ELSE FirstMentions(FlattenSeq([i \in DOMAIN blocks |-> BlockPorts(blocks[i])]))

topPortsN(n) == SubSeq(TopPorts, 1, IF n > Len(TopPorts) THEN Len(TopPorts) ELSE n)

-----------------------------------------------------------------------------
\* A digit is incremented when all the digits to its right wrapped around.
inc(ip) ==
  [j \in 1 .. Digits |->
     IF \A k \in j + 1 .. Digits : ip[k] = Base - 1 THEN (ip[j] + 1) % Base ELSE ip[j]]

\* net.ParseCIDR masks the address; ipnet.Contains compares what is left.
HostBits(part) == Bits - part.ones
Prefix(ip, part) == Number(ip) \div Pow2[HostBits(part)]
Network(part) == Address(Prefix(part.addr, part) * Pow2[HostBits(part)])

TooLarge(part) == HostBits(part) > MaxHostBits

\* Mutant of Trimmed: the two addresses of a point-to-point prefix go as well.
TrimmedAlways(part, ips) ==
  IF HostBits(part) > 0 /\ Len(ips) >= 2 THEN SubSeq(ips, 2, Len(ips) - 1) ELSE ips

\* Network and broadcast addresses are left out, but not of a /31 or a /32.
Trimmed(part, ips) ==
  IF HostBits(part) > 1 /\ Len(ips) >= 2 THEN SubSeq(ips, 2, Len(ips) - 1) ELSE ips

expandCIDR(part) ==
  LET from[ip \in Addresses] ==
        IF Prefix(ip, part) = Prefix(part.addr, part) THEN <<ip>> \o from[inc(ip)] ELSE <<>>
  IN  Trimmed(part, from[Network(part)])

\* A part without a slash stays as it was written, and what is listed already
\* is told by its spelling.
expandPart(part) == IF part \in CIDRParts THEN expandCIDR(part) ELSE <<part.text>>

expandHosts(parts) ==
  IF \E part \in ToSet(parts) : part \in CIDRParts /\ TooLarge(part)
  THEN <<>>
  ELSE FirstMentions(FlattenSeq([i \in DOMAIN parts |-> expandPart(parts[i])]))
=============================================================================
