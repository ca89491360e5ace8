-------------------------------- MODULE Socks5 --------------------------------
(***************************************************************************)
(* The bytes of the SOCKS5 replies that socks.handshake (proxy.go) reads:  *)
(* what a proxy may send at each point of the exchange, and how many bytes *)
(* the client takes for what.  Lengths are the real ones; the bytes of an  *)
(* address that is skipped are all zero.                                   *)
(***************************************************************************)
EXTENDS Integers, Sequences

CONSTANTS
  NameLengths,   \* lengths of a domain name in a reply
  UnknownType    \* an address type that is none of 1, 3 and 4

SocksAssumption ==
  /\ NameLengths \subseteq 0 .. 255
  /\ UnknownType \in (0 .. 255) \ {1, 3, 4}

ASSUME SocksAssumption

Zeros(n) == [i \in 1 .. n |-> 0]

-----------------------------------------------------------------------------
(* What a proxy sends (external)                                           *)

\* A method may be chosen that the client did not offer; 255 refuses them all.
MethodReplies == {<<5, 0>>, <<5, 2>>, <<5, 255>>, <<4, 0>>}

AuthReplies == {<<1, 0>>, <<1, 1>>}

\* Type, address and port that a reply to CONNECT is bound to.
Bound ==
  {<<1>> \o Zeros(4 + 2), <<4>> \o Zeros(16 + 2), <<UnknownType>>}
  \cup {<<3, l>> \o Zeros(l + 2) : l \in NameLengths}

Granted == {<<5, 0, 0>> \o b : b \in Bound}
Refused == {<<5, 5, 0, 1>> \o Zeros(4 + 2)}

-----------------------------------------------------------------------------
(* How the client reads it                                                 *)

\* Mutant of SkipOf: the port after a name is forgotten.
SkipNoPort(atyp, l) ==
  CASE atyp = 1 -> 4 + 2
    [] atyp = 4 -> 16 + 2
    [] atyp = 3 -> l

\* BND.ADDR and BND.PORT; l is the length of the name, for type 3 only.
SkipOf(atyp, l) ==
  CASE atyp = 1 -> 4 + 2
    [] atyp = 4 -> 16 + 2
    [] atyp = 3 -> l + 2

Taken(stream, n) == SubSeq(stream, 1, n)
Rest(stream, n) == SubSeq(stream, n + 1, Len(stream))
=============================================================================
