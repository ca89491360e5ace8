------------------------- MODULE BeforeScan_proofs -------------------------
(***************************************************************************)
(* What main() does before it calls scan(): the theorems of Startup and of *)
(* HostDiscovery, two machines that share no state.                        *)
(*                                                                         *)
(* discoverHosts is proved right for every number of hosts, workers and    *)
(* ports: what it returns (DiscoveryExact), and that nobody is left behind *)
(* when it does (NobodyLeftBehind).  Neither is inductive.  DiscoveryInv   *)
(* adds where a host that answers can be as long as nobody cancelled, what *)
(* a worker's verdict means, and in which order the channels close.        *)
(*                                                                         *)
(* The way from flag.Parse() to the jobs is proved right for every command *)
(* line, profile and config file, for addresses of any number of digits of *)
(* any width and for any number of ports.  First come lemmas about what    *)
(* the lists are built with (FirstMentions, Kept, FlattenSeq, SubSeq),     *)
(* about addresses as numbers (inc adds one, a prefix is a run of numbers) *)
(* and about what expandPorts and expandHosts return; then what settles    *)
(* an option; then StartupInvariant, which says stage by stage which flags *)
(* are settled and which lists are filtered, and from which Precedence,    *)
(* TargetsExact, RefusalsExact, FilterInPlace and LimitsUsable follow.     *)
(***************************************************************************)
EXTENDS Startup, HostDiscovery, SequenceTheorems, WellFoundedInduction, TLAPS

-----------------------------------------------------------------------------
(* discoverHosts.                                                          *)

DiscoveryTypeOK ==
  /\ answers \subseteq Hosts \X (1 .. NPorts)
  /\ toAsk \subseteq Hosts
  /\ pc \in [Workers -> {"receive", "check", "dial", "send", "exit"}]
  /\ host \in [Workers -> Hosts \cup {NoHost}]
  /\ port \in [Workers -> 1 .. NPorts]
  /\ alive \in [Workers -> BOOLEAN]
  /\ collected \subseteq Hosts
  /\ {inClosed, outClosed, cancelled, finished} \subseteq BOOLEAN

\* A worker with a host has not seen an answer of it before it sends "alive".
VerdictsEarned ==
  /\ \A w \in Workers : pc[w] \in {"check", "dial"} => ~alive[w]
  /\ \A w \in Workers : pc[w] \in {"check", "dial", "send"} => host[w] \in Hosts
  /\ \A w \in Workers : pc[w] = "send" /\ alive[w] => host[w] \in Responding
  /\ collected \subseteq Responding

\* Worker w is going to collect h: it knows that h answers, or has a port
\* before it that does.
InHand(w, h) ==
  /\ host[w] = h
  /\ \/ pc[w] = "send" /\ alive[w]
     \/ pc[w] \in {"check", "dial"} /\ \E p \in port[w] .. NPorts : <<h, p>> \in answers

\* As long as nobody cancelled, no host that answers has been passed over.
NobodyForgotten ==
  ~cancelled =>
    \A h \in Responding : h \in toAsk \/ h \in collected \/ \E w \in Workers : InHand(w, h)

ClosingOrder ==
  /\ inClosed => toAsk = {} \/ cancelled
  /\ \A w \in Workers : pc[w] = "exit" => inClosed
  /\ outClosed => \A w \in Workers : pc[w] = "exit"
  /\ finished => outClosed

DiscoveryInv == DiscoveryTypeOK /\ VerdictsEarned /\ NobodyForgotten /\ ClosingOrder

USE DEF GoTo, workers

-----------------------------------------------------------------------------
\* The steps of one worker, and the others.
LEMMA DiscoverySteps ==
  ASSUME [DiscoveryNext]_discoveryVars
  PROVE  \/ \E w \in Workers : \/ Feed(w) \/ Leave(w) \/ CheckContext(w) \/ DialAnswered(w)
                               \/ DialSilent(w) \/ Collect(w)
         \/ CloseIn \/ CloseOut \/ Finish \/ Cancel
         \/ UNCHANGED discoveryVars
BY DEF DiscoveryNext, ProgramStep, DiscoveryEnded

\* The set of hosts that answer is fixed.
LEMMA RespondingFixed == [DiscoveryNext]_discoveryVars => answers' = answers /\ Responding' = Responding
<1> SUFFICES ASSUME [DiscoveryNext]_discoveryVars PROVE answers' = answers
  BY DEF Responding
<1> QED
  BY DiscoverySteps DEF Feed, Leave, CheckContext, DialAnswered, DialSilent, Collect, CloseIn, CloseOut,
                   Finish, Cancel, discoveryVars

LEMMA DiscoveryTypeInit == DiscoveryInit => DiscoveryTypeOK
<1> SUFFICES ASSUME DiscoveryInit PROVE DiscoveryTypeOK
  OBVIOUS
<1>1. answers \subseteq Hosts \X (1 .. NPorts)
  BY Zenon DEF DiscoveryInit
<1>2. 1 \in 1 .. NPorts
  BY DiscoveryAssumption DEF DiscoveryAssumption
<1>3. /\ toAsk \subseteq Hosts
      /\ collected \subseteq Hosts
      /\ {inClosed, outClosed, cancelled, finished} \subseteq BOOLEAN
  BY DEF DiscoveryInit
<1>4. /\ pc \in [Workers -> {"receive", "check", "dial", "send", "exit"}]
      /\ host \in [Workers -> Hosts \cup {NoHost}]
      /\ port \in [Workers -> 1 .. NPorts]
      /\ alive \in [Workers -> BOOLEAN]
  BY <1>2 DEF DiscoveryInit
<1> QED
  BY <1>1, <1>3, <1>4, Zenon DEF DiscoveryTypeOK

LEMMA DiscoveryTypeStep == DiscoveryTypeOK /\ VerdictsEarned /\ [DiscoveryNext]_discoveryVars => DiscoveryTypeOK'
<1> SUFFICES ASSUME DiscoveryTypeOK, VerdictsEarned, [DiscoveryNext]_discoveryVars PROVE DiscoveryTypeOK'
  OBVIOUS
<1> USE DiscoveryAssumption DEF DiscoveryAssumption, DiscoveryTypeOK
<1>1. ASSUME NEW w \in Workers, Feed(w) PROVE DiscoveryTypeOK'
  BY <1>1 DEF Feed
<1>2. ASSUME NEW w \in Workers, Leave(w) \/ CheckContext(w) PROVE DiscoveryTypeOK'
  BY <1>2 DEF Leave, CheckContext
<1>3. ASSUME NEW w \in Workers, DialAnswered(w) PROVE DiscoveryTypeOK'
  BY <1>3 DEF DialAnswered
<1>4. ASSUME NEW w \in Workers, DialSilent(w) PROVE DiscoveryTypeOK'
  <2>1. CASE port[w] < NPorts
    <3>1. port[w] + 1 \in 1 .. NPorts
      BY <2>1
    <3> QED
      BY <1>4, <2>1, <3>1 DEF DialSilent
  <2>2. CASE ~(port[w] < NPorts)
    BY <1>4, <2>2 DEF DialSilent
  <2> QED
    BY <2>1, <2>2
<1>5. ASSUME NEW w \in Workers, Collect(w) PROVE DiscoveryTypeOK'
  BY <1>5 DEF Collect, VerdictsEarned
<1>6. CASE CloseIn \/ CloseOut \/ Finish \/ Cancel \/ UNCHANGED discoveryVars
  BY <1>6 DEF CloseIn, CloseOut, Finish, Cancel, discoveryVars
<1> QED
  BY <1>1, <1>2, <1>3, <1>4, <1>5, <1>6, DiscoverySteps

-----------------------------------------------------------------------------
LEMMA VerdictsInit == DiscoveryInit => VerdictsEarned
BY DEF DiscoveryInit, VerdictsEarned

LEMMA VerdictsStep == DiscoveryTypeOK /\ VerdictsEarned /\ [DiscoveryNext]_discoveryVars => VerdictsEarned'
<1> SUFFICES ASSUME DiscoveryTypeOK, VerdictsEarned, [DiscoveryNext]_discoveryVars PROVE VerdictsEarned'
  OBVIOUS
<1> USE RespondingFixed DEF VerdictsEarned, DiscoveryTypeOK
<1>1. ASSUME NEW w \in Workers, Feed(w) PROVE VerdictsEarned'
  BY <1>1 DEF Feed
<1>2. ASSUME NEW w \in Workers, Leave(w) \/ CheckContext(w) PROVE VerdictsEarned'
  BY <1>2 DEF Leave, CheckContext
<1>3. ASSUME NEW w \in Workers, DialAnswered(w) PROVE VerdictsEarned'
  <2>1. host[w] \in Responding
    BY <1>3 DEF DialAnswered, Responding
  <2> QED
    BY <1>3, <2>1 DEF DialAnswered
<1>4. ASSUME NEW w \in Workers, DialSilent(w) PROVE VerdictsEarned'
  BY <1>4 DEF DialSilent
<1>5. ASSUME NEW w \in Workers, Collect(w) PROVE VerdictsEarned'
  BY <1>5 DEF Collect
<1>6. CASE CloseIn \/ CloseOut \/ Finish \/ Cancel \/ UNCHANGED discoveryVars
  BY <1>6 DEF CloseIn, CloseOut, Finish, Cancel, discoveryVars
<1> QED
  BY <1>1, <1>2, <1>3, <1>4, <1>5, <1>6, DiscoverySteps

-----------------------------------------------------------------------------
LEMMA ForgottenInit == DiscoveryInit => NobodyForgotten
BY DEF DiscoveryInit, NobodyForgotten, Responding

\* A worker that another one's step leaves alone keeps what it has in hand.
LEMMA OthersKeep ==
  ASSUME NEW v \in Workers, NEW h, answers' = answers, host'[v] = host[v], pc'[v] = pc[v],
         port'[v] = port[v], alive'[v] = alive[v], InHand(v, h)
  PROVE  InHand(v, h)'
BY DEF InHand

LEMMA ForgottenStep ==
  DiscoveryTypeOK /\ VerdictsEarned /\ NobodyForgotten /\ [DiscoveryNext]_discoveryVars => NobodyForgotten'
<1> SUFFICES ASSUME DiscoveryTypeOK, VerdictsEarned, NobodyForgotten, [DiscoveryNext]_discoveryVars, ~cancelled',
                    NEW h \in Responding
             PROVE  h \in toAsk' \/ h \in collected' \/ \E v \in Workers : InHand(v, h)'
  BY RespondingFixed DEF NobodyForgotten
<1>0. ~cancelled
  BY DiscoverySteps DEF Feed, Leave, CheckContext, DialAnswered, DialSilent, Collect, CloseIn, CloseOut,
                   Finish, Cancel, discoveryVars, DiscoveryTypeOK
<1>a. h \in toAsk \/ h \in collected \/ \E v \in Workers : InHand(v, h)
  BY <1>0 DEF NobodyForgotten
<1>b. answers' = answers
  BY RespondingFixed
<1>1. ASSUME NEW w \in Workers, Feed(w)
      PROVE  h \in toAsk' \/ h \in collected' \/ \E v \in Workers : InHand(v, h)'
  <2>1. CASE h \in toAsk /\ h \notin toAsk'
    <3>1. /\ host'[w] = h /\ pc'[w] = "check" /\ port'[w] = 1
      BY <1>1, <2>1 DEF Feed, DiscoveryTypeOK
    <3>2. \E p \in 1 .. NPorts : <<h, p>> \in answers'
      BY <1>b DEF Responding
    <3> QED
      BY <3>1, <3>2 DEF InHand
  <2>2. CASE h \in collected
    BY <1>1, <2>2 DEF Feed
  <2>3. ASSUME NEW v \in Workers, InHand(v, h) PROVE InHand(v, h)'
    <3>1. v # w
      BY <1>1, <2>3 DEF Feed, InHand
    <3> QED
      BY <1>1, <1>b, <2>3, <3>1, OthersKeep DEF Feed, DiscoveryTypeOK
  <2> QED
    BY <1>a, <2>1, <2>2, <2>3
<1>2. ASSUME NEW w \in Workers, Leave(w) \/ CheckContext(w) \/ DialAnswered(w) \/ DialSilent(w)
      PROVE  h \in toAsk' \/ h \in collected' \/ \E v \in Workers : InHand(v, h)'
  <2>1. toAsk' = toAsk /\ collected' = collected
    BY <1>2 DEF Leave, CheckContext, DialAnswered, DialSilent
  <2>2. ASSUME NEW v \in Workers, InHand(v, h), v # w PROVE InHand(v, h)'
    BY <1>2, <1>b, <2>2, OthersKeep DEF Leave, CheckContext, DialAnswered, DialSilent, DiscoveryTypeOK
  <2>3. ASSUME InHand(w, h) PROVE InHand(w, h)'
    <3>1. CASE Leave(w)
      BY <2>3, <3>1 DEF Leave, InHand
    <3>2. CASE CheckContext(w)
      BY <1>0, <1>b, <2>3, <3>2 DEF CheckContext, InHand, DiscoveryTypeOK
    <3>3. CASE DialAnswered(w)
      BY <1>b, <2>3, <3>3 DEF DialAnswered, InHand, DiscoveryTypeOK
    <3>4. CASE DialSilent(w)
      <4>1. PICK p \in port[w] .. NPorts : <<h, p>> \in answers
        BY <2>3, <3>4 DEF DialSilent, InHand
      <4>2. p # port[w] /\ host[w] = h
        BY <1>0, <2>3, <3>4, <4>1 DEF DialSilent, InHand
      <4>3. port[w] < NPorts /\ p \in port[w] + 1 .. NPorts
        BY <4>1, <4>2, DiscoveryAssumption DEF DiscoveryAssumption, DiscoveryTypeOK
      <4>4. pc'[w] = "check" /\ port'[w] = port[w] + 1 /\ host'[w] = h
        BY <3>4, <4>2, <4>3 DEF DialSilent, DiscoveryTypeOK
      <4> QED
        BY <1>b, <4>1, <4>3, <4>4 DEF InHand
    <3> QED
      BY <1>2, <3>1, <3>2, <3>3, <3>4
  <2> QED
    BY <1>a, <2>1, <2>2, <2>3
<1>3. ASSUME NEW w \in Workers, Collect(w)
      PROVE  h \in toAsk' \/ h \in collected' \/ \E v \in Workers : InHand(v, h)'
  <2>1. toAsk' = toAsk /\ collected \subseteq collected'
    BY <1>3 DEF Collect
  <2>2. ASSUME NEW v \in Workers, InHand(v, h), v # w PROVE InHand(v, h)'
    BY <1>3, <1>b, <2>2, OthersKeep DEF Collect, DiscoveryTypeOK
  <2>3. ASSUME InHand(w, h) PROVE h \in collected'
    BY <1>3, <2>3 DEF Collect, InHand
  <2> QED
    BY <1>a, <2>1, <2>2, <2>3
<1>4. CASE CloseIn \/ CloseOut \/ Finish \/ Cancel \/ UNCHANGED discoveryVars
  <2>1. toAsk' = toAsk /\ collected' = collected /\ UNCHANGED <<host, pc, port, alive>>
    BY <1>4 DEF CloseIn, CloseOut, Finish, Cancel, discoveryVars
  <2> QED
    BY <1>a, <1>b, <2>1, OthersKeep
<1> QED
  BY <1>1, <1>2, <1>3, <1>4, DiscoverySteps

-----------------------------------------------------------------------------
LEMMA ClosingInit == DiscoveryInit => ClosingOrder
BY DEF DiscoveryInit, ClosingOrder

LEMMA ClosingStep == DiscoveryTypeOK /\ ClosingOrder /\ [DiscoveryNext]_discoveryVars => ClosingOrder'
<1> SUFFICES ASSUME DiscoveryTypeOK, ClosingOrder, [DiscoveryNext]_discoveryVars PROVE ClosingOrder'
  OBVIOUS
<1> USE DEF ClosingOrder, DiscoveryTypeOK
<1>1. ASSUME NEW w \in Workers, Feed(w) PROVE ClosingOrder'
  BY <1>1 DEF Feed
<1>2. ASSUME NEW w \in Workers, Leave(w) PROVE ClosingOrder'
  BY <1>2 DEF Leave
<1>3. ASSUME NEW w \in Workers, CheckContext(w) \/ DialAnswered(w) \/ DialSilent(w) \/ Collect(w)
      PROVE  ClosingOrder'
  BY <1>3 DEF CheckContext, DialAnswered, DialSilent, Collect
<1>4. CASE CloseIn \/ CloseOut \/ Finish \/ Cancel \/ UNCHANGED discoveryVars
  BY <1>4 DEF CloseIn, CloseOut, Finish, Cancel, discoveryVars
<1> QED
  BY <1>1, <1>2, <1>3, <1>4, DiscoverySteps

-----------------------------------------------------------------------------
\* The inductive invariant of discoverHosts.
THEOREM DiscoveryInvariant == DiscoverySpec => []DiscoveryInv
<1>1. DiscoveryInit => DiscoveryInv
  BY DiscoveryTypeInit, VerdictsInit, ForgottenInit, ClosingInit DEF DiscoveryInv
<1>2. DiscoveryInv /\ [DiscoveryNext]_discoveryVars => DiscoveryInv'
  BY DiscoveryTypeStep, VerdictsStep, ForgottenStep, ClosingStep DEF DiscoveryInv
<1> QED
  BY <1>1, <1>2, PTL DEF DiscoverySpec

\* A worker exists, and it has found `in' closed.
LEMMA FinishedMeansGone ==
  ASSUME DiscoveryInv, finished
  PROVE  inClosed /\ \A w \in Workers : pc[w] = "exit"
<1>1. PICK w \in Workers : TRUE
  BY DiscoveryAssumption DEF DiscoveryAssumption
<1>2. \A v \in Workers : pc[v] = "exit"
  BY DEF DiscoveryInv, ClosingOrder
<1> QED
  BY <1>1, <1>2 DEF DiscoveryInv, ClosingOrder

\* Only hosts that answered go on to the scan, and all of them when nobody
\* cancelled: every host was handed out, and every worker has been heard.
THEOREM DiscoveryIsExact == DiscoverySpec => []DiscoveryExact
<1>1. ASSUME DiscoveryInv PROVE collected \subseteq Responding
  BY <1>1 DEF DiscoveryInv, VerdictsEarned
<1>2. ASSUME DiscoveryInv, finished, ~cancelled, NEW h \in Responding PROVE h \in collected
  <2>1. toAsk = {} /\ \A w \in Workers : pc[w] = "exit"
    BY <1>2, FinishedMeansGone DEF DiscoveryInv, ClosingOrder
  <2>2. \A w \in Workers : ~InHand(w, h)
    BY <2>1 DEF InHand
  <2> QED
    BY <1>2, <2>1, <2>2 DEF DiscoveryInv, NobodyForgotten
<1>3. DiscoveryInv => DiscoveryExact
  BY <1>1, <1>2 DEF DiscoveryExact
<1> QED
  BY <1>3, DiscoveryInvariant, PTL

\* When discoverHosts returns, its feeder and its workers have returned.
THEOREM DiscoveryLeavesNobody == DiscoverySpec => []NobodyLeftBehind
<1>1. DiscoveryInv => NobodyLeftBehind
  BY FinishedMeansGone DEF NobodyLeftBehind
<1> QED
  BY <1>1, DiscoveryInvariant, PTL

-----------------------------------------------------------------------------
(* Induction and recursion.  The induction theorems of the library take an *)
(* operator; here a set of numbers takes its place, and a step function    *)
(* that of the step of a recursive definition.                             *)

LEMMA LeastNat ==
  ASSUME NEW T \in SUBSET Nat, T # {}
  PROVE  \E n \in T : \A m \in T : n <= m
<1> DEFINE R == OpToRel(<, Nat)
<1>1. IsWellFoundedOn(R, Nat)
  BY NatLessThanWellFounded
<1>2. \A m, n \in Nat : m < n => <<m, n>> \in R
  BY DEF OpToRel
<1> HIDE DEF R
<1>3. PICK n \in T : \A m \in T : <<m, n>> \notin R
  BY <1>1, WFMin
<1>4. \A m \in T : ~(m < n)
  BY <1>2, <1>3
<1> QED
  BY <1>4

LEMMA UpTo ==
  ASSUME NEW n \in Nat, NEW T, 0 \in T, \A i \in 1 .. n : i - 1 \in T => i \in T
  PROVE  0 .. n \subseteq T
<1> DEFINE Missing == {i \in 0 .. n : i \notin T}
<1> SUFFICES ASSUME Missing # {} PROVE FALSE
  OBVIOUS
<1>1. Missing \subseteq Nat
  OBVIOUS
<1>2. PICK i \in Missing : \A m \in Missing : i <= m
  BY <1>1, LeastNat
<1>3. i \in 1 .. n
  BY <1>2
<1>4. i - 1 \in T
  BY <1>2, <1>3
<1> QED
  BY <1>2, <1>3, <1>4

\* A step function and a first value define a function.
Iterates(f, n, first, step) ==
  f[0] = first /\ \A i \in 1 .. n : f[i] = step[<<i, f[i - 1]>>]

LEMMA Recursion ==
  ASSUME NEW n \in Nat, NEW V, NEW first \in V, NEW step \in [(1 .. n) \X V -> V]
  PROVE  \E f \in [0 .. n -> V] : Iterates(f, n, first, step)
<1> DEFINE T == {k \in 0 .. n : \E f \in [0 .. k -> V] :
                   f[0] = first /\ \A i \in 1 .. k : f[i] = step[<<i, f[i - 1]>>]}
<1>1. 0 \in T
  <2> DEFINE f == [i \in 0 .. 0 |-> first]
  <2>1. f \in [0 .. 0 -> V] /\ f[0] = first /\ \A i \in 1 .. 0 : f[i] = step[<<i, f[i - 1]>>]
    OBVIOUS
  <2> HIDE DEF f
  <2> QED
    BY <2>1
<1>2. ASSUME NEW k \in 1 .. n, k - 1 \in T PROVE k \in T
  <2>1. PICK f \in [0 .. k - 1 -> V] :
          f[0] = first /\ \A i \in 1 .. k - 1 : f[i] = step[<<i, f[i - 1]>>]
    BY <1>2
  <2> DEFINE g == [i \in 0 .. k |-> IF i = k THEN step[<<k, f[k - 1]>>] ELSE f[i]]
  <2>2. f[k - 1] \in V
    OBVIOUS
  <2>3. g \in [0 .. k -> V]
    BY <2>2
  <2>4. g[0] = first
    BY <2>1
  <2>5. ASSUME NEW i \in 1 .. k PROVE g[i] = step[<<i, g[i - 1]>>]
    <3>1. CASE i = k
      <4>1. k - 1 # k /\ k - 1 \in 0 .. k
        OBVIOUS
      <4> QED
        BY <3>1, <4>1
    <3>2. CASE i # k
      <4>1. i \in 1 .. k - 1 /\ i - 1 # k /\ i - 1 \in 0 .. k
        BY <3>2
      <4> QED
        BY <2>1, <3>2, <4>1
    <3> QED
      BY <3>1, <3>2
  <2> HIDE DEF g
  <2> QED
    BY <2>3, <2>4, <2>5
<1> HIDE DEF T
<1>3. n \in T
  BY <1>1, <1>2, UpTo
<1> QED
  BY <1>3 DEF T, Iterates
-----------------------------------------------------------------------------
(* Lists: the first mentions of a list have its items, each once; the      *)
(* items that are kept are those of the list that are not excluded.        *)

\* What the items of a list become when one is appended.
LEMMA AppendedItems ==
  ASSUME NEW S, NEW l \in Seq(S), NEW x \in S
  PROVE  /\ Append(l, x) \in Seq(S)
         /\ ToSet(Append(l, x)) = ToSet(l) \cup {x}
         /\ IsInjective(l) /\ x \notin ToSet(l) => IsInjective(Append(l, x))
<1> DEFINE a == Append(l, x)
<1>1. /\ a \in Seq(S) /\ Len(a) = Len(l) + 1
      /\ \A i \in 1 .. Len(l) : a[i] = l[i]
      /\ a[Len(l) + 1] = x
  BY AppendProperties
<1>2. /\ Len(l) \in Nat /\ DOMAIN l = 1 .. Len(l) /\ DOMAIN a = 1 .. Len(l) + 1
  BY <1>1
<1> HIDE DEF a
<1>3. ToSet(a) = ToSet(l) \cup {x}
  <2>1. ASSUME NEW i \in DOMAIN a PROVE a[i] \in ToSet(l) \cup {x}
    <3>1. i \in 1 .. Len(l) \/ i = Len(l) + 1
      BY <1>2
    <3> QED
      BY <1>1, <1>2, <3>1 DEF ToSet
  <2>2. ASSUME NEW i \in DOMAIN l PROVE l[i] \in ToSet(a)
    <3>1. i \in DOMAIN a /\ a[i] = l[i]
      BY <1>1, <1>2
    <3> QED
      BY <3>1 DEF ToSet
  <2>3. x \in ToSet(a)
    <3>1. Len(l) + 1 \in DOMAIN a
      BY <1>2
    <3> QED
      BY <1>1, <3>1 DEF ToSet
  <2> QED
    BY <2>1, <2>2, <2>3 DEF ToSet
<1>4. ASSUME IsInjective(l), x \notin ToSet(l) PROVE IsInjective(a)
  <2>1. \A i \in 1 .. Len(l) : l[i] # x
    BY <1>2, <1>4 DEF ToSet
  <2>2. ASSUME NEW i \in DOMAIN a, NEW j \in DOMAIN a, a[i] = a[j] PROVE i = j
    <3>1. i \in 1 .. Len(l) \/ i = Len(l) + 1
      BY <1>2
    <3>2. j \in 1 .. Len(l) \/ j = Len(l) + 1
      BY <1>2
    <3> QED
      BY <1>1, <1>2, <1>4, <2>1, <2>2, <3>1, <3>2 DEF IsInjective
  <2> QED
    BY <2>2 DEF IsInjective
<1> QED
  BY <1>1, <1>3, <1>4 DEF a

MentionsEquation(s, f) ==
  f = [n \in 0 .. Len(s) |->
         IF n = 0 THEN <<>>
         ELSE IF Contains(f[n - 1], s[n]) THEN f[n - 1] ELSE Append(f[n - 1], s[n])]

LEMMA MentionsDefined ==
  ASSUME NEW S, NEW s \in Seq(S)
  PROVE  /\ MentionsEquation(s, Mentions(s))
         /\ Mentions(s)[0] = <<>>
         /\ \A n \in 1 .. Len(s) :
              Mentions(s)[n] = IF Contains(Mentions(s)[n - 1], s[n]) THEN Mentions(s)[n - 1]
                               ELSE Append(Mentions(s)[n - 1], s[n])
<1>0. Len(s) \in Nat
  OBVIOUS
<1>1. \E f : MentionsEquation(s, f)
  <2> DEFINE step == [p \in (1 .. Len(s)) \X Seq(S) |->
                        IF Contains(p[2], s[p[1]]) THEN p[2] ELSE Append(p[2], s[p[1]])]
  <2>1. step \in [(1 .. Len(s)) \X Seq(S) -> Seq(S)]
    <3> SUFFICES ASSUME NEW p \in (1 .. Len(s)) \X Seq(S) PROVE step[p] \in Seq(S)
      OBVIOUS
    <3>1. p[2] \in Seq(S) /\ s[p[1]] \in S
      OBVIOUS
    <3>2. Append(p[2], s[p[1]]) \in Seq(S)
      BY <3>1, AppendProperties
    <3> QED
      BY <3>1, <3>2
  <2>2. \A i \in 1 .. Len(s), l \in Seq(S) :
          step[<<i, l>>] = IF Contains(l, s[i]) THEN l ELSE Append(l, s[i])
    OBVIOUS
  <2>3. <<>> \in Seq(S)
    OBVIOUS
  <2> HIDE DEF step
  <2>4. PICK f \in [0 .. Len(s) -> Seq(S)] : Iterates(f, Len(s), <<>>, step)
    BY <1>0, <2>1, <2>3, Recursion
  <2>5. \A i \in 1 .. Len(s) : f[i] = IF Contains(f[i - 1], s[i]) THEN f[i - 1]
                                       ELSE Append(f[i - 1], s[i])
    <3> TAKE i \in 1 .. Len(s)
    <3>1. i - 1 \in 0 .. Len(s)
      BY <1>0
    <3>2. f[i - 1] \in Seq(S)
      BY <3>1
    <3> QED
      BY <2>2, <2>4, <3>2 DEF Iterates
  <2>6. \A i \in 0 .. Len(s) : i = 0 \/ i \in 1 .. Len(s)
    BY <1>0
  <2> QED
    BY <2>4, <2>5, <2>6 DEF MentionsEquation, Iterates
<1>2. Mentions(s) = CHOOSE f : MentionsEquation(s, f)
  BY Zenon DEF Mentions, MentionsEquation
<1>3. MentionsEquation(s, Mentions(s))
  BY <1>1, <1>2, Zenon
<1>4. \A n \in 1 .. Len(s) : n \in 0 .. Len(s) /\ n # 0
  BY <1>0
<1> DEFINE g == Mentions(s)
<1> HIDE DEF g
<1>5. g = [n \in 0 .. Len(s) |->
             IF n = 0 THEN <<>>
             ELSE IF Contains(g[n - 1], s[n]) THEN g[n - 1] ELSE Append(g[n - 1], s[n])]
  BY <1>3, Zenon DEF MentionsEquation, g
<1>6. 0 \in 0 .. Len(s)
  BY <1>0
<1>7. g[0] = <<>>
  BY <1>5, <1>6, Zenon
<1>8. \A n \in 1 .. Len(s) :
        g[n] = IF Contains(g[n - 1], s[n]) THEN g[n - 1] ELSE Append(g[n - 1], s[n])
  BY <1>4, <1>5, Zenon
<1> QED
  BY <1>3, <1>7, <1>8, Zenon DEF g

LEMMA FirstMentionsItems ==
  ASSUME NEW S, NEW s \in Seq(S)
  PROVE  /\ FirstMentions(s) \in Seq(S)
         /\ ToSet(FirstMentions(s)) = ToSet(s)
         /\ IsInjective(FirstMentions(s))
<1> DEFINE f == Mentions(s)
           Good(n) == /\ f[n] \in Seq(S) /\ IsInjective(f[n])
                      /\ ToSet(f[n]) = {s[i] : i \in 1 .. n}
           T == {n \in 0 .. Len(s) : Good(n)}
<1>0. Len(s) \in Nat /\ DOMAIN s = 1 .. Len(s)
  OBVIOUS
<1>a. /\ f[0] = <<>>
      /\ \A n \in 1 .. Len(s) :
           f[n] = IF Contains(f[n - 1], s[n]) THEN f[n - 1] ELSE Append(f[n - 1], s[n])
  BY MentionsDefined
<1> HIDE DEF f
<1>1. 0 \in T
  <2>1. PICK l : l = f[0]
    OBVIOUS
  <2>2. l = <<>>
    BY <1>a, <2>1
  <2>3. l \in Seq(S) /\ IsInjective(l) /\ ToSet(l) = {s[i] : i \in 1 .. 0}
    BY <2>2 DEF ToSet, IsInjective
  <2> QED
    BY <1>0, <2>1, <2>3
<1>2. ASSUME NEW n \in 1 .. Len(s), n - 1 \in T PROVE n \in T
  <2>1. Good(n - 1)
    BY <1>2
  <2>2. {s[i] : i \in 1 .. n} = {s[i] : i \in 1 .. n - 1} \cup {s[n]}
    <3>1. \A i \in 1 .. n : i \in 1 .. n - 1 \/ i = n
      BY <1>0
    <3>2. \A i \in 1 .. n - 1 : i \in 1 .. n
      BY <1>0
    <3> QED
      BY <1>0, <3>1, <3>2
  <2>3. PICK l \in Seq(S) : l = f[n - 1]
    BY <2>1
  <2>4. Contains(l, s[n]) <=> s[n] \in ToSet(l)
    BY DEF Contains, ToSet
  <2>5. s[n] \in S
    OBVIOUS
  <2>6. CASE Contains(l, s[n])
    <3>1. f[n] = l
      BY <1>a, <2>3, <2>6
    <3>2. Good(n)
      BY <2>1, <2>2, <2>3, <2>4, <2>6, <3>1
    <3> QED
      BY <1>0, <3>2
  <2>7. CASE ~Contains(l, s[n])
    <3>1. f[n] = Append(l, s[n])
      BY <1>a, <2>3, <2>7
    <3>2. /\ Append(l, s[n]) \in Seq(S) /\ IsInjective(Append(l, s[n]))
          /\ ToSet(Append(l, s[n])) = ToSet(l) \cup {s[n]}
      BY <2>1, <2>3, <2>4, <2>5, <2>7, AppendedItems
    <3>3. Good(n)
      BY <2>1, <2>2, <2>3, <3>1, <3>2
    <3> QED
      BY <1>0, <3>3
  <2> QED
    BY <2>6, <2>7
<1> HIDE DEF T
<1>3. Len(s) \in T
  <2>1. 0 .. Len(s) \subseteq T
    BY <1>0, <1>1, <1>2, UpTo
  <2> QED
    BY <1>0, <2>1
<1>4. Good(Len(s))
  BY <1>3 DEF T
<1> QED
  BY <1>0, <1>4 DEF f, FirstMentions, ToSet

KeptEquation(s, excluded, f) ==
  f = [n \in 0 .. Len(s) |->
         IF n = 0 THEN <<>>
         ELSE IF s[n] \in excluded THEN f[n - 1] ELSE Append(f[n - 1], s[n])]

LEMMA KeptDefined ==
  ASSUME NEW S, NEW s \in Seq(S), NEW excluded
  PROVE  /\ Kept(s, excluded)[0] = <<>>
         /\ \A n \in 1 .. Len(s) :
              Kept(s, excluded)[n] = IF s[n] \in excluded THEN Kept(s, excluded)[n - 1]
                                     ELSE Append(Kept(s, excluded)[n - 1], s[n])
<1>0. Len(s) \in Nat
  OBVIOUS
<1>1. \E f : KeptEquation(s, excluded, f)
  <2> DEFINE step == [p \in (1 .. Len(s)) \X Seq(S) |->
                        IF s[p[1]] \in excluded THEN p[2] ELSE Append(p[2], s[p[1]])]
  <2>1. step \in [(1 .. Len(s)) \X Seq(S) -> Seq(S)]
    <3> SUFFICES ASSUME NEW p \in (1 .. Len(s)) \X Seq(S) PROVE step[p] \in Seq(S)
      OBVIOUS
    <3>1. p[2] \in Seq(S) /\ s[p[1]] \in S
      OBVIOUS
    <3>2. Append(p[2], s[p[1]]) \in Seq(S)
      BY <3>1, AppendProperties
    <3> QED
      BY <3>1, <3>2
  <2>2. \A i \in 1 .. Len(s), l \in Seq(S) :
          step[<<i, l>>] = IF s[i] \in excluded THEN l ELSE Append(l, s[i])
    OBVIOUS
  <2>3. <<>> \in Seq(S)
    OBVIOUS
  <2> HIDE DEF step
  <2>4. PICK f \in [0 .. Len(s) -> Seq(S)] : Iterates(f, Len(s), <<>>, step)
    BY <1>0, <2>1, <2>3, Recursion
  <2>5. \A i \in 1 .. Len(s) : f[i] = IF s[i] \in excluded THEN f[i - 1] ELSE Append(f[i - 1], s[i])
    <3> TAKE i \in 1 .. Len(s)
    <3>1. i - 1 \in 0 .. Len(s)
      BY <1>0
    <3>2. f[i - 1] \in Seq(S)
      BY <3>1
    <3> QED
      BY <2>2, <2>4, <3>2 DEF Iterates
  <2>6. \A i \in 0 .. Len(s) : i = 0 \/ i \in 1 .. Len(s)
    BY <1>0
  <2> QED
    BY <2>4, <2>5, <2>6 DEF KeptEquation, Iterates
<1> DEFINE g == Kept(s, excluded)
<1>2. g = CHOOSE f : KeptEquation(s, excluded, f)
  BY Zenon DEF Kept, KeptEquation
<1> HIDE DEF g
<1>3. KeptEquation(s, excluded, g)
  BY <1>1, <1>2, Zenon
<1>4. \A n \in 1 .. Len(s) : n \in 0 .. Len(s) /\ n # 0
  BY <1>0
<1>5. g = [n \in 0 .. Len(s) |->
             IF n = 0 THEN <<>>
             ELSE IF s[n] \in excluded THEN g[n - 1] ELSE Append(g[n - 1], s[n])]
  BY <1>3, Zenon DEF KeptEquation
<1>6. 0 \in 0 .. Len(s)
  BY <1>0
<1>7. g[0] = <<>>
  BY <1>5, <1>6, Zenon
<1>8. \A n \in 1 .. Len(s) :
        g[n] = IF s[n] \in excluded THEN g[n - 1] ELSE Append(g[n - 1], s[n])
  BY <1>4, <1>5, Zenon
<1> QED
  BY <1>7, <1>8, Zenon DEF g

LEMMA KeptItems ==
  ASSUME NEW S, NEW s \in Seq(S), NEW excluded, NEW n \in 0 .. Len(s)
  PROVE  /\ Kept(s, excluded)[n] \in Seq(S)
         /\ Len(Kept(s, excluded)[n]) <= n
         /\ ToSet(Kept(s, excluded)[n]) = {s[i] : i \in 1 .. n} \ excluded
         /\ IsInjective(s) => IsInjective(Kept(s, excluded)[n])
<1> DEFINE f == Kept(s, excluded)
           Good(m) == /\ f[m] \in Seq(S) /\ Len(f[m]) <= m
                      /\ ToSet(f[m]) = {s[i] : i \in 1 .. m} \ excluded
                      /\ IsInjective(s) => IsInjective(f[m])
           T == {m \in 0 .. Len(s) : Good(m)}
<1>0. Len(s) \in Nat /\ DOMAIN s = 1 .. Len(s)
  OBVIOUS
<1>a. /\ f[0] = <<>>
      /\ \A m \in 1 .. Len(s) :
           f[m] = IF s[m] \in excluded THEN f[m - 1] ELSE Append(f[m - 1], s[m])
  BY KeptDefined
<1> HIDE DEF f
<1>1. 0 \in T
  <2>1. PICK l : l = f[0]
    OBVIOUS
  <2>2. l = <<>>
    BY <1>a, <2>1
  <2>3. /\ l \in Seq(S) /\ Len(l) <= 0 /\ IsInjective(l)
        /\ ToSet(l) = {s[i] : i \in 1 .. 0} \ excluded
    BY <2>2 DEF ToSet, IsInjective
  <2> QED
    BY <1>0, <2>1, <2>3
<1>2. ASSUME NEW m \in 1 .. Len(s), m - 1 \in T PROVE m \in T
  <2>1. Good(m - 1)
    BY <1>2
  <2>2. {s[i] : i \in 1 .. m} = {s[i] : i \in 1 .. m - 1} \cup {s[m]}
    <3>1. \A i \in 1 .. m : i \in 1 .. m - 1 \/ i = m
      BY <1>0
    <3>2. \A i \in 1 .. m - 1 : i \in 1 .. m
      BY <1>0
    <3> QED
      BY <1>0, <3>1, <3>2
  <2>3. PICK l \in Seq(S) : l = f[m - 1]
    BY <2>1
  <2>4. s[m] \in S
    OBVIOUS
  <2>5. CASE s[m] \in excluded
    <3>1. f[m] = l
      BY <1>a, <2>3, <2>5
    <3>2. ToSet(l) = {s[i] : i \in 1 .. m} \ excluded
      BY <2>1, <2>2, <2>3, <2>5
    <3>3. Len(l) <= m
      BY <1>0, <2>1, <2>3
    <3>4. Good(m)
      BY <2>1, <2>3, <3>1, <3>2, <3>3
    <3> QED
      BY <1>0, <3>4
  <2>6. CASE s[m] \notin excluded
    <3>1. f[m] = Append(l, s[m])
      BY <1>a, <2>3, <2>6
    <3>2. /\ Append(l, s[m]) \in Seq(S) /\ Len(Append(l, s[m])) = Len(l) + 1
          /\ ToSet(Append(l, s[m])) = ToSet(l) \cup {s[m]}
          /\ IsInjective(l) /\ s[m] \notin ToSet(l) => IsInjective(Append(l, s[m]))
      BY <2>4, AppendedItems, AppendProperties
    <3>3. ToSet(Append(l, s[m])) = {s[i] : i \in 1 .. m} \ excluded
      BY <2>1, <2>2, <2>3, <2>6, <3>2
    <3>4. Len(Append(l, s[m])) <= m
      BY <1>0, <2>1, <2>3, <3>2
    <3>5. IsInjective(s) => s[m] \notin ToSet(l)
      <4>1. ASSUME IsInjective(s), NEW i \in 1 .. m - 1 PROVE s[i] # s[m]
        <5>1. i \in DOMAIN s /\ m \in DOMAIN s /\ i # m
          BY <1>0
        <5> QED
          BY <4>1, <5>1 DEF IsInjective
      <4> QED
        BY <2>1, <2>3, <4>1
    <3>6. Good(m)
      BY <2>1, <2>3, <3>1, <3>2, <3>3, <3>4, <3>5
    <3> QED
      BY <1>0, <3>6
  <2> QED
    BY <2>5, <2>6
<1> HIDE DEF T
<1>3. n \in T
  <2>1. 0 .. Len(s) \subseteq T
    BY <1>0, <1>1, <1>2, UpTo
  <2> QED
    BY <1>0, <2>1
<1>4. Good(n)
  BY <1>3 DEF T
<1> QED
  BY <1>4 DEF f

FlattenEquation(seqs, f) ==
  f = [i \in 1 .. Len(seqs) |-> IF i = 1 THEN seqs[i] ELSE f[i - 1] \o seqs[i]]

\* What concatenating two lists does to their items.
LEMMA JoinedItems ==
  ASSUME NEW S, NEW l \in Seq(S), NEW m \in Seq(S)
  PROVE  l \o m \in Seq(S) /\ ToSet(l \o m) = ToSet(l) \cup ToSet(m)
<1>1. Range(l \o m) = Range(l) \cup Range(m)
  BY RangeConcatenation
<1>2. l \o m \in Seq(S)
  OBVIOUS
<1> QED
  BY <1>1, <1>2, Zenon DEF Range, ToSet

LEMMA FlattenItems ==
  ASSUME NEW S, NEW seqs \in Seq(Seq(S))
  PROVE  /\ FlattenSeq(seqs) \in Seq(S)
         /\ ToSet(FlattenSeq(seqs)) = UNION {ToSet(seqs[i]) : i \in DOMAIN seqs}
<1>0. Len(seqs) \in Nat /\ DOMAIN seqs = 1 .. Len(seqs) /\ \A i \in 1 .. Len(seqs) : seqs[i] \in Seq(S)
  OBVIOUS
<1>1. CASE Len(seqs) = 0
  <2>1. FlattenSeq(seqs) = seqs
    BY <1>1, Zenon DEF FlattenSeq
  <2>2. seqs = <<>>
    BY <1>1
  <2>3. PICK nil : nil = <<>>
    OBVIOUS
  <2>4. nil \in Seq(S) /\ ToSet(nil) = {} /\ DOMAIN nil = {}
    BY <2>3 DEF ToSet
  <2> QED
    BY <2>1, <2>2, <2>3, <2>4
<1>2. CASE Len(seqs) # 0
  <2> DEFINE step == [p \in (1 .. Len(seqs)) \X Seq(S) |-> p[2] \o seqs[p[1]]]
  <2>1. step \in [(1 .. Len(seqs)) \X Seq(S) -> Seq(S)]
    <3> SUFFICES ASSUME NEW p \in (1 .. Len(seqs)) \X Seq(S) PROVE step[p] \in Seq(S)
      OBVIOUS
    <3>1. p[2] \in Seq(S) /\ seqs[p[1]] \in Seq(S)
      BY <1>0
    <3>2. p[2] \o seqs[p[1]] \in Seq(S)
      BY <3>1, ConcatProperties
    <3> QED
      BY <3>2
  <2>2. \A i \in 1 .. Len(seqs), l \in Seq(S) : step[<<i, l>>] = l \o seqs[i]
    OBVIOUS
  <2>3. <<>> \in Seq(S)
    OBVIOUS
  <2> HIDE DEF step
  <2>4. PICK g \in [0 .. Len(seqs) -> Seq(S)] : Iterates(g, Len(seqs), <<>>, step)
    BY <1>0, <2>1, <2>3, Recursion
  <2>5. \A i \in 1 .. Len(seqs) : i - 1 \in 0 .. Len(seqs) /\ g[i - 1] \in Seq(S)
    <3> TAKE i \in 1 .. Len(seqs)
    <3>1. i - 1 \in 0 .. Len(seqs)
      BY <1>0
    <3> QED
      BY <3>1
  <2>6. \A i \in 1 .. Len(seqs) : g[i] = g[i - 1] \o seqs[i]
    BY <2>2, <2>4, <2>5 DEF Iterates
  <2>7. g[1] = seqs[1]
    <3>1. 1 \in 1 .. Len(seqs) /\ g[1 - 1] = <<>>
      BY <1>0, <1>2, <2>4 DEF Iterates
    <3>2. g[1] = <<>> \o seqs[1] /\ seqs[1] \in Seq(S)
      BY <1>0, <2>6, <3>1
    <3> QED
      BY <3>2, ConcatEmptySeq
  <2> DEFINE f == [i \in 1 .. Len(seqs) |-> g[i]]
  <2>8. FlattenEquation(seqs, f)
    <3>1. ASSUME NEW i \in 1 .. Len(seqs)
          PROVE  f[i] = IF i = 1 THEN seqs[i] ELSE f[i - 1] \o seqs[i]
      <4>1. CASE i = 1
        BY <2>7, <4>1
      <4>2. CASE i # 1
        <5>1. i - 1 \in 1 .. Len(seqs)
          BY <1>0, <4>2
        <5> QED
          BY <2>6, <4>2, <5>1
      <4> QED
        BY <4>1, <4>2
    <3>2. f = [i \in 1 .. Len(seqs) |-> f[i]]
      OBVIOUS
    <3> HIDE DEF f
    <3> QED
      BY <3>1, <3>2 DEF FlattenEquation
  <2> HIDE DEF f
  <2> DEFINE flatten == CHOOSE h : FlattenEquation(seqs, h)
  <2>9. FlattenSeq(seqs) = flatten[Len(seqs)]
    BY <1>2, Zenon DEF FlattenSeq, FlattenEquation
  <2>10. FlattenEquation(seqs, flatten)
    BY <2>8, Zenon
  <2> HIDE DEF flatten
  <2>11. /\ flatten[1] = seqs[1]
         /\ \A i \in 1 .. Len(seqs) : i # 1 => flatten[i] = flatten[i - 1] \o seqs[i]
    <3>1. flatten = [i \in 1 .. Len(seqs) |->
                       IF i = 1 THEN seqs[i] ELSE flatten[i - 1] \o seqs[i]]
      BY <2>10, Zenon DEF FlattenEquation
    <3>2. 1 \in 1 .. Len(seqs)
      BY <1>0, <1>2
    <3> QED
      BY <3>1, <3>2, Zenon
  <2> DEFINE Good(n) == flatten[n] \in Seq(S)
                        /\ ToSet(flatten[n]) = UNION {ToSet(seqs[i]) : i \in 1 .. n}
             T == {n \in 0 .. Len(seqs) : n = 0 \/ Good(n)}
  <2>12. ASSUME NEW n \in 1 .. Len(seqs), n - 1 \in T PROVE n \in T
    <3>1. seqs[n] \in Seq(S)
      BY <1>0
    <3>2. CASE n = 1
      <4>1. UNION {ToSet(seqs[i]) : i \in 1 .. 1} = ToSet(seqs[1])
        OBVIOUS
      <4>2. Good(1)
        BY <2>11, <3>1, <3>2, <4>1
      <4> QED
        BY <1>0, <3>2, <4>2
    <3>3. CASE n # 1
      <4>1. PICK l \in Seq(S) : l = flatten[n - 1] /\ ToSet(l) = UNION {ToSet(seqs[i]) : i \in 1 .. n - 1}
        BY <1>0, <2>12, <3>3
      <4>2. flatten[n] = l \o seqs[n]
        BY <2>11, <3>3, <4>1
      <4>3. l \o seqs[n] \in Seq(S) /\ ToSet(l \o seqs[n]) = ToSet(l) \cup ToSet(seqs[n])
        BY <3>1, JoinedItems
      <4>4. UNION {ToSet(seqs[i]) : i \in 1 .. n}
              = (UNION {ToSet(seqs[i]) : i \in 1 .. n - 1}) \cup ToSet(seqs[n])
        <5>1. \A i \in 1 .. n : i \in 1 .. n - 1 \/ i = n
          BY <1>0
        <5>2. \A i \in 1 .. n - 1 : i \in 1 .. n
          BY <1>0
        <5>3. n \in 1 .. n
          BY <1>0
        <5> QED
          BY <5>1, <5>2, <5>3
      <4>5. Good(n)
        BY <4>1, <4>2, <4>3, <4>4
      <4> QED
        BY <1>0, <4>5
    <3> QED
      BY <3>2, <3>3
  <2>13. 0 \in T
    BY <1>0
  <2> HIDE DEF T
  <2>14. 0 .. Len(seqs) \subseteq T
    BY <1>0, <2>12, <2>13, UpTo
  <2>15. Good(Len(seqs))
    <3>1. Len(seqs) \in T
      BY <1>0, <2>14
    <3> QED
      BY <1>2, <3>1 DEF T
  <2> QED
    BY <1>0, <2>9, <2>15
<1> QED
  BY <1>1, <1>2

-----------------------------------------------------------------------------
(* Port arguments.                                                         *)

LEMMA EmptyList ==
  ASSUME NEW S, NEW l \in Seq(S)
  PROVE  l = <<>> <=> ToSet(l) = {}
<1>1. DOMAIN l = 1 .. Len(l) /\ Len(l) \in Nat
  OBVIOUS
<1>2. ASSUME l # <<>> PROVE ToSet(l) # {}
  <2>1. Len(l) # 0
    BY <1>2
  <2>2. 1 \in DOMAIN l
    BY <1>1, <2>1
  <2> QED
    BY <2>2 DEF ToSet
<1>3. ASSUME l = <<>> PROVE ToSet(l) = {}
  <2>1. Len(l) = 0
    BY <1>3
  <2> QED
    BY <1>1, <2>1 DEF ToSet
<1> QED
  BY <1>2, <1>3

\* One block, if its ends are ports.
LEMMA BlockExpanded ==
  ASSUME NEW b \in Blocks, b.lo \in 1 .. MaxPort, b.hi \in 1 .. MaxPort
  PROVE  /\ BlockPorts(b) \in Seq(1 .. MaxPort)
         /\ ToSet(BlockPorts(b)) = (b.lo .. b.hi) \cup (b.hi .. b.lo)
         /\ (b.lo .. b.hi) \cup (b.hi .. b.lo) \in (SUBSET (1 .. MaxPort)) \ {{}}
<1>0. PICK lo \in 1 .. MaxPort, hi \in 1 .. MaxPort :
        lo = Low(b) /\ hi = High(b) /\ lo <= hi /\ lo .. hi = (b.lo .. b.hi) \cup (b.hi .. b.lo)
  BY SyntaxAssumption DEF SyntaxAssumption, Low, High
<1> DEFINE n == hi - lo + 1
           p == [k \in 1 .. n |-> lo + k - 1]
<1>1. n \in Nat /\ BlockPorts(b) = p
  BY <1>0 DEF BlockPorts
<1>2. p \in Seq(1 .. MaxPort)
  <2>1. \A k \in 1 .. n : lo + k - 1 \in 1 .. MaxPort
    BY SyntaxAssumption DEF SyntaxAssumption
  <2> QED
    BY <1>1, <2>1
<1>3. ToSet(p) = lo .. hi
  <2>1. \A k \in 1 .. n : lo + k - 1 \in lo .. hi
    OBVIOUS
  <2>2. \A x \in lo .. hi : x - lo + 1 \in 1 .. n /\ lo + (x - lo + 1) - 1 = x
    OBVIOUS
  <2>3. DOMAIN p = 1 .. n /\ \A k \in 1 .. n : p[k] = lo + k - 1
    OBVIOUS
  <2> HIDE DEF p, n
  <2>4. ASSUME NEW x \in lo .. hi PROVE x \in ToSet(p)
    <3>1. PICK k \in 1 .. n : k = x - lo + 1
      BY <2>2
    <3>2. p[k] = x
      BY <2>2, <2>3, <3>1
    <3> QED
      BY <2>3, <3>1, <3>2 DEF ToSet
  <2>5. ASSUME NEW x \in ToSet(p) PROVE x \in lo .. hi
    BY <2>1, <2>3, <2>5 DEF ToSet
  <2> QED
    BY <2>4, <2>5
<1>4. lo .. hi \in (SUBSET (1 .. MaxPort)) \ {{}}
  <2>1. lo \in lo .. hi /\ \A x \in lo .. hi : x \in 1 .. MaxPort
    BY <1>0, SyntaxAssumption DEF SyntaxAssumption
  <2> QED
    BY <2>1
<1> QED
  BY <1>0, <1>1, <1>2, <1>3, <1>4

\* A port argument lists the ports it asks for, and nothing when an end of a
\* block is no port; it asks for some port unless it is empty.
LEMMA PortsExpanded ==
  ASSUME NEW blocks \in Seq(Blocks)
  PROVE  /\ expandPorts(blocks) \in Seq(1 .. MaxPort)
         /\ IsInjective(expandPorts(blocks))
         /\ BadPorts(blocks) => expandPorts(blocks) = <<>>
         /\ ~BadPorts(blocks) =>
              /\ ToSet(expandPorts(blocks)) = AskedPorts(blocks)
              /\ blocks # <<>> => AskedPorts(blocks) # {}
<1>0. Len(blocks) \in Nat /\ DOMAIN blocks = 1 .. Len(blocks) /\ \A i \in DOMAIN blocks : blocks[i] \in Blocks
  OBVIOUS
<1>1. BadPorts(blocks) <=> \E b \in ToSet(blocks) : Low(b) < 1 \/ High(b) > MaxPort
  <2>1. ASSUME NEW b \in Blocks
        PROVE  {b.lo, b.hi} \cap (1 .. MaxPort) # {b.lo, b.hi} <=> Low(b) < 1 \/ High(b) > MaxPort
    <3>1. b.lo \in 0 .. MaxPort + 1 /\ b.hi \in 0 .. MaxPort + 1
      BY DEF Blocks
    <3>2. {b.lo, b.hi} \cap (1 .. MaxPort) # {b.lo, b.hi} <=> b.lo \notin 1 .. MaxPort \/ b.hi \notin 1 .. MaxPort
      OBVIOUS
    <3> QED
      BY <3>1, <3>2, SyntaxAssumption DEF SyntaxAssumption, Low, High
  <2>2. \A b \in ToSet(blocks) : b \in Blocks
    BY <1>0 DEF ToSet
  <2> QED
    BY <2>1, <2>2 DEF BadPorts
<1>2. CASE BadPorts(blocks)
  <2>1. expandPorts(blocks) = <<>>
    BY <1>1, <1>2, Zenon DEF expandPorts
  <2>2. PICK nil : nil = <<>>
    OBVIOUS
  <2>3. nil \in Seq(1 .. MaxPort) /\ IsInjective(nil)
    BY <2>2 DEF IsInjective
  <2> QED
    BY <1>2, <2>1, <2>2, <2>3
<1>3. CASE ~BadPorts(blocks)
  <2> DEFINE each == [i \in DOMAIN blocks |-> BlockPorts(blocks[i])]
  <2>1. \A i \in DOMAIN blocks : blocks[i].lo \in 1 .. MaxPort /\ blocks[i].hi \in 1 .. MaxPort
    <3> TAKE i \in DOMAIN blocks
    <3>1. PICK b \in Blocks : b = blocks[i] /\ b \in ToSet(blocks)
      BY <1>0 DEF ToSet
    <3>2. {b.lo, b.hi} \cap (1 .. MaxPort) = {b.lo, b.hi}
      BY <1>3, <3>1 DEF BadPorts
    <3> QED
      BY <3>1, <3>2
  <2>2. \A i \in DOMAIN blocks : BlockPorts(blocks[i]) \in Seq(1 .. MaxPort)
    BY <1>0, <2>1, BlockExpanded
  <2>3. each \in Seq(Seq(1 .. MaxPort)) /\ DOMAIN each = DOMAIN blocks
    BY <1>0, <2>2
  <2>4. expandPorts(blocks) = FirstMentions(FlattenSeq(each))
    BY <1>1, <1>3, Zenon DEF expandPorts
  <2>5. \A i \in DOMAIN blocks :
          ToSet(each[i]) = (blocks[i].lo .. blocks[i].hi) \cup (blocks[i].hi .. blocks[i].lo)
    BY <1>0, <2>1, BlockExpanded
  <2>6. \A i \in DOMAIN blocks :
          (blocks[i].lo .. blocks[i].hi) \cup (blocks[i].hi .. blocks[i].lo)
             \in (SUBSET (1 .. MaxPort)) \ {{}}
    BY <1>0, <2>1, BlockExpanded
  <2> HIDE DEF each
  <2>7. /\ FlattenSeq(each) \in Seq(1 .. MaxPort)
        /\ ToSet(FlattenSeq(each)) = UNION {ToSet(each[i]) : i \in DOMAIN blocks}
    BY <2>3, FlattenItems
  <2>8. UNION {ToSet(each[i]) : i \in DOMAIN blocks} = AskedPorts(blocks)
    <3>1. ASSUME NEW x, NEW i \in DOMAIN blocks, x \in ToSet(each[i]) PROVE x \in AskedPorts(blocks)
      <4>1. x \in 1 .. MaxPort /\ x \in (blocks[i].lo .. blocks[i].hi) \cup (blocks[i].hi .. blocks[i].lo)
        BY <2>5, <2>6, <3>1
      <4>2. blocks[i] \in ToSet(blocks)
        BY DEF ToSet
      <4> QED
        BY <4>1, <4>2 DEF AskedPorts
    <3>2. ASSUME NEW x \in AskedPorts(blocks) PROVE \E i \in DOMAIN blocks : x \in ToSet(each[i])
      <4>1. PICK b \in ToSet(blocks) : x \in (b.lo .. b.hi) \cup (b.hi .. b.lo)
        BY <3>2 DEF AskedPorts
      <4>2. PICK i \in DOMAIN blocks : b = blocks[i]
        BY DEF ToSet
      <4> QED
        BY <2>5, <4>1, <4>2
    <3> QED
      BY <3>1, <3>2
  <2>9. ASSUME blocks # <<>> PROVE AskedPorts(blocks) # {}
    <3>1. 1 \in DOMAIN blocks
      BY <1>0, <2>9
    <3> QED
      BY <2>5, <2>6, <2>8, <3>1
  <2>10. /\ FirstMentions(FlattenSeq(each)) \in Seq(1 .. MaxPort)
         /\ ToSet(FirstMentions(FlattenSeq(each))) = ToSet(FlattenSeq(each))
         /\ IsInjective(FirstMentions(FlattenSeq(each)))
    BY <2>7, FirstMentionsItems
  <2> QED
    BY <1>3, <2>4, <2>7, <2>8, <2>9, <2>10
<1> QED
  BY <1>2, <1>3

\* The most common ports.
LEMMA TopPortsTaken ==
  ASSUME NEW n \in Nat, n > 0
  PROVE  /\ topPortsN(n) \in Seq(1 .. MaxPort)
         /\ IsInjective(topPortsN(n))
         /\ ToSet(topPortsN(n)) = {TopPorts[i] : i \in {m \in DOMAIN TopPorts : m <= n}}
<1>0. TopPorts \in Seq(1 .. MaxPort) /\ IsInjective(TopPorts)
  BY SyntaxAssumption DEF SyntaxAssumption
<1>1. PICK l \in Nat : l = Len(TopPorts) /\ DOMAIN TopPorts = 1 .. l
  BY <1>0
<1>2. PICK m \in 0 .. l : m = (IF n > l THEN l ELSE n)
  OBVIOUS
<1>3. PICK t : t = topPortsN(n) /\ t = SubSeq(TopPorts, 1, m)
  BY <1>1, <1>2 DEF topPortsN
<1>4. t \in Seq(1 .. MaxPort) /\ Len(t) = m /\ \A i \in 1 .. m : t[i] = TopPorts[i]
  <2>1. \A i \in 1 .. m : TopPorts[i] \in 1 .. MaxPort
    <3> TAKE i \in 1 .. m
    <3>1. i \in 1 .. Len(TopPorts)
      BY <1>1
    <3> QED
      BY <1>0, <3>1, ElementOfSeq
  <2>2. /\ SubSeq(TopPorts, 1, m) \in Seq(1 .. MaxPort)
        /\ Len(SubSeq(TopPorts, 1, m)) = IF 1 <= m THEN m - 1 + 1 ELSE 0
        /\ \A i \in 1 .. m - 1 + 1 : SubSeq(TopPorts, 1, m)[i] = TopPorts[1 + i - 1]
    BY <2>1, SubSeqProperties
  <2>3. m - 1 + 1 = m /\ \A i \in 1 .. m : 1 + i - 1 = i
    OBVIOUS
  <2> QED
    BY <1>3, <2>2, <2>3
<1>5. {k \in DOMAIN TopPorts : k <= n} = 1 .. m
  BY <1>1, <1>2
<1>6. DOMAIN t = 1 .. m
  BY <1>4
<1>7. IsInjective(t)
  <2>1. \A i \in 1 .. m : i \in DOMAIN TopPorts
    BY <1>1
  <2> QED
    BY <1>0, <1>4, <1>6, <2>1 DEF IsInjective
<1>8. ToSet(t) = {TopPorts[i] : i \in 1 .. m}
  BY <1>4, <1>6 DEF ToSet
<1> QED
  BY <1>3, <1>4, <1>5, <1>7, <1>8

-----------------------------------------------------------------------------
(* Arithmetic: division, and the powers of two.                            *)

LEMMA Division ==
  ASSUME NEW n \in Nat, NEW b \in Nat, b > 0
  PROVE  \E d \in Nat, r \in Nat : d = n \div b /\ r = (n % b) /\ r < b /\ n = b * d + r
<1>1. n \div b \in Nat /\ (n % b) \in Nat /\ (n % b) < b /\ n = b * (n \div b) + (n % b)
  OBVIOUS
<1> QED
  BY <1>1

LEMMA DivisionOfInts ==
  ASSUME NEW x \in Int, NEW b \in Nat, b > 0
  PROVE  \E d \in Int, r \in Nat : r = (x % b) /\ r < b /\ x = b * d + r
<1>1. x \div b \in Int /\ (x % b) \in Nat /\ (x % b) < b /\ x = b * (x \div b) + (x % b)
  OBVIOUS
<1> QED
  BY <1>1

LEMMA Multiple ==
  ASSUME NEW b \in Nat, b > 0, NEW x \in Int, x >= 1
  PROVE  b * x >= b
OBVIOUS

\* Quotient and remainder are what they are by being small enough.
LEMMA Divided ==
  ASSUME NEW b \in Nat, NEW d \in Nat, NEW r \in Nat, r < b
  PROVE  (b * d + r) \div b = d /\ ((b * d + r) % b) = r
<1> DEFINE n == b * d + r
<1>0. n \in Nat /\ b > 0
  OBVIOUS
<1> HIDE DEF n
<1>1. PICK e \in Nat, q \in Nat : e = n \div b /\ q = (n % b) /\ q < b /\ n = b * e + q
  BY <1>0, Division
<1>2. b * (e - d) = r - q
  BY <1>1 DEF n
<1>3. b * (d - e) = q - r
  BY <1>1 DEF n
<1>4. ~(e - d >= 1)
  BY <1>0, <1>1, <1>2, Multiple
<1>5. ~(d - e >= 1)
  BY <1>0, <1>1, <1>3, Multiple
<1>6. e = d
  BY <1>4, <1>5
<1> QED
  BY <1>1, <1>2, <1>6 DEF n

LEMMA DividedTwice ==
  ASSUME NEW n \in Nat, NEW a \in Nat, NEW b \in Nat, a > 0, b > 0
  PROVE  (n \div a) \div b = n \div (a * b)
<1>1. PICK q \in Nat, r \in Nat : q = n \div a /\ r < a /\ n = a * q + r
  BY Division
<1>2. PICK e \in Nat, t \in Nat : e = q \div b /\ t < b /\ q = b * e + t
  BY Division
<1> DEFINE c == a * b
           u == a * t + r
<1>3. n = c * e + u
  BY <1>1, <1>2
<1>4. c \in Nat /\ u \in Nat
  OBVIOUS
<1>5. u < c
  <2>1. a * (b - t) >= a
    BY <1>2, Multiple
  <2>2. a * (b - t) = c - a * t
    OBVIOUS
  <2> QED
    BY <1>1, <2>1, <2>2
<1> HIDE DEF c, u
<1>6. (c * e + u) \div c = e
  BY <1>4, <1>5, Divided
<1> QED
  BY <1>1, <1>2, <1>3, <1>6 DEF c

LEMMA BitsFact ==
  /\ Bits \in Nat /\ DigitBits \in 1 .. Bits /\ Digits \in Nat \ {0}
  /\ \A k \in 0 .. Digits : DigitBits * k \in 0 .. Bits
<1>0. DigitBits \in Nat \ {0} /\ Digits \in Nat \ {0}
  BY SyntaxAssumption DEF SyntaxAssumption
<1>1. Bits \in Nat /\ Bits = DigitBits * Digits
  BY <1>0 DEF Bits
<1>2. ASSUME NEW k \in 0 .. Digits PROVE DigitBits * k \in 0 .. Bits
  <2>1. DigitBits * Digits - DigitBits * k = DigitBits * (Digits - k)
    BY <1>0
  <2>2. DigitBits * (Digits - k) >= 0 /\ DigitBits * k >= 0
    BY <1>0
  <2> QED
    BY <1>0, <1>1, <2>1, <2>2
<1>3. DigitBits * 1 \in 0 .. Bits
  BY <1>0, <1>2
<1> QED
  BY <1>0, <1>1, <1>2, <1>3

Pow2Equation(f) == f = [n \in 0 .. Bits |-> IF n = 0 THEN 1 ELSE 2 * f[n - 1]]

LEMMA Pow2Defined ==
  /\ Pow2[0] = 1
  /\ \A n \in 1 .. Bits : Pow2[n] = 2 * Pow2[n - 1]
<1>0. Bits \in Nat
  BY BitsFact
<1>1. \E f : Pow2Equation(f)
  <2> DEFINE step == [p \in (1 .. Bits) \X Nat |-> 2 * p[2]]
  <2>1. step \in [(1 .. Bits) \X Nat -> Nat]
    OBVIOUS
  <2>2. \A i \in 1 .. Bits, n \in Nat : step[<<i, n>>] = 2 * n
    OBVIOUS
  <2> HIDE DEF step
  <2>3. PICK f \in [0 .. Bits -> Nat] : Iterates(f, Bits, 1, step)
    BY <1>0, <2>1, Recursion
  <2>4. \A i \in 1 .. Bits : f[i] = 2 * f[i - 1]
    <3> TAKE i \in 1 .. Bits
    <3>1. i - 1 \in 0 .. Bits
      BY <1>0
    <3>2. f[i - 1] \in Nat
      BY <3>1
    <3> QED
      BY <2>2, <2>3, <3>2 DEF Iterates
  <2>5. \A i \in 0 .. Bits : i = 0 \/ i \in 1 .. Bits
    BY <1>0
  <2> QED
    BY <2>3, <2>4, <2>5 DEF Pow2Equation, Iterates
<1>2. Pow2 = CHOOSE f : Pow2Equation(f)
  BY Zenon DEF Pow2, Pow2Equation
<1>3. Pow2 = [n \in 0 .. Bits |-> IF n = 0 THEN 1 ELSE 2 * Pow2[n - 1]]
  BY <1>1, <1>2, Zenon DEF Pow2Equation
<1>4. 0 \in 0 .. Bits /\ \A n \in 1 .. Bits : n \in 0 .. Bits /\ n # 0
  BY <1>0
<1> QED
  BY <1>3, <1>4, Zenon

LEMMA Pow2Values ==
  \A n \in 0 .. Bits : Pow2[n] \in Nat /\ Pow2[n] >= 1 /\ (n >= 1 => Pow2[n] >= 2) /\ (n >= 2 => Pow2[n] >= 4)
<1> DEFINE T == {n \in 0 .. Bits : Pow2[n] \in Nat /\ Pow2[n] >= 1
                                   /\ (n >= 1 => Pow2[n] >= 2) /\ (n >= 2 => Pow2[n] >= 4)}
<1>0. Bits \in Nat
  BY BitsFact
<1>1. 0 \in T
  BY <1>0, Pow2Defined
<1>2. ASSUME NEW n \in 1 .. Bits, n - 1 \in T PROVE n \in T
  <2>1. Pow2[n] = 2 * Pow2[n - 1]
    BY Pow2Defined
  <2>2. PICK k \in Nat : k = Pow2[n - 1] /\ k >= 1 /\ (n - 1 >= 1 => k >= 2)
    BY <1>2
  <2>3. Pow2[n] \in Nat /\ Pow2[n] >= 2 /\ (n >= 2 => Pow2[n] >= 4)
    BY <1>0, <2>1, <2>2
  <2> QED
    BY <1>0, <2>3
<1> HIDE DEF T
<1>3. 0 .. Bits \subseteq T
  BY <1>0, <1>1, <1>2, UpTo
<1> QED
  BY <1>3 DEF T

LEMMA Pow2Sum ==
  ASSUME NEW a \in Nat, NEW b \in Nat, a + b <= Bits
  PROVE  Pow2[a + b] = Pow2[a] * Pow2[b]
<1> DEFINE T == {n \in 0 .. b : Pow2[a + n] = Pow2[a] * Pow2[n]}
<1>0. Bits \in Nat
  BY BitsFact
<1>a. PICK p \in Nat : p = Pow2[a]
  BY <1>0, Pow2Values
<1>1. 0 \in T
  <2>1. a + 0 = a /\ p * 1 = p
    OBVIOUS
  <2> QED
    BY <1>a, <2>1, Pow2Defined
<1>2. ASSUME NEW n \in 1 .. b, n - 1 \in T PROVE n \in T
  <2>1. PICK m \in 0 .. Bits : m = a + (n - 1) /\ m = a + n - 1
    BY <1>0
  <2>2. n - 1 \in 0 .. Bits /\ a + n \in 1 .. Bits /\ n \in 1 .. Bits
    BY <1>0
  <2>3. PICK q \in Nat : q = Pow2[n - 1]
    BY <2>2, Pow2Values
  <2>4. Pow2[m] = p * q
    BY <1>2, <1>a, <2>1, <2>3
  <2>5. Pow2[a + n] = 2 * (p * q) /\ Pow2[n] = 2 * q
    BY <2>1, <2>2, <2>3, <2>4, Pow2Defined
  <2>6. 2 * (p * q) = p * (2 * q)
    OBVIOUS
  <2> QED
    BY <1>a, <2>5, <2>6
<1> HIDE DEF T
<1>3. 0 .. b \subseteq T
  BY <1>1, <1>2, UpTo
<1>4. b \in T
  BY <1>3
<1> QED
  BY <1>4 DEF T

-----------------------------------------------------------------------------
(* Addresses are numbers: Number and Address are inverse to each other.    *)

\* What the k-th digit from the right counts for.
Radix(k) == Pow2[DigitBits * k]

LEMMA RadixFact ==
  /\ Base \in Nat /\ Base >= 2
  /\ Radix(0) = 1 /\ Radix(Digits) = Pow2[Bits]
  /\ \A k \in 0 .. Digits : Radix(k) \in Nat /\ Radix(k) >= 1
  /\ \A k \in 1 .. Digits : Radix(k) = Radix(k - 1) * Base
<1>0. DigitBits \in Nat \ {0} /\ Digits \in Nat \ {0}
  BY SyntaxAssumption DEF SyntaxAssumption
<1>1. Base \in Nat /\ Base >= 2
  BY <1>0, BitsFact, Pow2Values DEF Base
<1>2. Radix(0) = 1
  <2>1. DigitBits * 0 = 0
    BY <1>0
  <2> QED
    BY <2>1, Pow2Defined DEF Radix
<1>3. Radix(Digits) = Pow2[Bits]
  BY Zenon DEF Radix, Bits
<1>4. ASSUME NEW k \in 0 .. Digits PROVE Radix(k) \in Nat /\ Radix(k) >= 1
  BY BitsFact, Pow2Values DEF Radix
<1>5. ASSUME NEW k \in 1 .. Digits PROVE Radix(k) = Radix(k - 1) * Base
  <2>1. k \in 0 .. Digits /\ k - 1 \in 0 .. Digits
    BY <1>0
  <2>2. PICK a \in Nat, c \in Nat : a = DigitBits * (k - 1) /\ c = DigitBits * k /\ c = a + DigitBits
    BY <1>0
  <2>3. c <= Bits
    BY <2>1, <2>2, BitsFact
  <2>4. Pow2[a + DigitBits] = Pow2[a] * Pow2[DigitBits]
    BY <1>0, <2>2, <2>3, Pow2Sum
  <2> QED
    BY <2>2, <2>4 DEF Radix, Base
<1> QED
  BY <1>1, <1>2, <1>3, <1>4, <1>5

LeadingEquation(ip, f) ==
  f = [j \in 0 .. Digits |-> IF j = 0 THEN 0 ELSE f[j - 1] * Base + ip[j]]

LEMMA LeadingDefined ==
  ASSUME NEW ip \in Addresses
  PROVE  /\ Leading(ip)[0] = 0
         /\ \A j \in 1 .. Digits :
              /\ ip[j] \in 0 .. Base - 1
              /\ Leading(ip)[j] = Leading(ip)[j - 1] * Base + ip[j]
<1>0. Digits \in Nat \ {0} /\ Base \in Nat /\ \A j \in 1 .. Digits : ip[j] \in 0 .. Base - 1
  BY SyntaxAssumption, RadixFact DEF SyntaxAssumption, Addresses
<1>1. \E f : LeadingEquation(ip, f)
  <2> DEFINE step == [p \in (1 .. Digits) \X Nat |-> p[2] * Base + ip[p[1]]]
  <2>1. step \in [(1 .. Digits) \X Nat -> Nat]
    BY <1>0
  <2>2. \A i \in 1 .. Digits, n \in Nat : step[<<i, n>>] = n * Base + ip[i]
    OBVIOUS
  <2> HIDE DEF step
  <2>3. PICK f \in [0 .. Digits -> Nat] : Iterates(f, Digits, 0, step)
    BY <1>0, <2>1, Recursion
  <2>4. \A i \in 1 .. Digits : f[i] = f[i - 1] * Base + ip[i]
    <3> TAKE i \in 1 .. Digits
    <3>1. i - 1 \in 0 .. Digits
      BY <1>0
    <3>2. f[i - 1] \in Nat
      BY <3>1
    <3> QED
      BY <2>2, <2>3, <3>2 DEF Iterates
  <2>5. \A i \in 0 .. Digits : i = 0 \/ i \in 1 .. Digits
    BY <1>0
  <2> QED
    BY <2>3, <2>4, <2>5 DEF LeadingEquation, Iterates
<1> DEFINE g == Leading(ip)
<1>2. g = CHOOSE f : LeadingEquation(ip, f)
  BY Zenon DEF Leading, LeadingEquation
<1> HIDE DEF g
<1>3. g = [j \in 0 .. Digits |-> IF j = 0 THEN 0 ELSE g[j - 1] * Base + ip[j]]
  BY <1>1, <1>2, Zenon DEF LeadingEquation
<1>4. 0 \in 0 .. Digits /\ \A n \in 1 .. Digits : n \in 0 .. Digits /\ n # 0
  BY <1>0
<1>5. g[0] = 0 /\ \A j \in 1 .. Digits : g[j] = g[j - 1] * Base + ip[j]
  BY <1>3, <1>4, Zenon
<1> QED
  BY <1>0, <1>5, Zenon DEF g

\* One more digit keeps the value below the weight of the next one.
LEMMA DigitAdded ==
  ASSUME NEW r \in Nat, NEW b \in Nat, NEW v \in 0 .. r - 1, NEW d \in 0 .. b - 1
  PROVE  v * b + d \in 0 .. (r * b) - 1
<1>1. v * b >= 0 /\ (r - 1 - v) * b >= 0
  OBVIOUS
<1>2. (r - 1 - v) * b = r * b - b - v * b
  OBVIOUS
<1> QED
  BY <1>1, <1>2

LEMMA LeadingRange ==
  ASSUME NEW ip \in Addresses, NEW j \in 0 .. Digits
  PROVE  Leading(ip)[j] \in 0 .. Radix(j) - 1
<1> DEFINE L == Leading(ip)
           T == {n \in 0 .. Digits : L[n] \in 0 .. Radix(n) - 1}
<1>0. Digits \in Nat \ {0}
  BY SyntaxAssumption DEF SyntaxAssumption
<1>a. /\ L[0] = 0
      /\ \A n \in 1 .. Digits : ip[n] \in 0 .. Base - 1 /\ L[n] = L[n - 1] * Base + ip[n]
  BY LeadingDefined
<1> HIDE DEF L
<1>1. 0 \in T
  BY <1>0, <1>a, RadixFact
<1>2. ASSUME NEW n \in 1 .. Digits, n - 1 \in T PROVE n \in T
  <2>1. PICK r \in Nat : r = Radix(n - 1)
    BY <1>0, <1>2, RadixFact
  <2>2. PICK v \in 0 .. r - 1 : v = L[n - 1]
    BY <1>2, <2>1
  <2>3. v * Base + ip[n] \in 0 .. (r * Base) - 1
    BY <1>a, RadixFact, DigitAdded
  <2>4. Radix(n) = r * Base /\ L[n] = v * Base + ip[n]
    BY <1>a, <2>1, <2>2, RadixFact
  <2> QED
    BY <1>0, <2>3, <2>4
<1> HIDE DEF T
<1>3. j \in T
  <2>1. 0 .. Digits \subseteq T
    BY <1>0, <1>1, <1>2, UpTo
  <2> QED
    BY <2>1
<1> QED
  BY <1>3 DEF T, L

LEMMA NumberRange ==
  ASSUME NEW ip \in Addresses
  PROVE  Number(ip) \in 0 .. Pow2[Bits] - 1
<1>1. Digits \in 0 .. Digits
  BY BitsFact
<1> QED
  BY <1>1, LeadingRange, RadixFact DEF Number

\* Cutting digits off on the right leaves the leading ones.
LEMMA LeadingDivided ==
  ASSUME NEW ip \in Addresses, NEW m \in 0 .. Digits
  PROVE  Number(ip) \div Radix(m) = Leading(ip)[Digits - m]
<1> DEFINE L == Leading(ip)
           T == {k \in 0 .. Digits : L[Digits] \div Radix(k) = L[Digits - k]}
<1>0. Digits \in Nat \ {0}
  BY SyntaxAssumption DEF SyntaxAssumption
<1>a. \A n \in 1 .. Digits : ip[n] \in 0 .. Base - 1 /\ L[n] = L[n - 1] * Base + ip[n]
  BY LeadingDefined
<1>b. \A n \in 0 .. Digits : L[n] \in Nat
  <2> TAKE n \in 0 .. Digits
  <2>1. Radix(n) \in Nat
    BY RadixFact
  <2> QED
    BY <2>1, LeadingRange
<1> HIDE DEF L
<1>1. 0 \in T
  <2>1. PICK v \in Nat : v = L[Digits]
    BY <1>0, <1>b
  <2>2. v \div 1 = v /\ Digits - 0 = Digits
    BY <1>0
  <2> QED
    BY <1>0, <2>1, <2>2, RadixFact
<1>2. ASSUME NEW k \in 1 .. Digits, k - 1 \in T PROVE k \in T
  <2>1. PICK N \in Nat : N = L[Digits]
    BY <1>0, <1>b
  <2>2. PICK r \in Nat : r = Radix(k - 1) /\ r > 0
    <3>1. k - 1 \in 0 .. Digits
      BY <1>0
    <3> QED
      BY <3>1, RadixFact
  <2>3. PICK n \in 1 .. Digits : n = Digits - (k - 1) /\ n - 1 = Digits - k
    BY <1>0
  <2>4. PICK v \in Nat : v = L[n - 1]
    BY <1>0, <1>b
  <2>5. ip[n] \in Nat /\ ip[n] < Base
    BY <1>a, RadixFact
  <2>6. L[n] = Base * v + ip[n]
    BY <1>a, <2>4, <2>5, RadixFact
  <2>7. N \div r = L[n]
    BY <1>2, <2>1, <2>2, <2>3
  <2>8. (Base * v + ip[n]) \div Base = v
    BY <2>5, RadixFact, Divided
  <2>9. (N \div r) \div Base = N \div (r * Base)
    BY <2>1, <2>2, RadixFact, DividedTwice
  <2>10. Radix(k) = r * Base
    BY <2>2, RadixFact
  <2> QED
    BY <1>0, <2>1, <2>3, <2>4, <2>6, <2>7, <2>8, <2>9, <2>10
<1> HIDE DEF T
<1>3. m \in T
  <2>1. 0 .. Digits \subseteq T
    BY <1>0, <1>1, <1>2, UpTo
  <2> QED
    BY <2>1
<1> QED
  BY <1>3 DEF T, L, Number

LEMMA AddressOfNumber ==
  ASSUME NEW ip \in Addresses
  PROVE  Address(Number(ip)) = ip
<1>0. Digits \in Nat \ {0}
  BY SyntaxAssumption DEF SyntaxAssumption
<1>1. ASSUME NEW j \in 1 .. Digits PROVE (Number(ip) \div Radix(Digits - j)) % Base = ip[j]
  <2>1. PICK m \in 0 .. Digits : m = Digits - j /\ Digits - m = j
    BY <1>0
  <2>2. Number(ip) \div Radix(m) = Leading(ip)[j]
    BY <2>1, LeadingDivided
  <2>3. PICK v \in Nat : v = Leading(ip)[j - 1]
    <3>1. j - 1 \in 0 .. Digits
      BY <1>0
    <3> QED
      BY <3>1, LeadingRange, RadixFact
  <2>4. ip[j] \in Nat /\ ip[j] < Base /\ Leading(ip)[j] = Base * v + ip[j]
    BY <2>3, LeadingDefined, RadixFact
  <2>5. (Base * v + ip[j]) % Base = ip[j]
    BY <2>4, RadixFact, Divided
  <2> QED
    BY <2>1, <2>2, <2>4, <2>5
<1>2. ip = [j \in 1 .. Digits |-> ip[j]]
  BY DEF Addresses
<1>3. Address(Number(ip)) = [j \in 1 .. Digits |-> (Number(ip) \div Radix(Digits - j)) % Base]
  BY Zenon DEF Address, Radix
<1> QED
  BY <1>1, <1>2, <1>3

LEMMA AddressIsAddress ==
  ASSUME NEW n \in Nat
  PROVE  Address(n) \in Addresses
<1>1. ASSUME NEW j \in 1 .. Digits PROVE (n \div Radix(Digits - j)) % Base \in 0 .. Base - 1
  <2>1. PICK r \in Nat : r = Radix(Digits - j) /\ r > 0
    <3>1. Digits - j \in 0 .. Digits
      BY BitsFact
    <3> QED
      BY <3>1, RadixFact
  <2>2. PICK q \in Nat : q = n \div r
    BY <2>1, Division
  <2>3. (q % Base) \in 0 .. Base - 1
    BY RadixFact, Division
  <2> QED
    BY <2>1, <2>2, <2>3
<1>2. Address(n) = [j \in 1 .. Digits |-> (n \div Radix(Digits - j)) % Base]
  BY Zenon DEF Address, Radix
<1> QED
  BY <1>1, <1>2 DEF Addresses

LEMMA NumberOfAddress ==
  ASSUME NEW n \in 0 .. Pow2[Bits] - 1
  PROVE  Number(Address(n)) = n
<1> DEFINE ip == Address(n)
           L == Leading(ip)
           T == {j \in 0 .. Digits : L[j] = n \div Radix(Digits - j)}
<1>0. Digits \in Nat \ {0}
  BY SyntaxAssumption DEF SyntaxAssumption
<1>a. Pow2[Bits] \in Nat /\ n \in Nat /\ n < Pow2[Bits]
  BY BitsFact, Pow2Values
<1>b. ip \in Addresses
  BY <1>a, AddressIsAddress
<1>c. \A j \in 1 .. Digits : ip[j] = (n \div Radix(Digits - j)) % Base
  <2>1. ip = [j \in 1 .. Digits |-> (n \div Radix(Digits - j)) % Base]
    BY Zenon DEF Address, Radix
  <2> HIDE DEF ip
  <2> QED
    BY <2>1
<1> HIDE DEF ip
<1>d. L[0] = 0 /\ \A j \in 1 .. Digits : L[j] = L[j - 1] * Base + ip[j]
  BY <1>b, LeadingDefined
<1> HIDE DEF L
<1>1. 0 \in T
  <2>1. PICK r \in Nat : r = Radix(Digits) /\ n < r
    BY <1>a, RadixFact
  <2>2. n \div r = 0
    <3>1. (r * 0 + n) \div r = 0
      BY <1>a, <2>1, Divided
    <3>2. r * 0 + n = n
      BY <1>a, <2>1
    <3> QED
      BY <3>1, <3>2, Zenon
  <2>3. Digits - 0 = Digits /\ 0 \in 0 .. Digits
    BY <1>0
  <2>4. n \div Radix(Digits - 0) = 0
    BY <2>1, <2>2, <2>3, Zenon
  <2> QED
    BY <1>d, <2>3, <2>4, Zenon
<1>2. ASSUME NEW j \in 1 .. Digits, j - 1 \in T PROVE j \in T
  <2>1. PICK k \in 0 .. Digits - 1 : k = Digits - j /\ k + 1 = Digits - (j - 1)
    BY <1>0
  <2>2. PICK r \in Nat : r = Radix(k) /\ r > 0
    <3>1. k \in 0 .. Digits
      BY <1>0
    <3> QED
      BY <3>1, RadixFact
  <2>3. Radix(k + 1) = r * Base
    <3>1. k + 1 \in 1 .. Digits /\ (k + 1) - 1 = k
      BY <1>0
    <3> QED
      BY <2>2, <3>1, RadixFact
  <2>4. PICK q \in Nat : q = n \div r
    BY <1>a, <2>2, Division
  <2>5. PICK d \in Nat, e \in Nat : d = q \div Base /\ e = (q % Base) /\ q = Base * d + e
    BY RadixFact, Division
  <2>6. (n \div r) \div Base = n \div (r * Base)
    BY <1>a, <2>2, RadixFact, DividedTwice
  <2>7. L[j - 1] = d
    BY <1>2, <2>1, <2>3, <2>4, <2>5, <2>6
  <2>8. ip[j] = e
    BY <1>c, <2>1, <2>2, <2>4, <2>5
  <2>9. L[j] = q
    <3>1. L[j] = d * Base + e
      BY <1>d, <2>7, <2>8, Zenon
    <3>2. d * Base = Base * d
      BY RadixFact
    <3> QED
      BY <2>5, <3>1, <3>2, Zenon
  <2> QED
    BY <1>0, <2>1, <2>2, <2>4, <2>9
<1> HIDE DEF T
<1>3. Digits \in T
  <2>1. 0 .. Digits \subseteq T
    BY <1>0, <1>1, <1>2, UpTo
  <2> QED
    BY <1>0, <2>1
<1>4. L[Digits] = n \div Radix(0)
  BY <1>0, <1>3 DEF T
<1>5. n \div 1 = n
  BY <1>a
<1> QED
  BY <1>4, <1>5, RadixFact DEF Number, L, ip

\* inc adds one to the number, and goes from the last address to the first.
LEMMA IncAddsOne ==
  ASSUME NEW ip \in Addresses
  PROVE  /\ inc(ip) \in Addresses
         /\ Number(inc(ip)) = IF Number(ip) = Pow2[Bits] - 1 THEN 0 ELSE Number(ip) + 1
<1> DEFINE up == inc(ip)
           carry(j) == \A k \in j + 1 .. Digits : ip[k] = Base - 1
           L == Leading(ip)
           M == Leading(up)
           Good(j) == IF carry(j) /\ L[j] = Radix(j) - 1 THEN M[j] = 0
                      ELSE IF carry(j) THEN M[j] = L[j] + 1
                      ELSE M[j] = L[j]
           T == {j \in 0 .. Digits : Good(j)}
<1>0. Digits \in Nat \ {0} /\ Base \in Nat /\ Base >= 2
  BY SyntaxAssumption, RadixFact DEF SyntaxAssumption
<1>a. \A j \in 1 .. Digits : ip[j] \in 0 .. Base - 1
  BY DEF Addresses
<1>b. \A j \in 1 .. Digits : up[j] = IF carry(j) THEN (ip[j] + 1) % Base ELSE ip[j]
  BY DEF inc
<1>c. \A d \in 0 .. Base - 1 : ((d + 1) % Base) = IF d = Base - 1 THEN 0 ELSE d + 1
  <2> TAKE d \in 0 .. Base - 1
  <2>1. CASE d = Base - 1
    <3>1. (Base * 1 + 0) % Base = 0
      BY <1>0, Divided
    <3>2. Base * 1 + 0 = d + 1
      BY <1>0, <2>1
    <3> QED
      BY <2>1, <3>1, <3>2
  <2>2. CASE d # Base - 1
    <3>1. d + 1 \in Nat /\ d + 1 < Base
      BY <1>0, <2>2
    <3>2. (Base * 0 + (d + 1)) % Base = d + 1
      BY <1>0, <3>1, Divided
    <3>3. Base * 0 + (d + 1) = d + 1
      BY <1>0
    <3> QED
      BY <2>2, <3>2, <3>3
  <2> QED
    BY <2>1, <2>2
<1>1. up \in Addresses
  <2>1. \A j \in 1 .. Digits : (IF carry(j) THEN (ip[j] + 1) % Base ELSE ip[j]) \in 0 .. Base - 1
    BY <1>0, <1>a, <1>c
  <2> QED
    BY <2>1 DEF inc, Addresses
<1> HIDE DEF up
<1>d. L[0] = 0 /\ \A j \in 1 .. Digits : L[j] = L[j - 1] * Base + ip[j]
  BY LeadingDefined
<1>e. M[0] = 0 /\ \A j \in 1 .. Digits : M[j] = M[j - 1] * Base + up[j]
  BY <1>1, LeadingDefined
<1>f. \A j \in 0 .. Digits : L[j] \in 0 .. Radix(j) - 1 /\ Radix(j) \in Nat
  BY LeadingRange, RadixFact
<1> HIDE DEF L, M
<1>2. 0 \in T
  BY <1>0, <1>d, <1>e, RadixFact
<1>3. ASSUME NEW j \in 1 .. Digits, j - 1 \in T PROVE j \in T
  <2>0. j - 1 \in 0 .. Digits /\ j \in 0 .. Digits
    BY <1>0
  <2>1. PICK r \in Nat : r = Radix(j - 1) /\ Radix(j) = r * Base
    BY <1>f, <2>0, RadixFact
  <2>2. PICK v \in 0 .. r - 1 : v = L[j - 1]
    BY <1>f, <2>0, <2>1
  <2>3. PICK d \in 0 .. Base - 1 : d = ip[j]
    BY <1>a
  <2>4. L[j] = v * Base + d
    BY <1>d, <2>2, <2>3
  <2>5. carry(j - 1) <=> carry(j) /\ d = Base - 1
    <3>1. \A k \in j - 1 + 1 .. Digits : k = j \/ k \in j + 1 .. Digits
      BY <1>0
    <3>2. j \in j - 1 + 1 .. Digits /\ \A k \in j + 1 .. Digits : k \in j - 1 + 1 .. Digits
      BY <1>0
    <3> QED
      BY <2>3, <3>1, <3>2
  <2>6. Good(j - 1)
    BY <1>3
  <2> HIDE DEF carry
  <2>7. CASE ~carry(j)
    <3>1. M[j - 1] = v /\ up[j] = d
      BY <1>b, <2>2, <2>3, <2>5, <2>6, <2>7
    <3>2. M[j] = L[j]
      BY <1>e, <2>4, <3>1
    <3> QED
      BY <2>0, <2>7, <3>2
  <2>8. CASE carry(j) /\ d # Base - 1
    <3>1. M[j - 1] = v /\ up[j] = d + 1
      BY <1>b, <1>c, <2>2, <2>3, <2>5, <2>6, <2>8
    <3>2. M[j] = v * Base + (d + 1)
      BY <1>e, <3>1
    <3>3. M[j] = L[j] + 1
      BY <1>0, <2>4, <3>2
    <3>4. L[j] # r * Base - 1
      <4>1. d + 1 \in 0 .. Base - 1
        BY <1>0, <2>8
      <4>2. v * Base + (d + 1) \in 0 .. (r * Base) - 1
        BY <1>0, <4>1, DigitAdded
      <4> QED
        BY <1>0, <2>4, <4>2
    <3> QED
      BY <2>0, <2>1, <2>8, <3>3, <3>4
  <2>9. CASE carry(j) /\ d = Base - 1
    <3>1. up[j] = 0
      BY <1>b, <1>c, <2>3, <2>9
    <3>2. CASE v = r - 1
      <4>1. M[j - 1] = 0
        BY <2>1, <2>2, <2>5, <2>6, <2>9, <3>2
      <4>2. M[j] = 0
        BY <1>0, <1>e, <3>1, <4>1
      <4>3. L[j] = r * Base - 1
        <5>1. (r - 1) * Base = r * Base - Base
          BY <1>0
        <5> QED
          BY <1>0, <2>4, <2>9, <3>2, <5>1
      <4> QED
        BY <2>0, <2>1, <2>9, <4>2, <4>3
    <3>3. CASE v # r - 1
      <4>1. M[j - 1] = v + 1
        BY <2>1, <2>2, <2>5, <2>6, <2>9, <3>3
      <4>2. M[j] = (v + 1) * Base + 0
        BY <1>e, <3>1, <4>1
      <4>3. (v + 1) * Base = v * Base + Base
        BY <1>0
      <4>4. M[j] = L[j] + 1
        BY <1>0, <2>4, <2>9, <4>2, <4>3
      <4>5. L[j] # r * Base - 1
        <5>1. v + 1 \in 0 .. r - 1 /\ 0 \in 0 .. Base - 1
          BY <1>0, <3>3
        <5>2. (v + 1) * Base + 0 \in 0 .. (r * Base) - 1
          BY <1>0, <5>1, DigitAdded
        <5> QED
          BY <1>0, <2>4, <2>9, <4>3, <5>2
      <4> QED
        BY <2>0, <2>1, <2>9, <4>4, <4>5
    <3> QED
      BY <3>2, <3>3
  <2> QED
    BY <2>7, <2>8, <2>9
<1> HIDE DEF T
<1>4. Digits \in T
  <2>1. 0 .. Digits \subseteq T
    BY <1>0, <1>2, <1>3, UpTo
  <2> QED
    BY <1>0, <2>1
<1>5. carry(Digits)
  BY <1>0
<1> HIDE DEF carry
<1>6. M[Digits] = IF L[Digits] = Radix(Digits) - 1 THEN 0 ELSE L[Digits] + 1
  BY <1>4, <1>5 DEF T
<1> QED
  BY <1>1, <1>6, RadixFact DEF up, L, M, Number

-----------------------------------------------------------------------------
(* expandCIDR enumerates the addresses of a prefix: its loop starts at the *)
(* network address and ends, because a prefix that is enumerated is not    *)
(* the whole address space.                                                *)

\* The numbers of a prefix are consecutive.
LEMMA PrefixNumbers ==
  ASSUME NEW size \in Nat, size > 0, NEW q \in Nat, NEW n \in Nat
  PROVE  /\ n \div size = q <=> n \in size * q .. size * q + size - 1
         /\ n \div size = q => (n % size) = n - size * q
<1>1. PICK d \in Nat, r \in Nat : d = n \div size /\ r = (n % size) /\ r < size /\ n = size * d + r
  BY Division
<1>2. ASSUME n \in size * q .. size * q + size - 1 PROVE n \div size = q
  <2>1. PICK e \in Nat : e = n - size * q /\ e < size
    BY <1>2
  <2>2. (size * q + e) \div size = q
    BY <2>1, Divided
  <2>3. size * q + e = n
    BY <2>1
  <2> QED
    BY <2>2, <2>3, Zenon
<1> QED
  BY <1>1, <1>2

\* The addresses with the numbers from n to m - 1.
Run(n, m) == [k \in 1 .. m - n |-> Address(n + k - 1)]

LEMMA RunStep ==
  ASSUME NEW n \in Nat, NEW m \in Nat, n < m
  PROVE  /\ Run(n, m) \in Seq(Addresses) /\ Len(Run(n, m)) = m - n
         /\ Run(n, m) = <<Address(n)>> \o Run(n + 1, m)
<1>1. /\ m - n \in Nat /\ \A k \in 1 .. m - n : n + k - 1 \in Nat
      /\ m - (n + 1) \in Nat /\ \A k \in 1 .. m - (n + 1) : n + 1 + k - 1 \in Nat
  OBVIOUS
<1>2. Run(n, m) \in Seq(Addresses) /\ Len(Run(n, m)) = m - n
  BY <1>1, AddressIsAddress DEF Run
<1>3. Run(n + 1, m) \in Seq(Addresses) /\ Len(Run(n + 1, m)) = m - (n + 1)
  BY <1>1, AddressIsAddress DEF Run
<1>4. <<Address(n)>> \in Seq(Addresses) /\ Len(<<Address(n)>>) = 1 /\ <<Address(n)>>[1] = Address(n)
  BY AddressIsAddress
<1> DEFINE a == Run(n, m)
           b == <<Address(n)>>
           c == Run(n + 1, m)
<1>5. \A k \in 1 .. m - n : a[k] = Address(n + k - 1)
  BY DEF Run
<1>6. \A k \in 1 .. m - (n + 1) : c[k] = Address(n + 1 + k - 1)
  BY DEF Run
<1> HIDE DEF a, b, c
<1>7. /\ b \o c \in Seq(Addresses) /\ Len(b \o c) = Len(b) + Len(c)
      /\ \A i \in 1 .. Len(b) + Len(c) :
           (b \o c)[i] = IF i <= Len(b) THEN b[i] ELSE c[i - Len(b)]
  BY <1>3, <1>4, ConcatProperties DEF b, c
<1>8. Len(b) = 1 /\ Len(c) = m - (n + 1) /\ Len(a) = m - n /\ b[1] = Address(n)
  BY <1>2, <1>3, <1>4 DEF a, b, c
<1>9. ASSUME NEW i \in 1 .. m - n PROVE a[i] = (b \o c)[i]
  <2>1. CASE i = 1
    <3>1. n + 1 - 1 = n /\ 1 \in 1 .. Len(b) + Len(c)
      BY <1>8
    <3> QED
      BY <1>5, <1>7, <1>8, <2>1, <3>1
  <2>2. CASE i # 1
    <3>1. PICK k \in 1 .. m - (n + 1) : k = i - 1
      BY <2>2
    <3>2. n + 1 + k - 1 = n + i - 1 /\ i \in 1 .. Len(b) + Len(c) /\ ~(i <= Len(b))
      BY <1>8, <2>2, <3>1
    <3>3. (b \o c)[i] = c[k]
      BY <1>7, <1>8, <3>1, <3>2
    <3> QED
      BY <1>5, <1>6, <3>1, <3>2, <3>3
  <2> QED
    BY <2>1, <2>2
<1>10. a = b \o c
  <2>1. Len(a) = Len(b \o c) /\ a \in Seq(Addresses)
    BY <1>2, <1>7, <1>8 DEF a
  <2> QED
    BY <1>7, <1>8, <1>9, <2>1, SeqEqual
<1> QED
  BY <1>2, <1>10 DEF a, b, c

LEMMA RunEnd ==
  ASSUME NEW m \in Nat
  PROVE  Run(m, m) = <<>>
<1>1. Run(m, m) \in Seq(Addresses) /\ Len(Run(m, m)) = 0
  <2>1. m - m = 0 /\ \A k \in 1 .. 0 : Address(m + k - 1) \in Addresses
    OBVIOUS
  <2> QED
    BY <2>1 DEF Run
<1> QED
  BY <1>1

\* The first number of a prefix, and how many there are.
First(part) == Size(part) * Prefix(part.addr, part)

LEMMA PrefixFact ==
  ASSUME NEW part \in CIDRParts
  PROVE  /\ HostBits(part) \in 0 .. Bits
         /\ Size(part) \in Nat /\ Size(part) >= 1 /\ (Size(part) > 2 <=> HostBits(part) > 1)
         /\ First(part) \in Nat /\ Prefix(part.addr, part) \in Nat
         /\ First(part) + Size(part) <= Pow2[Bits] /\ Pow2[Bits] \in Nat
         /\ ~TooLarge(part) => Size(part) < Pow2[Bits]
         /\ \A ip \in Addresses :
              Prefix(ip, part) = Prefix(part.addr, part)
                <=> Number(ip) \in First(part) .. First(part) + Size(part) - 1
<1>0. Bits \in Nat /\ part.addr \in Addresses /\ part.ones \in 0 .. Bits /\ MaxHostBits \in 0 .. Bits - 1
  BY BitsFact, SyntaxAssumption DEF SyntaxAssumption, CIDRParts
<1>1. PICK h \in 0 .. Bits : h = HostBits(part)
  BY <1>0 DEF HostBits
<1>2. PICK z \in Nat : z = Size(part) /\ z = Pow2[h] /\ z >= 1 /\ (h >= 2 => z >= 4)
  BY <1>1, Pow2Values DEF Size, HostBits
<1>3. h = 0 => z = 1
  BY <1>2, Pow2Defined
<1>4. h = 1 => z = 2
  <2>1. 1 <= Bits => Pow2[1] = 2 * Pow2[1 - 1] /\ 1 - 1 = 0
    BY <1>0, Pow2Defined
  <2> QED
    BY <1>2, <2>1, Pow2Defined
<1>5. z > 2 <=> h > 1
  BY <1>2, <1>3, <1>4
<1>6. PICK c \in Nat : c = Pow2[Bits - h] /\ c >= 1 /\ (h < Bits => c >= 2) /\ Pow2[Bits] = z * c
  <2>1. PICK g \in 0 .. Bits : g = Bits - h /\ h + g = Bits
    BY <1>0
  <2>2. Pow2[h + g] = Pow2[h] * Pow2[g]
    BY <1>0, <2>1, Pow2Sum
  <2> QED
    BY <1>2, <2>1, <2>2, Pow2Values
<1>7. PICK t \in Nat : t = Pow2[Bits] /\ t = z * c
  BY <1>6
<1>8. PICK a \in 0 .. t - 1 : a = Number(part.addr)
  BY <1>0, <1>7, NumberRange
<1>9. PICK q \in Nat, r \in Nat : q = a \div z /\ r < z /\ a = z * q + r
  <2>1. a \in Nat /\ z > 0
    BY <1>2, <1>7
  <2> QED
    BY <2>1, Division
<1>10. Prefix(part.addr, part) = q /\ First(part) = z * q
  BY <1>1, <1>2, <1>8, <1>9 DEF Prefix, First
<1>11. z * q + z <= t
  <2>1. ~(q - c >= 0)
    <3>1. q - c >= 0 => z * (q - c) >= 0
      OBVIOUS
    <3>2. z * (q - c) = z * q - t
      BY <1>7
    <3> QED
      BY <1>8, <1>9, <3>1, <3>2
  <2>2. z * (c - q) >= z
    BY <1>2, <2>1, Multiple
  <2>3. z * (c - q) = t - z * q
    BY <1>7
  <2> QED
    BY <2>2, <2>3
<1>12. ~TooLarge(part) => z < t
  <2>1. ASSUME ~TooLarge(part) PROVE z < t
    <3>1. h < Bits
      BY <1>0, <1>1, <2>1 DEF TooLarge
    <3>2. z * (c - 1) >= z
      BY <1>2, <1>6, <3>1, Multiple
    <3>3. z * (c - 1) = t - z
      BY <1>7
    <3> QED
      BY <1>2, <3>2, <3>3
  <2> QED
    BY <2>1
<1>13. ASSUME NEW ip \in Addresses
       PROVE  Prefix(ip, part) = q <=> Number(ip) \in z * q .. z * q + z - 1
  <2>1. PICK n \in Nat : n = Number(ip)
    BY <1>7, NumberRange
  <2>2. n \div z = q <=> n \in z * q .. z * q + z - 1
    BY <1>2, PrefixNumbers
  <2> QED
    BY <1>1, <1>2, <2>1, <2>2 DEF Prefix
<1>14. HostBits(part) \in 0 .. Bits
  BY <1>1
<1>15. Size(part) \in Nat /\ Size(part) >= 1 /\ (Size(part) > 2 <=> HostBits(part) > 1)
  BY <1>1, <1>2, <1>5
<1>16. First(part) \in Nat /\ Prefix(part.addr, part) \in Nat
  BY <1>10
<1>17. First(part) + Size(part) <= Pow2[Bits] /\ Pow2[Bits] \in Nat
  BY <1>2, <1>7, <1>10, <1>11
<1>18. ~TooLarge(part) => Size(part) < Pow2[Bits]
  BY <1>2, <1>7, <1>12
<1>19. \A ip \in Addresses : Prefix(ip, part) = Prefix(part.addr, part)
                              <=> Number(ip) \in First(part) .. First(part) + Size(part) - 1
  BY <1>2, <1>10, <1>13
<1> QED
  BY <1>14, <1>15, <1>16, <1>17, <1>18, <1>19, Zenon

End(part) == First(part) + Size(part)
InPrefix(ip, part) == Number(ip) \in First(part) .. End(part) - 1

\* inc stays in a prefix up to its last address, and leaves it there.
LEMMA NextInPrefix ==
  ASSUME NEW part \in CIDRParts, ~TooLarge(part), NEW ip \in Addresses, InPrefix(ip, part)
  PROVE  /\ inc(ip) \in Addresses /\ Number(ip) \in Nat /\ End(part) \in Nat /\ ip = Address(Number(ip))
         /\ Number(ip) + 1 < End(part) => InPrefix(inc(ip), part) /\ Number(inc(ip)) = Number(ip) + 1
         /\ Number(ip) + 1 >= End(part) => ~InPrefix(inc(ip), part) /\ Number(ip) + 1 = End(part)
<1>1. PICK f \in Nat, z \in Nat, t \in Nat :
        f = First(part) /\ z = Size(part) /\ t = Pow2[Bits] /\ f + z <= t /\ z >= 1 /\ z < t
  BY PrefixFact
<1>2. PICK n \in 0 .. t - 1 : n = Number(ip)
  BY <1>1, NumberRange
<1>3. PICK m \in Nat : m = Number(inc(ip)) /\ m = (IF n = t - 1 THEN 0 ELSE n + 1)
  BY <1>1, <1>2, IncAddsOne
<1>4. inc(ip) \in Addresses
  BY IncAddsOne
<1>5. n \in f .. f + z - 1
  BY <1>1, <1>2 DEF InPrefix, End
<1>6. End(part) = f + z /\ (InPrefix(inc(ip), part) <=> m \in f .. f + z - 1)
  BY <1>1, <1>3 DEF InPrefix, End
<1>7. ip = Address(n)
  BY <1>2, AddressOfNumber
<1>8. n + 1 < f + z => m \in f .. f + z - 1 /\ m = n + 1
  BY <1>1, <1>2, <1>3, <1>5
<1>9. n + 1 >= f + z => m \notin f .. f + z - 1 /\ n + 1 = f + z
  BY <1>1, <1>2, <1>3, <1>5
<1> QED
  BY <1>2, <1>3, <1>4, <1>6, <1>7, <1>8, <1>9

FromEquation(part, f) ==
  f = [ip \in Addresses |->
         IF Prefix(ip, part) = Prefix(part.addr, part) THEN <<ip>> \o f[inc(ip)] ELSE <<>>]

\* The loop of expandCIDR ends: it takes the rest of the prefix.
LEMMA FromExists ==
  ASSUME NEW part \in CIDRParts, ~TooLarge(part)
  PROVE  \E f : FromEquation(part, f)
<1> DEFINE w == [ip \in Addresses |-> IF InPrefix(ip, part) THEN Run(Number(ip), End(part)) ELSE <<>>]
<1>1. \A ip \in Addresses : Prefix(ip, part) = Prefix(part.addr, part) <=> InPrefix(ip, part)
  BY PrefixFact DEF InPrefix, End
<1>2. ASSUME NEW ip \in Addresses, InPrefix(ip, part)
      PROVE  w[ip] = <<ip>> \o w[inc(ip)]
  <2>1. PICK n \in Nat, e \in Nat : n = Number(ip) /\ e = End(part) /\ ip = Address(n) /\ n < e
    <3>1. First(part) \in Nat /\ End(part) \in Nat
      BY PrefixFact DEF End
    <3> QED
      BY <1>2, <3>1, NextInPrefix DEF InPrefix
  <2>2. w[ip] = Run(n, e) /\ Run(n, e) = <<ip>> \o Run(n + 1, e)
    BY <1>2, <2>1, RunStep
  <2>3. CASE n + 1 < e
    <3>1. w[inc(ip)] = Run(n + 1, e)
      BY <1>2, <2>1, <2>3, NextInPrefix
    <3> QED
      BY <2>2, <3>1
  <2>4. CASE ~(n + 1 < e)
    <3>1. PICK m \in Nat : m = n + 1 /\ m = e
      BY <2>1, <2>4
    <3>2. ~InPrefix(inc(ip), part) /\ inc(ip) \in Addresses
      BY <1>2, <2>1, <2>4, NextInPrefix
    <3>3. w[inc(ip)] = <<>>
      BY <3>2
    <3>4. Run(n + 1, e) = <<>>
      BY <3>1, RunEnd
    <3> QED
      BY <2>2, <3>3, <3>4
  <2> QED
    BY <2>3, <2>4
<1>3. \A ip \in Addresses : ~InPrefix(ip, part) => w[ip] = <<>>
  OBVIOUS
<1>4. \E g : g = w /\ g = [ip \in Addresses |-> g[ip]]
  OBVIOUS
<1> HIDE DEF w
<1>5. \A ip \in Addresses :
        w[ip] = IF Prefix(ip, part) = Prefix(part.addr, part) THEN <<ip>> \o w[inc(ip)] ELSE <<>>
  BY <1>1, <1>2, <1>3, Zenon
<1>6. w = [ip \in Addresses |->
             IF Prefix(ip, part) = Prefix(part.addr, part) THEN <<ip>> \o w[inc(ip)] ELSE <<>>]
  BY <1>4, <1>5, Zenon
<1> QED
  BY <1>6, Zenon DEF FromEquation

LEMMA FromIsRun ==
  ASSUME NEW part \in CIDRParts, ~TooLarge(part), NEW f, FromEquation(part, f)
  PROVE  f[Address(First(part))] = Run(First(part), End(part))
<1>1. PICK a \in Nat, z \in Nat, t \in Nat, e \in Nat :
        /\ a = First(part) /\ z = Size(part) /\ t = Pow2[Bits] /\ a + z <= t /\ z >= 1
        /\ e = End(part) /\ e = a + z
  BY PrefixFact DEF End
<1>2. \A ip \in Addresses :
        f[ip] = IF InPrefix(ip, part) THEN <<ip>> \o f[inc(ip)] ELSE <<>>
  <2>1. \A ip \in Addresses : Prefix(ip, part) = Prefix(part.addr, part) <=> InPrefix(ip, part)
    BY PrefixFact DEF InPrefix, End
  <2>2. \A ip \in Addresses :
          f[ip] = IF Prefix(ip, part) = Prefix(part.addr, part) THEN <<ip>> \o f[inc(ip)] ELSE <<>>
    BY Zenon DEF FromEquation
  <2> QED
    BY <2>1, <2>2, Zenon
<1>3. ASSUME NEW n \in a .. e - 1
      PROVE  /\ Address(n) \in Addresses /\ InPrefix(Address(n), part) /\ Number(Address(n)) = n
             /\ f[Address(n)] = <<Address(n)>> \o f[inc(Address(n))]
             /\ Run(n, e) = <<Address(n)>> \o Run(n + 1, e)
  <2>1. n \in Nat /\ n < e /\ n \in 0 .. Pow2[Bits] - 1
    BY <1>1
  <2>2. Address(n) \in Addresses /\ Number(Address(n)) = n
    BY <2>1, AddressIsAddress, NumberOfAddress
  <2>3. InPrefix(Address(n), part)
    BY <1>1, <2>2 DEF InPrefix
  <2>4. Run(n, e) = <<Address(n)>> \o Run(n + 1, e)
    BY <2>1, RunStep
  <2> QED
    BY <1>2, <2>2, <2>3, <2>4
<1> DEFINE T == {k \in 0 .. z - 1 : f[Address(e - 1 - k)] = Run(e - 1 - k, e)}
<1>4. 0 \in T
  <2>1. PICK n \in a .. e - 1 : n = e - 1 - 0 /\ n + 1 = e /\ n + 1 >= e
    BY <1>1
  <2>2. ~InPrefix(inc(Address(n)), part) /\ inc(Address(n)) \in Addresses
    BY <1>1, <1>3, <2>1, NextInPrefix
  <2>3. f[inc(Address(n))] = <<>>
    BY <1>2, <2>2, Zenon
  <2>4. Run(n + 1, e) = <<>>
    BY <2>1, RunEnd
  <2>5. f[Address(n)] = Run(n, e)
    BY <1>3, <2>3, <2>4
  <2> QED
    BY <1>1, <2>1, <2>5
<1>5. ASSUME NEW k \in 1 .. z - 1, k - 1 \in T PROVE k \in T
  <2>1. PICK n \in a .. e - 1 : n = e - 1 - k /\ n + 1 = e - 1 - (k - 1) /\ n + 1 < e
    BY <1>1
  <2>2. f[Address(n + 1)] = Run(n + 1, e)
    BY <1>5, <2>1
  <2>3. inc(Address(n)) = Address(n + 1)
    <3>1. inc(Address(n)) \in Addresses /\ Number(inc(Address(n))) = n + 1
      BY <1>1, <1>3, <2>1, NextInPrefix
    <3> QED
      BY <3>1, AddressOfNumber
  <2>4. f[Address(n)] = Run(n, e)
    BY <1>3, <2>2, <2>3
  <2> QED
    BY <1>1, <2>1, <2>4
<1> HIDE DEF T
<1>6. z - 1 \in T
  <2>1. z - 1 \in Nat
    BY <1>1
  <2>2. 0 .. z - 1 \subseteq T
    BY <1>4, <1>5, <2>1, UpTo
  <2> QED
    BY <2>1, <2>2
<1>7. e - 1 - (z - 1) = a
  BY <1>1
<1> QED
  BY <1>1, <1>6, <1>7 DEF T

LEMMA RunItems ==
  ASSUME NEW n \in Nat, NEW m \in Nat, n < m, m <= Pow2[Bits]
  PROVE  /\ Run(n, m) \in Seq(Addresses) /\ Len(Run(n, m)) = m - n
         /\ ToSet(Run(n, m)) = {ip \in Addresses : Number(ip) \in n .. m - 1}
<1>1. Run(n, m) \in Seq(Addresses) /\ Len(Run(n, m)) = m - n
  BY RunStep
<1>2. PICK t \in Nat : t = Pow2[Bits] /\ m <= t
  BY BitsFact, Pow2Values
<1>3. DOMAIN Run(n, m) = 1 .. m - n /\ \A k \in 1 .. m - n : Run(n, m)[k] = Address(n + k - 1)
  BY DEF Run
<1>4. ASSUME NEW k \in 1 .. m - n
      PROVE  Address(n + k - 1) \in Addresses /\ Number(Address(n + k - 1)) \in n .. m - 1
  <2>1. n + k - 1 \in 0 .. t - 1 /\ n + k - 1 \in n .. m - 1 /\ n + k - 1 \in Nat
    BY <1>2
  <2> QED
    BY <1>2, <2>1, AddressIsAddress, NumberOfAddress
<1>5. ASSUME NEW ip \in Addresses, Number(ip) \in n .. m - 1 PROVE ip \in ToSet(Run(n, m))
  <2>1. PICK k \in 1 .. m - n : n + k - 1 = Number(ip)
    <3>1. PICK i \in Nat : i = Number(ip) /\ i - n + 1 \in 1 .. m - n /\ n + (i - n + 1) - 1 = i
      BY <1>5
    <3> QED
      BY <3>1
  <2>2. Run(n, m)[k] = ip
    BY <1>3, <2>1, AddressOfNumber
  <2> QED
    BY <1>3, <2>2 DEF ToSet
<1>6. \A ip \in ToSet(Run(n, m)) : ip \in Addresses /\ Number(ip) \in n .. m - 1
  BY <1>3, <1>4 DEF ToSet
<1> QED
  BY <1>1, <1>5, <1>6

\* What a prefix stands for.
PrefixHosts(part) ==
  {ip \in Addresses :
     /\ Number(ip) \div Size(part) = Number(part.addr) \div Size(part)
     /\ Size(part) > 2 => Number(ip) % Size(part) \notin {0, Size(part) - 1}}

\* Without its ends, but for a prefix of one or two addresses.
LEMMA PrefixHostsAre ==
  ASSUME NEW part \in CIDRParts
  PROVE  PrefixHosts(part) =
           {ip \in Addresses :
              Number(ip) \in IF Size(part) > 2 THEN First(part) + 1 .. End(part) - 2
                             ELSE First(part) .. End(part) - 1}
<1>1. PICK a \in Nat, z \in Nat, t \in Nat, q \in Nat :
        /\ a = First(part) /\ z = Size(part) /\ t = Pow2[Bits] /\ z >= 1
        /\ q = Prefix(part.addr, part) /\ a = z * q
  BY PrefixFact DEF First
<1>2. z = Pow2[Bits - part.ones] /\ End(part) = a + z
  BY <1>1 DEF Size, HostBits, End
<1>3. q = Number(part.addr) \div z
  BY <1>1 DEF Prefix, Size, HostBits
<1>4. ASSUME NEW ip \in Addresses
      PROVE  (Number(ip) \div z = q /\ (z > 2 => (Number(ip) % z) \notin {0, z - 1}))
               <=> Number(ip) \in IF z > 2 THEN a + 1 .. a + z - 2 ELSE a .. a + z - 1
  <2>1. PICK n \in Nat : n = Number(ip)
    BY <1>1, NumberRange
  <2>2. n \div z = q <=> n \in a .. a + z - 1
    BY <1>1, PrefixNumbers
  <2>3. n \div z = q => (n % z) = n - a
    BY <1>1, PrefixNumbers
  <2>4. CASE n \div z = q
    <3>1. PICK r \in Nat : r = (n % z) /\ r = n - a /\ r < z
      BY <1>1, <2>2, <2>3, <2>4
    <3>2. (z > 2 => r \notin {0, z - 1}) <=> n \in IF z > 2 THEN a + 1 .. a + z - 2 ELSE a .. a + z - 1
      BY <3>1
    <3> QED
      BY <2>1, <2>4, <3>1, <3>2
  <2>5. CASE ~(n \div z = q)
    <3>1. n \notin a + 1 .. a + z - 2 /\ n \notin a .. a + z - 1
      BY <2>2, <2>5
    <3> QED
      BY <2>1, <2>5, <3>1
  <2> QED
    BY <2>4, <2>5
<1>5. PrefixHosts(part) =
        {ip \in Addresses : Number(ip) \div z = q /\ (z > 2 => (Number(ip) % z) \notin {0, z - 1})}
  BY <1>1, <1>3, Zenon DEF PrefixHosts
<1>6. PrefixHosts(part) =
        {ip \in Addresses : Number(ip) \in IF z > 2 THEN a + 1 .. a + z - 2 ELSE a .. a + z - 1}
  BY <1>4, <1>5, Zenon
<1>7. (IF Size(part) > 2 THEN First(part) + 1 .. End(part) - 2 ELSE First(part) .. End(part) - 1)
        = IF z > 2 THEN a + 1 .. a + z - 2 ELSE a .. a + z - 1
  <2>1. Size(part) = z /\ First(part) = a /\ End(part) = a + z
    BY <1>1, <1>2
  <2>2. PICK e : e = End(part) /\ e = a + z
    BY <2>1
  <2> QED
    BY <2>1, <2>2
<1> QED
  BY <1>6, <1>7, Zenon

LEMMA PrefixExpanded ==
  ASSUME NEW part \in CIDRParts, ~TooLarge(part)
  PROVE  /\ expandCIDR(part) \in Seq(Addresses)
         /\ ToSet(expandCIDR(part)) = PrefixHosts(part)
         /\ PrefixHosts(part) # {}
<1>1. PICK a \in Nat, z \in Nat, t \in Nat, e \in Nat, h \in Nat :
        /\ a = First(part) /\ z = Size(part) /\ t = Pow2[Bits] /\ a + z <= t /\ z >= 1
        /\ e = End(part) /\ e = a + z /\ h = HostBits(part) /\ (z > 2 <=> h > 1)
  BY PrefixFact DEF End
<1>2. PICK f : FromEquation(part, f) /\ expandCIDR(part) = Trimmed(part, f[Network(part)])
  <2>1. PICK f : f = CHOOSE g : FromEquation(part, g)
    OBVIOUS
  <2>2. FromEquation(part, f)
    BY <2>1, FromExists, Zenon
  <2>3. expandCIDR(part) = Trimmed(part, f[Network(part)])
    BY <2>1, Zenon DEF expandCIDR, FromEquation
  <2> QED
    BY <2>2, <2>3
<1>3. Network(part) = Address(a)
  <2>1. PICK q \in Nat : q = Prefix(part.addr, part) /\ a = z * q
    BY <1>1, PrefixFact DEF First
  <2>2. z = Pow2[HostBits(part)]
    BY <1>1 DEF Size, HostBits
  <2>3. z * q = q * z
    OBVIOUS
  <2> QED
    BY <2>1, <2>2, <2>3 DEF Network
<1>4. expandCIDR(part) = Trimmed(part, Run(a, e))
  <2>1. f[Address(a)] = Run(a, e)
    BY <1>1, <1>2, FromIsRun
  <2> QED
    BY <1>2, <1>3, <2>1
<1>5. PICK run : run = Run(a, e) /\ run \in Seq(Addresses) /\ Len(run) = z
                 /\ \A k \in 1 .. z : run[k] = Address(a + k - 1)
  <2>0. a < e
    BY <1>1
  <2>1. Run(a, e) \in Seq(Addresses) /\ Len(Run(a, e)) = e - a
    BY <2>0, RunStep
  <2>2. \A k \in 1 .. e - a : Run(a, e)[k] = Address(a + k - 1)
    BY DEF Run
  <2> QED
    BY <1>1, <2>1, <2>2
<1>6. PICK x \in Nat, y \in Nat :
        /\ x < y /\ y <= t /\ expandCIDR(part) = Run(x, y)
        /\ x .. y - 1 = IF z > 2 THEN a + 1 .. e - 2 ELSE a .. e - 1
  <2>1. CASE z > 2
    <3>1. expandCIDR(part) = SubSeq(run, 2, Len(run) - 1)
      BY <1>1, <1>4, <1>5, <2>1 DEF Trimmed
    <3>2. \A i \in 2 .. z - 1 : run[i] \in Addresses
      <4> TAKE i \in 2 .. z - 1
      <4>1. i \in 1 .. Len(run)
        BY <1>5
      <4> QED
        BY <1>5, <4>1, ElementOfSeq
    <3>3. /\ SubSeq(run, 2, z - 1) \in Seq(Addresses)
          /\ Len(SubSeq(run, 2, z - 1)) = IF 2 <= z - 1 THEN z - 1 - 2 + 1 ELSE 0
          /\ \A i \in 1 .. z - 1 - 2 + 1 : SubSeq(run, 2, z - 1)[i] = run[2 + i - 1]
      BY <3>2, SubSeqProperties
    <3> DEFINE sub == SubSeq(run, 2, z - 1)
    <3>4. Run(a + 1, e - 1) \in Seq(Addresses) /\ Len(Run(a + 1, e - 1)) = e - 1 - (a + 1)
      <4>1. a + 1 \in Nat /\ e - 1 \in Nat /\ a + 1 < e - 1
        BY <1>1, <2>1
      <4> QED
        BY <4>1, RunStep
    <3>5. \A k \in 1 .. e - 1 - (a + 1) : Run(a + 1, e - 1)[k] = Address(a + 1 + k - 1)
      BY DEF Run
    <3>6. Len(sub) = z - 2 /\ \A i \in 1 .. z - 2 : sub[i] = Address(a + 1 + i - 1)
      <4>1. z - 1 - 2 + 1 = z - 2 /\ 2 <= z - 1
        BY <2>1
      <4>2. \A i \in 1 .. z - 2 : sub[i] = Address(a + 1 + i - 1)
        <5> TAKE i \in 1 .. z - 2
        <5>1. PICK k \in 1 .. z : k = 2 + i - 1 /\ a + k - 1 = a + 1 + i - 1
          OBVIOUS
        <5> QED
          BY <1>5, <3>3, <4>1, <5>1
      <4> QED
        BY <3>3, <4>1, <4>2
    <3>7. sub \in Seq(Addresses)
      BY <3>3
    <3> HIDE DEF sub
    <3>8. sub = Run(a + 1, e - 1)
      <4>1. e - 1 - (a + 1) = z - 2
        BY <1>1
      <4>2. Len(sub) = Len(Run(a + 1, e - 1))
        BY <3>4, <3>6, <4>1
      <4>3. \A i \in 1 .. Len(sub) : sub[i] = Run(a + 1, e - 1)[i]
        BY <3>5, <3>6, <4>1
      <4> QED
        BY <3>4, <3>7, <4>2, <4>3, SeqEqual
    <3>9. expandCIDR(part) = Run(a + 1, e - 1)
      BY <1>5, <3>1, <3>8 DEF sub
    <3>10. PICK x \in Nat, y \in Nat : x = a + 1 /\ y = e - 1 /\ x < y /\ y <= t /\ y - 1 = e - 2
      BY <1>1, <2>1
    <3> QED
      BY <2>1, <3>9, <3>10
  <2>2. CASE ~(z > 2)
    <3>1. expandCIDR(part) = Run(a, e)
      BY <1>1, <1>4, <2>2 DEF Trimmed
    <3> QED
      BY <1>1, <2>2, <3>1
  <2> QED
    BY <2>1, <2>2
<1>7. /\ Run(x, y) \in Seq(Addresses)
      /\ ToSet(Run(x, y)) = {ip \in Addresses : Number(ip) \in x .. y - 1}
  BY <1>1, <1>6, RunItems
<1>8. PrefixHosts(part) = {ip \in Addresses : Number(ip) \in x .. y - 1}
  BY <1>1, <1>6, PrefixHostsAre
<1>9. PrefixHosts(part) # {}
  <2>1. x \in 0 .. t - 1 /\ x \in x .. y - 1
    BY <1>6
  <2>2. Address(x) \in Addresses /\ Number(Address(x)) = x
    BY <1>1, <2>1, AddressIsAddress, NumberOfAddress
  <2> QED
    BY <1>8, <2>1, <2>2
<1> QED
  BY <1>6, <1>7, <1>8, <1>9

\* What any part stands for; AskedHosts is the union of these.
PartHosts(part) == {text \in Texts : Includes(part, text) /\ ~Edge(part, text)}

LEMMA PartKinds ==
  TextParts \cap CIDRParts = {}
<1> SUFFICES ASSUME NEW part \in TextParts, part \in CIDRParts PROVE FALSE
  OBVIOUS
<1>1. DOMAIN part = {"text"}
  BY DEF TextParts
<1>2. "addr" \in DOMAIN part
  BY DEF CIDRParts
<1> QED
  BY <1>1, <1>2

LEMMA PartHostsAre ==
  ASSUME NEW part \in HostParts
  PROVE  /\ part \in CIDRParts => PartHosts(part) = PrefixHosts(part)
         /\ part \notin CIDRParts => PartHosts(part) = {part.text} /\ part.text \in Texts
<1>1. CASE part \in CIDRParts
  <2>1. part \notin TextParts
    BY <1>1, PartKinds
  <2>2. \A text : text \in PartHosts(part) <=>
          /\ text \in Addresses
          /\ Number(text) \div Size(part) = Number(part.addr) \div Size(part)
          /\ Size(part) > 2 => Number(text) % Size(part) \notin {0, Size(part) - 1}
    BY <1>1, <2>1, Zenon DEF PartHosts, Includes, Edge, Texts
  <2>3. \A text : text \in PartHosts(part) <=> text \in PrefixHosts(part)
    BY <2>2, Zenon DEF PrefixHosts
  <2> QED
    BY <1>1, <2>3
<1>2. CASE part \notin CIDRParts
  <2>1. part \in TextParts
    BY <1>2 DEF HostParts
  <2>2. part.text \in Texts
    BY <2>1 DEF TextParts
  <2>3. \A text : text \in PartHosts(part) <=> text \in Texts /\ text = part.text
    BY <1>2, <2>1, Zenon DEF PartHosts, Includes, Edge
  <2> QED
    BY <1>2, <2>2, <2>3
<1> QED
  BY <1>1, <1>2

LEMMA PartExpanded ==
  ASSUME NEW part \in HostParts, ~(part \in CIDRParts /\ TooLarge(part))
  PROVE  /\ expandPart(part) \in Seq(Texts)
         /\ ToSet(expandPart(part)) = PartHosts(part)
         /\ PartHosts(part) # {}
<1>1. CASE part \in CIDRParts
  <2>1. /\ expandCIDR(part) \in Seq(Addresses) /\ ToSet(expandCIDR(part)) = PrefixHosts(part)
        /\ PrefixHosts(part) # {}
    BY <1>1, PrefixExpanded
  <2>2. PICK s \in Seq(Addresses) : s = expandCIDR(part)
    BY <2>1
  <2>3. s \in Seq(Texts)
    BY DEF Texts
  <2>4. expandPart(part) = s
    BY <1>1, <2>2 DEF expandPart
  <2> QED
    BY <1>1, <2>1, <2>2, <2>3, <2>4, PartHostsAre
<1>2. CASE part \notin CIDRParts
  <2>1. PICK text \in Texts : text = part.text /\ PartHosts(part) = {text}
    BY <1>2, PartHostsAre
  <2>2. expandPart(part) = <<text>>
    BY <1>2, <2>1 DEF expandPart
  <2>3. <<text>> \in Seq(Texts) /\ ToSet(<<text>>) = {text}
    BY DEF ToSet
  <2> QED
    BY <2>1, <2>2, <2>3
<1> QED
  BY <1>1, <1>2

LEMMA AskedParts ==
  ASSUME NEW parts, NEW text
  PROVE  text \in AskedHosts(parts) <=> \E part \in ToSet(parts) : text \in PartHosts(part)
BY Zenon DEF AskedHosts, PartHosts

\* A host argument lists the hosts it asks for, and nothing when a prefix of
\* it is too large; it asks for some host unless it is empty.
LEMMA HostsExpanded ==
  ASSUME NEW parts \in Seq(HostParts)
  PROVE  /\ expandHosts(parts) \in Seq(Texts)
         /\ IsInjective(expandHosts(parts))
         /\ BadHosts(parts) => expandHosts(parts) = <<>>
         /\ ~BadHosts(parts) =>
              /\ ToSet(expandHosts(parts)) = AskedHosts(parts)
              /\ parts # <<>> => AskedHosts(parts) # {}
<1>0. Len(parts) \in Nat /\ DOMAIN parts = 1 .. Len(parts) /\ \A i \in DOMAIN parts : parts[i] \in HostParts
  OBVIOUS
<1>1. BadHosts(parts) <=> \E part \in ToSet(parts) : part \in CIDRParts /\ TooLarge(part)
  BY Zenon DEF BadHosts, TooLarge, HostBits
<1>2. CASE BadHosts(parts)
  <2>1. expandHosts(parts) = <<>>
    BY <1>1, <1>2, Zenon DEF expandHosts
  <2>2. PICK nil : nil = <<>>
    OBVIOUS
  <2>3. nil \in Seq(Texts) /\ IsInjective(nil)
    BY <2>2 DEF IsInjective
  <2> QED
    BY <1>2, <2>1, <2>2, <2>3
<1>3. CASE ~BadHosts(parts)
  <2> DEFINE each == [i \in DOMAIN parts |-> expandPart(parts[i])]
  <2>1. \A i \in DOMAIN parts : ~(parts[i] \in CIDRParts /\ TooLarge(parts[i])) /\ parts[i] \in HostParts
    BY <1>0, <1>1, <1>3 DEF ToSet
  <2>2. \A i \in DOMAIN parts : expandPart(parts[i]) \in Seq(Texts)
    BY <2>1, PartExpanded
  <2>3. each \in Seq(Seq(Texts)) /\ DOMAIN each = DOMAIN parts
    BY <1>0, <2>2
  <2>4. expandHosts(parts) = FirstMentions(FlattenSeq(each))
    BY <1>1, <1>3, Zenon DEF expandHosts
  <2>5. \A i \in DOMAIN parts : ToSet(each[i]) = PartHosts(parts[i]) /\ PartHosts(parts[i]) # {}
    BY <2>1, PartExpanded
  <2> HIDE DEF each
  <2>6. /\ FlattenSeq(each) \in Seq(Texts)
        /\ ToSet(FlattenSeq(each)) = UNION {ToSet(each[i]) : i \in DOMAIN parts}
    BY <2>3, FlattenItems
  <2>7. \A ip : ip \in AskedHosts(parts) <=> \E part \in ToSet(parts) : ip \in PartHosts(part)
    BY AskedParts
  <2>8. UNION {ToSet(each[i]) : i \in DOMAIN parts} = AskedHosts(parts)
    <3>1. ASSUME NEW x, NEW i \in DOMAIN parts, x \in ToSet(each[i]) PROVE x \in AskedHosts(parts)
      <4>1. parts[i] \in ToSet(parts)
        BY DEF ToSet
      <4> QED
        BY <2>5, <2>7, <3>1, <4>1
    <3>2. ASSUME NEW x \in AskedHosts(parts) PROVE \E i \in DOMAIN parts : x \in ToSet(each[i])
      <4>1. PICK part \in ToSet(parts) : x \in PartHosts(part)
        BY <2>7, <3>2
      <4>2. PICK i \in DOMAIN parts : part = parts[i]
        BY DEF ToSet
      <4> QED
        BY <2>5, <4>1, <4>2
    <3> QED
      BY <3>1, <3>2
  <2>9. ASSUME parts # <<>> PROVE AskedHosts(parts) # {}
    <3>1. 1 \in DOMAIN parts
      BY <1>0, <2>9
    <3> QED
      BY <2>5, <2>8, <3>1
  <2>10. /\ FirstMentions(FlattenSeq(each)) \in Seq(Texts)
         /\ ToSet(FirstMentions(FlattenSeq(each))) = ToSet(FlattenSeq(each))
         /\ IsInjective(FirstMentions(FlattenSeq(each)))
    BY <2>6, FirstMentionsItems
  <2> QED
    BY <1>3, <2>4, <2>6, <2>8, <2>9, <2>10
<1> QED
  BY <1>2, <1>3

-----------------------------------------------------------------------------
(* Options: what settles the value of every one of them.                   *)

Options == DOMAIN Defaults

Inputs ==
  /\ DOMAIN cli \subseteq Options
  /\ Parsed(cli) /\ Parsed(profile) /\ Parsed(config)
  /\ limit \in Nat \cup {NoLimit} /\ root \in BOOLEAN

\* No source names an option that does not exist.
Known == DOMAIN profile \cup DOMAIN config \subseteq Options

LEMMA OverParsed ==
  ASSUME NEW f, NEW g, Parsed(f), Parsed(g)
  PROVE  Parsed(Over(f, g))
<1>1. PICK h : h = Over(f, g)
  OBVIOUS
<1>2. /\ DOMAIN h = DOMAIN f \cup DOMAIN g
      /\ \A o \in DOMAIN f \cup DOMAIN g : h[o] = IF o \in DOMAIN f THEN f[o] ELSE g[o]
  BY <1>1 DEF Over
<1>3. \A o \in DOMAIN h : h[o] = IF o \in DOMAIN f THEN f[o] ELSE g[o]
  BY <1>2
<1>4. \A o \in DOMAIN h : (o \in DOMAIN f /\ h[o] = f[o]) \/ (o \in DOMAIN g /\ h[o] = g[o])
  BY <1>2
<1>5. \A o \in {"top", "threads", "rate"} \cap DOMAIN h : h[o] \in Int
  BY <1>4 DEF Parsed
<1>6. \A o \in {"json", "q", "v", "syn", "stream"} \cap DOMAIN h : h[o] \in BOOLEAN
  BY <1>4, Zenon DEF Parsed
<1>7. \A o \in {"host", "iL", "exclude"} \cap DOMAIN h : h[o] \in Seq(HostParts)
  BY <1>4 DEF Parsed
<1>8. \A o \in {"range", "exclude-ports"} \cap DOMAIN h : h[o] \in Seq(Blocks)
  BY <1>4 DEF Parsed
<1>9. "proxy" \in DOMAIN h => h["proxy"] \in {"none", "well-formed", "malformed"}
  BY <1>4 DEF Parsed
<1>10. Parsed(h)
  BY <1>5, <1>6, <1>7, <1>8, <1>9, Zenon DEF Parsed
<1> QED
  BY <1>1, <1>2, <1>10

\* Every option has the value of the strongest source that sets it.
LEMMA SettingsFact ==
  ASSUME Inputs, Known
  PROVE  /\ DOMAIN Settings = Options /\ Parsed(Settings)
         /\ Settings = [o \in Options |-> Settings[o]]
         /\ \A o \in Options :
              Settings[o] = IF o \in DOMAIN cli THEN cli[o]
                            ELSE IF o \in DOMAIN config THEN config[o]
                            ELSE IF o \in DOMAIN profile THEN profile[o]
                            ELSE Defaults[o]
<1>0. Parsed(Defaults) /\ Parsed(cli) /\ Parsed(profile) /\ Parsed(config) /\ DOMAIN cli \subseteq Options
  BY StartupAssumption DEF StartupAssumption, Inputs
<1>1. PICK a : a = Over(profile, Defaults)
  OBVIOUS
<1>2. DOMAIN a = DOMAIN profile \cup Options /\ Parsed(a)
      /\ \A o \in DOMAIN profile \cup Options : a[o] = IF o \in DOMAIN profile THEN profile[o] ELSE Defaults[o]
  <2>1. Parsed(a)
    BY <1>0, <1>1, OverParsed
  <2>2. DOMAIN a = DOMAIN profile \cup Options
    BY <1>1 DEF Over, Options
  <2>3. \A o \in DOMAIN profile \cup Options : a[o] = IF o \in DOMAIN profile THEN profile[o] ELSE Defaults[o]
    BY <1>1 DEF Over, Options
  <2> QED
    BY <2>1, <2>2, <2>3
<1>3. PICK b : b = Over(config, a)
  OBVIOUS
<1>4. DOMAIN b = DOMAIN config \cup DOMAIN a /\ Parsed(b)
      /\ \A o \in DOMAIN config \cup DOMAIN a : b[o] = IF o \in DOMAIN config THEN config[o] ELSE a[o]
  <2>1. Parsed(b)
    BY <1>0, <1>2, <1>3, OverParsed
  <2>2. DOMAIN b = DOMAIN config \cup DOMAIN a
    BY <1>3 DEF Over
  <2>3. \A o \in DOMAIN config \cup DOMAIN a : b[o] = IF o \in DOMAIN config THEN config[o] ELSE a[o]
    BY <1>3 DEF Over
  <2> QED
    BY <2>1, <2>2, <2>3
<1>5. PICK c : c = Over(cli, b)
  OBVIOUS
<1>6. DOMAIN c = DOMAIN cli \cup DOMAIN b /\ Parsed(c)
      /\ \A o \in DOMAIN cli \cup DOMAIN b : c[o] = IF o \in DOMAIN cli THEN cli[o] ELSE b[o]
  <2>1. Parsed(c)
    BY <1>0, <1>4, <1>5, OverParsed
  <2>2. DOMAIN c = DOMAIN cli \cup DOMAIN b
    BY <1>5 DEF Over
  <2>3. \A o \in DOMAIN cli \cup DOMAIN b : c[o] = IF o \in DOMAIN cli THEN cli[o] ELSE b[o]
    BY <1>5 DEF Over
  <2> QED
    BY <2>1, <2>2, <2>3
<1>7. Settings = c
  BY <1>1, <1>3, <1>5 DEF Settings
<1>8. DOMAIN c = Options
  BY <1>0, <1>2, <1>4, <1>6 DEF Known
<1>9. \A o \in Options :
        c[o] = IF o \in DOMAIN cli THEN cli[o]
               ELSE IF o \in DOMAIN config THEN config[o]
               ELSE IF o \in DOMAIN profile THEN profile[o]
               ELSE Defaults[o]
  BY <1>2, <1>4, <1>6, <1>8, Zenon
<1>10. c = [o \in Options |-> c[o]]
  <2>1. c = [o \in DOMAIN cli \cup DOMAIN b |-> IF o \in DOMAIN cli THEN cli[o] ELSE b[o]]
    BY <1>5, Zenon DEF Over
  <2> QED
    BY <1>6, <1>8, <2>1
<1> QED
  BY <1>6, <1>7, <1>8, <1>9, <1>10

\* applySettings computes them, unless a source names an unknown option.
LEMMA Settled ==
  ASSUME Inputs
  PROVE  /\ DOMAIN Settle(Over(cli, Defaults)) = Options
         /\ Unknown(profile) \/ Unknown(config) <=> ~Known
         /\ Known => Settle(Over(cli, Defaults)) = Settings
<1>0. Parsed(Defaults) /\ Parsed(cli) /\ DOMAIN cli \subseteq Options
  BY StartupAssumption DEF StartupAssumption, Inputs
<1>1. PICK f : f = Over(cli, Defaults)
  OBVIOUS
<1>2. DOMAIN f = Options /\ \A o \in Options : f[o] = IF o \in DOMAIN cli THEN cli[o] ELSE Defaults[o]
  BY <1>0, <1>1 DEF Over, Options
<1>3. PICK g : g = ApplyKV(f, profile)
  OBVIOUS
<1>4. DOMAIN g = Options
      /\ \A o \in Options : g[o] = IF o \in DOMAIN profile \ DOMAIN cli THEN profile[o] ELSE f[o]
  BY <1>2, <1>3 DEF ApplyKV
<1>5. PICK h : h = ApplyKV(g, config)
  OBVIOUS
<1>6. h = [o \in Options |-> IF o \in DOMAIN config \ DOMAIN cli THEN config[o] ELSE g[o]]
  BY <1>4, <1>5 DEF ApplyKV
<1>7. Settle(Over(cli, Defaults)) = h
  BY <1>1, <1>3, <1>5 DEF Settle
<1>8. Unknown(profile) \/ Unknown(config) <=> ~Known
  BY <1>0 DEF Unknown, Known, Options
<1>9. ASSUME Known PROVE h = Settings
  <2>1. \A o \in Options : h[o] = Settings[o]
    BY <1>2, <1>4, <1>6, <1>9, SettingsFact
  <2> QED
    BY <1>6, <1>9, <2>1, SettingsFact
<1> QED
  BY <1>6, <1>7, <1>8, <1>9

\* main() refuses exactly the options nobody could work with.
LEMMA WorkableFact ==
  ASSUME Inputs, Known
  PROVE  Contradictory(Normalised(Settings)) <=> ~Workable
<1>1. PICK s : s = Settings /\ DOMAIN s = Options /\ Parsed(s)
  BY SettingsFact
<1>2. {"top", "rate", "proto", "format", "json", "q", "v", "proxy", "syn", "stream"} \subseteq DOMAIN s
  BY <1>1, StartupAssumption DEF StartupAssumption, Options
<1>3. PICK n : n = Normalised(s)
  OBVIOUS
<1>4. /\ n["proto"] = Lowered(s["proto"])
      /\ n["format"] = IF s["json"] THEN "json" ELSE Lowered(s["format"])
      /\ \A o \in {"top", "rate", "q", "v", "proxy", "syn", "stream"} : n[o] = s[o]
  BY <1>2, <1>3 DEF Normalised
<1>5. s["top"] \in Int /\ s["rate"] \in Int /\ s["proxy"] \in {"none", "well-formed", "malformed"}
  BY <1>1, <1>2 DEF Parsed
<1>6. Format = n["format"]
  BY <1>1, <1>4 DEF Format, Setting
<1>7. \A o : Setting(o) = s[o]
  BY <1>1 DEF Setting
<1>8. PICK p, t : p = n["proto"] /\ t = s["proto"] /\ p = Lowered(t) /\ (p = "udp" <=> t = "udp")
  BY <1>4 DEF Lowered
<1>9. (s["top"] < 0 <=> ~(s["top"] >= 0)) /\ (s["rate"] < 0 <=> ~(s["rate"] >= 0))
  BY <1>5
<1>10. Workable <=>
        /\ p = "tcp" \/ (p = "udp" /\ ~s["syn"])
        /\ s["proxy"] # "none" => s["proxy"] = "well-formed" /\ p = "tcp"
        /\ s["syn"] => root /\ s["proxy"] = "none"
        /\ n["format"] \in {"text", "json", "csv", "grep", "xml", "html"}
        /\ s["stream"] => n["format"] = "text"
        /\ ~(s["q"] /\ s["v"])
        /\ s["top"] >= 0 /\ s["rate"] >= 0
  BY <1>6, <1>7, <1>8 DEF Workable
<1>11. Contradictory(n) <=>
        \/ p \notin {"tcp", "udp"}
        \/ s["top"] < 0 \/ s["rate"] < 0
        \/ n["format"] \notin {"text", "json", "csv", "grep", "xml", "html"}
        \/ s["q"] /\ s["v"]
        \/ s["proxy"] # "none" /\ (p = "udp" \/ s["proxy"] = "malformed")
        \/ s["syn"] /\ (p # "tcp" \/ s["proxy"] # "none" \/ ~root)
        \/ s["stream"] /\ n["format"] # "text"
  BY <1>4, <1>8 DEF Contradictory
<1> QED
  BY <1>1, <1>3, <1>5, <1>9, <1>10, <1>11

\* The flags main() goes on with.
Fitted == [Normalised(Settings) EXCEPT !["threads"] = Fitting(@)]

\* The conversion to an int changes what is left by a multiple of Word, so what
\* stays positive is no more than it was, and the same if the limit fits.
LEMMA SpareFact ==
  ASSUME limit \in Nat
  PROVE  /\ Spare \in Int
         /\ Spare >= 1 => Spare + Margin <= limit
         /\ limit < Word \div 2 => Spare + Margin = limit
<1>1. PICK w \in Nat : w = Word /\ w > 0 /\ (w % 2) = 0 /\ Margin \in 0 .. w \div 2
  BY StartupAssumption DEF StartupAssumption
<1>2. PICK half \in Nat : half = w \div 2 /\ w = 2 * half /\ half > 0
  BY <1>1
<1>3. PICK x \in Int, m \in Nat : x = limit - Margin /\ m = Margin /\ m <= half /\ x >= -m
  BY <1>1, <1>2
<1>4. PICK d \in Int, left \in Nat : left = (x % w) /\ left < w /\ x = w * d + left
  BY <1>1, DivisionOfInts
<1>5. PICK spare \in Int : spare = (IF left < half THEN left ELSE left - w)
  BY <1>1
<1>6. Spare = spare
  BY <1>1, <1>2, <1>3, <1>4, <1>5 DEF Spare
<1>7. d >= 1 => w * d >= w
  BY <1>1, Multiple
<1>8. -d - 1 >= 1 => w * (-d - 1) >= w
  BY <1>1, Multiple
<1>9. w * (-d - 1) = -(w * d) - w
  BY <1>1
<1>10. ~(-d - 1 >= 1)
  BY <1>2, <1>3, <1>4, <1>8, <1>9
<1>11. CASE d >= 1
  <2>1. x >= w
    BY <1>4, <1>7, <1>11
  <2> QED
    BY <1>1, <1>2, <1>3, <1>4, <1>5, <1>6, <2>1
<1>12. CASE d = 0
  <2>1. x = left
    <3>1. w * d = 0
      BY <1>12
    <3> QED
      BY <1>4, <3>1
  <2> QED
    BY <1>1, <1>2, <1>3, <1>5, <1>6, <2>1
<1>13. CASE d = -1
  <2>1. x = left - w
    <3>1. w * d = -w
      BY <1>13
    <3> QED
      BY <1>4, <3>1
  <2> QED
    BY <1>1, <1>2, <1>3, <1>5, <1>6, <2>1
<1> QED
  BY <1>10, <1>11, <1>12, <1>13

LEMMA FittedFact ==
  ASSUME Inputs, Known
  PROVE  /\ DOMAIN Fitted = Options /\ Parsed(Fitted)
         /\ Fitted["threads"] = Fitting(Settings["threads"])
         /\ \A o \in Options : o \notin {"threads", "proto", "format"} => Fitted[o] = Settings[o]
<1>1. PICK s : s = Settings /\ DOMAIN s = Options /\ Parsed(s) /\ s = [o \in Options |-> s[o]]
  BY SettingsFact
<1>2. {"threads", "proto", "format"} \subseteq Options
  BY StartupAssumption DEF StartupAssumption, Options
<1>3. PICK f : f = Fitted
  OBVIOUS
<1>4. /\ DOMAIN f = Options
      /\ f["threads"] = Fitting(s["threads"])
      /\ \A o \in Options : o \notin {"threads", "proto", "format"} => f[o] = s[o]
  BY <1>1, <1>2, <1>3 DEF Fitted, Normalised
<1>5. f["threads"] \in Int
  <2>1. s["threads"] \in Int
    BY <1>1, <1>2 DEF Parsed
  <2>2. CASE limit = NoLimit
    BY <1>4, <2>1, <2>2 DEF Fitting
  <2>3. CASE limit # NoLimit
    <3>1. PICK left \in Int : left = Spare
      BY <2>3, SpareFact DEF Inputs
    <3> QED
      BY <1>4, <2>1, <3>1 DEF Fitting
  <2> QED
    BY <2>2, <2>3
<1>6. Parsed(f)
  <2>1. \A o \in {"top", "threads", "rate"} \cap DOMAIN f : f[o] \in Int
    BY <1>1, <1>4, <1>5 DEF Parsed
  <2>2. \A o \in {"json", "q", "v", "syn", "stream"} \cap DOMAIN f : f[o] \in BOOLEAN
    <3> TAKE o \in {"json", "q", "v", "syn", "stream"} \cap DOMAIN f
    <3>1. f[o] = s[o] /\ o \in {"json", "q", "v", "syn", "stream"} \cap DOMAIN s
      BY <1>1, <1>4
    <3>2. s[o] \in BOOLEAN
      BY <1>1, <3>1, Zenon DEF Parsed
    <3> QED
      BY <3>1, <3>2, Zenon
  <2>3. \A o \in {"host", "iL", "exclude"} \cap DOMAIN f : f[o] \in Seq(HostParts)
    BY <1>1, <1>4 DEF Parsed
  <2>4. \A o \in {"range", "exclude-ports"} \cap DOMAIN f : f[o] \in Seq(Blocks)
    BY <1>1, <1>4 DEF Parsed
  <2>5. "proxy" \in DOMAIN f => f["proxy"] \in {"none", "well-formed", "malformed"}
    BY <1>1, <1>4 DEF Parsed
  <2> QED
    BY <2>1, <2>2, <2>3, <2>4, <2>5, Zenon DEF Parsed
<1> QED
  BY <1>1, <1>3, <1>4, <1>6, Zenon

\* What the expansion and the exclusions need to know of the flags.
Usable ==
  /\ DOMAIN flags = Options
  /\ flags["host"] \in Seq(HostParts) /\ flags["iL"] \in Seq(HostParts)
  /\ flags["exclude"] \in Seq(HostParts)
  /\ flags["range"] \in Seq(Blocks) /\ flags["exclude-ports"] \in Seq(Blocks)
  /\ flags["top"] \in Nat /\ flags["rate"] \in Nat
  /\ flags["top"] = Settings["top"] /\ flags["rate"] = Settings["rate"]
  /\ ~Given("host") => flags["host"] = Defaults["host"]
  /\ ~Given("iL") => flags["iL"] = <<>>
  /\ ~Given("exclude") => flags["exclude"] = <<>>

LEMMA FittedUsable ==
  ASSUME Inputs, Known, Workable, flags = Fitted
  PROVE  Usable
<1>1. {"host", "iL", "exclude", "range", "exclude-ports", "top", "rate"} \subseteq Options
  BY StartupAssumption DEF StartupAssumption, Options
<1>2. PICK f : f = flags /\ DOMAIN f = Options /\ Parsed(f)
  BY FittedFact
<1>3. \A o \in {"host", "iL", "exclude", "range", "exclude-ports", "top", "rate"} : f[o] = Settings[o]
  BY <1>1, <1>2, FittedFact
<1>4. /\ f["host"] \in Seq(HostParts) /\ f["iL"] \in Seq(HostParts) /\ f["exclude"] \in Seq(HostParts)
      /\ f["range"] \in Seq(Blocks) /\ f["exclude-ports"] \in Seq(Blocks)
      /\ f["top"] \in Int /\ f["rate"] \in Int
  BY <1>1, <1>2 DEF Parsed
<1>5. f["top"] \in Nat /\ f["rate"] \in Nat
  <2>1. Settings["top"] >= 0 /\ Settings["rate"] >= 0
    BY DEF Workable, Setting
  <2> QED
    BY <1>3, <1>4, <2>1
<1>6. \A o \in {"host", "iL", "exclude"} : ~Given(o) => f[o] = Defaults[o]
  BY <1>1, <1>3, SettingsFact DEF Given
<1>7. Defaults["iL"] = <<>> /\ Defaults["exclude"] = <<>>
  BY StartupAssumption DEF StartupAssumption
<1> QED
  BY <1>2, <1>3, <1>4, <1>5, <1>6, <1>7 DEF Usable

LEMMA AskedJoined ==
  ASSUME NEW a \in Seq(HostParts), NEW b \in Seq(HostParts)
  PROVE  /\ AskedHosts(a \o b) = AskedHosts(a) \cup AskedHosts(b)
         /\ BadHosts(a \o b) <=> BadHosts(a) \/ BadHosts(b)
<1>1. ToSet(a \o b) = ToSet(a) \cup ToSet(b)
  BY JoinedItems
<1>2. \A s, ip : ip \in AskedHosts(s) <=> \E part \in ToSet(s) : ip \in PartHosts(part)
  BY AskedParts
<1>3. \A ip : ip \in AskedHosts(a \o b) <=> ip \in AskedHosts(a) \cup AskedHosts(b)
  BY <1>1, <1>2
<1>4. \A s : BadHosts(s) <=> \E part \in ToSet(s) : part \in CIDRParts /\ Bits - part.ones > MaxHostBits
  BY Zenon DEF BadHosts
<1> QED
  BY <1>1, <1>3, <1>4

LEMMA NothingAsked ==
  /\ AskedHosts(<<>>) = {} /\ ~BadHosts(<<>>)
  /\ AskedPorts(<<>>) = {} /\ ~BadPorts(<<>>)
<1>1. ToSet(<<>>) = {}
  BY DEF ToSet
<1> QED
  BY <1>1, Zenon DEF AskedHosts, BadHosts, AskedPorts, BadPorts

\* The sources of hosts that gatherHosts takes are those somebody named.
LEMMA SourcesNamed ==
  ASSUME Usable
  PROVE  /\ HostSources(flags) \in Seq(HostParts)
         /\ AskedHosts(HostSources(flags)) = NamedHosts
         /\ BadHosts(HostSources(flags)) <=> \E o \in {"host", "iL"} : Given(o) /\ BadHosts(flags[o])
<1>1. PICK h \in Seq(HostParts), l \in Seq(HostParts) : h = flags["host"] /\ l = flags["iL"]
  BY DEF Usable
<1>2. /\ h \o l \in Seq(HostParts)
      /\ AskedHosts(h \o l) = AskedHosts(h) \cup AskedHosts(l)
      /\ BadHosts(h \o l) <=> BadHosts(h) \/ BadHosts(l)
  BY AskedJoined
<1>3. HostSources(flags) = IF ~Given("iL") \/ Given("host") THEN h \o l ELSE l
  BY <1>1 DEF HostSources
<1>4. ~Given("iL") => AskedHosts(l) = {} /\ ~BadHosts(l)
  BY <1>1, NothingAsked DEF Usable
<1>5. ~Given("host") => h = Defaults["host"] /\ ~BadHosts(h)
  <2>1. ASSUME ~Given("host") PROVE h = Defaults["host"] /\ ~BadHosts(h)
    <3>1. h = Defaults["host"]
      BY <1>1, <2>1 DEF Usable
    <3>2. ToSet(h) \subseteq TextParts
      BY <3>1, StartupAssumption DEF StartupAssumption
    <3>3. TextParts \cap CIDRParts = {}
      BY PartKinds
    <3> QED
      BY <3>1, <3>2, <3>3 DEF BadHosts
  <2> QED
    BY <2>1
<1>6. {"host", "iL"} \subseteq DOMAIN flags
  BY StartupAssumption DEF StartupAssumption, Options, Usable
<1>7. CASE ~Given("iL") /\ ~Given("host")
  <2>1. NamedHosts = AskedHosts(Defaults["host"])
    BY <1>7 DEF NamedHosts
  <2> QED
    BY <1>1, <1>2, <1>3, <1>4, <1>5, <1>7, <2>1
<1>8. CASE Given("iL") \/ Given("host")
  <2>1. NamedHosts = UNION {AskedHosts(flags[o]) : o \in {"host", "iL"} \cap {q \in DOMAIN flags : Given(q)}}
    BY <1>8 DEF NamedHosts
  <2>2. \A ip : ip \in NamedHosts <=>
          (Given("host") /\ ip \in AskedHosts(h)) \/ (Given("iL") /\ ip \in AskedHosts(l))
    BY <1>1, <1>6, <2>1
  <2>3. \A ip : ip \in NamedHosts <=> ip \in AskedHosts(HostSources(flags))
    BY <1>2, <1>3, <1>4, <1>8, <2>2
  <2>4. (\E o \in {"host", "iL"} : Given(o) /\ BadHosts(flags[o]))
          <=> (Given("host") /\ BadHosts(h)) \/ (Given("iL") /\ BadHosts(l))
    BY <1>1
  <2>5. BadHosts(HostSources(flags)) <=> (Given("host") /\ BadHosts(h)) \/ (Given("iL") /\ BadHosts(l))
    BY <1>2, <1>3, <1>4, <1>5, <1>8
  <2>6. HostSources(flags) \in Seq(HostParts)
    BY <1>2, <1>3
  <2>7. AskedHosts(HostSources(flags)) = NamedHosts
    BY <2>3
  <2> QED
    BY <2>4, <2>5, <2>6, <2>7
<1> QED
  BY <1>7, <1>8

-----------------------------------------------------------------------------
(* The two lists: what is looked for, and what stands in the way.          *)

Kinds == {"hosts", "ports"}
Universe(k) == IF k = "hosts" THEN Texts ELSE 1 .. MaxPort
Asked(k, arg) == IF k = "hosts" THEN AskedHosts(arg) ELSE AskedPorts(arg)
Exclusion(k) == flags[ExclusionOf[k]]

\* What is asked for before the exclusions.
Sought(k) == IF k = "hosts" THEN NamedHosts ELSE NamedPorts

\* The arguments of a list, and of its exclusions, that cannot be expanded.
Misread(k) ==
  IF k = "hosts" THEN \E o \in {"host", "iL"} : Given(o) /\ BadHosts(flags[o])
  ELSE flags["top"] = 0 /\ BadPorts(flags["range"])
Unfit(k) == IF k = "hosts" THEN BadHosts(flags["exclude"]) ELSE BadPorts(flags["exclude-ports"])

LEMMA ListedFact ==
  ASSUME Usable, NEW k \in Kinds
  PROVE  /\ Listed(flags)[k] \in Seq(Universe(k)) /\ IsInjective(Listed(flags)[k])
         /\ Misread(k) => Listed(flags)[k] = <<>>
         /\ ~Misread(k) => ToSet(Listed(flags)[k]) = Sought(k)
<1>1. CASE k = "hosts"
  <2>1. PICK parts \in Seq(HostParts) :
          /\ parts = HostSources(flags) /\ AskedHosts(parts) = NamedHosts
          /\ BadHosts(parts) <=> Misread(k)
    BY <1>1, SourcesNamed DEF Misread
  <2>2. Listed(flags)[k] = expandHosts(parts)
    BY <1>1, <2>1 DEF Listed
  <2>3. /\ expandHosts(parts) \in Seq(Texts) /\ IsInjective(expandHosts(parts))
        /\ BadHosts(parts) => expandHosts(parts) = <<>>
        /\ ~BadHosts(parts) => ToSet(expandHosts(parts)) = AskedHosts(parts)
    BY HostsExpanded
  <2>4. Universe(k) = Texts /\ Sought(k) = NamedHosts
    BY <1>1 DEF Universe, Sought
  <2> QED
    BY <2>1, <2>2, <2>3, <2>4, Zenon
<1>2. CASE k = "ports" /\ flags["top"] > 0
  <2>1. PICK n \in Nat : n = flags["top"] /\ n > 0
    BY <1>2 DEF Usable
  <2>2. Listed(flags)[k] = topPortsN(n)
    BY <1>2, <2>1 DEF Listed
  <2>3. /\ topPortsN(n) \in Seq(1 .. MaxPort) /\ IsInjective(topPortsN(n))
        /\ ToSet(topPortsN(n)) = {TopPorts[i] : i \in {m \in DOMAIN TopPorts : m <= n}}
    BY <2>1, TopPortsTaken
  <2>4. /\ Universe(k) = 1 .. MaxPort /\ ~Misread(k)
        /\ Sought(k) = {TopPorts[i] : i \in {m \in DOMAIN TopPorts : m <= n}}
    BY <1>2, <2>1 DEF Universe, Sought, NamedPorts, Misread
  <2> QED
    BY <2>2, <2>3, <2>4, Zenon
<1>3. CASE k = "ports" /\ ~(flags["top"] > 0)
  <2>1. PICK blocks \in Seq(Blocks) : blocks = flags["range"]
    BY DEF Usable
  <2>2. Listed(flags)[k] = expandPorts(blocks) /\ flags["top"] = 0
    BY <1>3, <2>1 DEF Listed, Usable
  <2>3. /\ expandPorts(blocks) \in Seq(1 .. MaxPort) /\ IsInjective(expandPorts(blocks))
        /\ BadPorts(blocks) => expandPorts(blocks) = <<>>
        /\ ~BadPorts(blocks) => ToSet(expandPorts(blocks)) = AskedPorts(blocks)
    BY PortsExpanded
  <2>4. Universe(k) = 1 .. MaxPort /\ (Misread(k) <=> BadPorts(blocks)) /\ Sought(k) = AskedPorts(blocks)
    BY <1>3, <2>1, <2>2 DEF Universe, Sought, NamedPorts, Misread
  <2> QED
    BY <2>2, <2>3, <2>4, Zenon
<1> QED
  BY <1>1, <1>2, <1>3 DEF Kinds

LEMMA ExclusionFact ==
  ASSUME Usable, NEW k \in Kinds
  PROVE  /\ Expand(k, Exclusion(k)) \in Seq(Universe(k))
         /\ Unfit(k) => Expand(k, Exclusion(k)) = <<>>
         /\ Unfit(k) /\ k = "hosts" => Given("exclude")
         /\ ~Unfit(k) =>
              /\ ToSet(Expand(k, Exclusion(k))) = Asked(k, Exclusion(k))
              /\ Exclusion(k) # <<>> => Expand(k, Exclusion(k)) # <<>>
         /\ Exclusion(k) = <<>> => ~Unfit(k) /\ Asked(k, Exclusion(k)) = {}
<1>1. CASE k = "hosts"
  <2>1. PICK parts \in Seq(HostParts) :
          parts = flags["exclude"] /\ (~Given("exclude") => parts = <<>>)
    BY DEF Usable
  <2>2. /\ Exclusion(k) = parts /\ Universe(k) = Texts /\ (Unfit(k) <=> BadHosts(parts))
        /\ Expand(k, parts) = expandHosts(parts) /\ Asked(k, parts) = AskedHosts(parts)
    BY <1>1, <2>1 DEF Exclusion, ExclusionOf, Universe, Unfit, Expand, Asked
  <2>3. /\ expandHosts(parts) \in Seq(Texts)
        /\ BadHosts(parts) => expandHosts(parts) = <<>>
        /\ ~BadHosts(parts) => /\ ToSet(expandHosts(parts)) = AskedHosts(parts)
                               /\ parts # <<>> => AskedHosts(parts) # {}
    BY HostsExpanded
  <2>4. expandHosts(parts) = <<>> <=> ToSet(expandHosts(parts)) = {}
    BY <2>3, EmptyList
  <2> QED
    BY <1>1, <2>1, <2>2, <2>3, <2>4, NothingAsked, Zenon
<1>2. CASE k = "ports"
  <2>1. PICK blocks \in Seq(Blocks) : blocks = flags["exclude-ports"]
    BY DEF Usable
  <2>2. /\ Exclusion(k) = blocks /\ Universe(k) = 1 .. MaxPort /\ (Unfit(k) <=> BadPorts(blocks))
        /\ Expand(k, blocks) = expandPorts(blocks) /\ Asked(k, blocks) = AskedPorts(blocks)
    BY <1>2, <2>1 DEF Exclusion, ExclusionOf, Universe, Unfit, Expand, Asked
  <2>3. /\ expandPorts(blocks) \in Seq(1 .. MaxPort)
        /\ BadPorts(blocks) => expandPorts(blocks) = <<>>
        /\ ~BadPorts(blocks) => /\ ToSet(expandPorts(blocks)) = AskedPorts(blocks)
                                /\ blocks # <<>> => AskedPorts(blocks) # {}
    BY PortsExpanded
  <2>4. expandPorts(blocks) = <<>> <=> ToSet(expandPorts(blocks)) = {}
    BY <2>3, EmptyList
  <2>5. k # "hosts"
    BY <1>2
  <2> QED
    BY <2>2, <2>3, <2>4, <2>5, NothingAsked, Zenon
<1> QED
  BY <1>1, <1>2 DEF Kinds

\* A host that no part of -exclude takes out is none of those -exclude lists.
LEMMA WantedFact ==
  ASSUME Usable, NEW k \in Kinds
  PROVE  Wanted(k) = Sought(k) \ Asked(k, Exclusion(k))
<1>1. CASE k = "hosts"
  <2>1. /\ Wanted(k) = {text \in NamedHosts : Spared(text)} /\ Sought(k) = NamedHosts
        /\ Asked(k, Exclusion(k)) = AskedHosts(flags["exclude"])
    BY <1>1, Zenon DEF Wanted, Sought, Asked, Exclusion, ExclusionOf
  <2>2. NamedHosts \subseteq Texts
    <3>1. NamedHosts = AskedHosts(HostSources(flags))
      BY SourcesNamed
    <3> QED
      BY <3>1, Zenon DEF AskedHosts
  <2>3. ASSUME NEW text \in Texts PROVE Spared(text) <=> text \notin AskedHosts(flags["exclude"])
    BY <2>3, Zenon DEF Spared, AskedHosts
  <2> QED
    BY <2>1, <2>2, <2>3, Zenon
<1>2. CASE k = "ports"
  BY <1>2 DEF Wanted, Sought, Asked, Exclusion, ExclusionOf
<1> QED
  BY <1>1, <1>2 DEF Kinds

\* Why the program may refuse, said of the two lists.
LEMMA RefusableFact ==
  ASSUME Inputs, Usable
  PROVE  Refusable <=>
           \/ ~Known \/ ~Workable
           \/ \E k \in Kinds : Misread(k) \/ Unfit(k) \/ Wanted(k) = {}
<1>1. (DOMAIN profile \cup DOMAIN config) \ (DOMAIN cli \cup DOMAIN flags) # {} <=> ~Known
  BY DEF Inputs, Usable, Known
<1>2. Given("exclude") /\ BadHosts(flags["exclude"]) <=> Unfit("hosts")
  <2>1. "hosts" \in Kinds
    BY DEF Kinds
  <2>2. Unfit("hosts") => Given("exclude")
    BY <2>1, ExclusionFact
  <2> QED
    BY <2>2 DEF Unfit
<1>3. (\E o \in {"host", "iL", "exclude"} : Given(o) /\ BadHosts(flags[o])) <=> Misread("hosts") \/ Unfit("hosts")
  BY <1>2 DEF Misread
<1>4. flags["top"] = 0 /\ BadPorts(flags["range"]) <=> Misread("ports")
  BY DEF Misread
<1>5. BadPorts(flags["exclude-ports"]) <=> Unfit("ports")
  BY DEF Unfit
<1> QED
  BY <1>1, <1>3, <1>4, <1>5 DEF Refusable, Kinds

-----------------------------------------------------------------------------
(* The inductive invariant.                                                *)

Settling ==
  /\ stage \in {"settings", "options", "targets"} => kind = "hosts"
  /\ stage = "settings" => flags = Over(cli, Defaults)
  /\ stage = "options" => Known /\ flags = Settings
  /\ stage \in {"targets", "exclude", "filter", "check", "ready"} => Known /\ Workable /\ flags = Fitted

\* The exclusions of a list are done.
Filtered(k) == stage \in {"check", "ready"} \/ (kind = "ports" /\ k = "hosts")

ListSound(k) ==
  /\ lists[k] \in Seq(Universe(k)) /\ ~Misread(k)
  /\ Filtered(k) => IsInjective(lists[k]) /\ ToSet(lists[k]) = Wanted(k) /\ ~Unfit(k)
  /\ ~Filtered(k) /\ (stage = "filter" => k # kind) => lists[k] = Listed(flags)[k]

ListsSound ==
  stage \in {"exclude", "filter", "check", "ready"} =>
    DOMAIN lists = Kinds /\ \A k \in Kinds : ListSound(k)

\* Of a list and what is left of it before and after a round.
HalfFiltered(before, now, kept, r, w) ==
  /\ Len(now) = Len(before)
  /\ r \in 1 .. Len(before) + 1 /\ w \in 0 .. r - 1
  /\ \A i \in r .. Len(before) : now[i] = before[i]
  /\ Len(kept[r - 1]) = w
  /\ \A i \in 1 .. w : now[i] = kept[r - 1][i]

Filtering ==
  stage = "filter" =>
    /\ ~Unfit(kind) /\ drop = Asked(kind, Exclusion(kind))
    /\ HalfFiltered(Listed(flags)[kind], lists[kind], Kept(Listed(flags)[kind], drop), read, write)

Pacing ==
  stage = "ready" => interval = IF flags["rate"] > 0 THEN Second \div flags["rate"] ELSE 0

StartupInvariant ==
  Inputs /\ kind \in Kinds /\ Settling /\ ListsSound /\ Filtering /\ RefusalsExact /\ Pacing

-----------------------------------------------------------------------------
(* The loop that filters a list in place.                                  *)

LEMMA FilterStart ==
  ASSUME NEW S, NEW before \in Seq(S), NEW excluded
  PROVE  HalfFiltered(before, before, Kept(before, excluded), 1, 0)
<1>1. Kept(before, excluded)[0] = <<>>
  BY KeptDefined
<1>2. PICK nil : nil = Kept(before, excluded)[0] /\ Len(nil) = 0
  BY <1>1
<1>3. 1 - 1 = 0 /\ Len(before) \in Nat
  OBVIOUS
<1> QED
  BY <1>2, <1>3 DEF HalfFiltered

\* What was kept is never longer than what was read, so a round writes
\* nothing that is still to be read.
LEMMA FilterStep ==
  ASSUME NEW S, NEW before \in Seq(S), NEW now \in Seq(S), NEW excluded, NEW r, NEW w,
         HalfFiltered(before, now, Kept(before, excluded), r, w), r <= Len(now)
  PROVE  /\ now[r] \in excluded => HalfFiltered(before, now, Kept(before, excluded), r + 1, w)
         /\ now[r] \notin excluded =>
              /\ [now EXCEPT ![w + 1] = now[r]] \in Seq(S)
              /\ HalfFiltered(before, [now EXCEPT ![w + 1] = now[r]],
                              Kept(before, excluded), r + 1, w + 1)
<1> DEFINE kept == Kept(before, excluded)
<1>1. PICK l \in Nat : l = Len(before) /\ l = Len(now)
  BY DEF HalfFiltered
<1>2. r \in 1 .. l /\ w \in 0 .. r - 1 /\ \A i \in r .. l : now[i] = before[i]
  BY <1>1 DEF HalfFiltered
<1>3. kept[r - 1] \in Seq(S)
  <2>1. r - 1 \in 0 .. Len(before)
    BY <1>1, <1>2
  <2> QED
    BY <2>1, KeptItems
<1>4. PICK k \in Seq(S) : k = kept[r - 1] /\ Len(k) = w /\ \A i \in 1 .. w : now[i] = k[i]
  BY <1>3 DEF HalfFiltered
<1>5. PICK x \in S : x = now[r] /\ x = before[r]
  BY <1>1, <1>2
<1>6. kept[r] = IF x \in excluded THEN k ELSE Append(k, x)
  <2>1. r \in 1 .. Len(before)
    BY <1>1, <1>2
  <2>2. kept[r] = IF before[r] \in excluded THEN kept[r - 1] ELSE Append(kept[r - 1], before[r])
    BY <2>1, KeptDefined
  <2> HIDE DEF kept
  <2> QED
    BY <1>4, <1>5, <2>2
<1>7. PICK n \in Nat : n = r + 1 /\ n - 1 = r /\ n \in 1 .. l + 1 /\ w \in 0 .. n - 1 /\ w + 1 \in 0 .. n - 1
  BY <1>2
<1> HIDE DEF kept
<1>8. ASSUME x \in excluded PROVE HalfFiltered(before, now, kept, n, w)
  <2>1. kept[n - 1] = k
    BY <1>6, <1>7, <1>8
  <2> QED
    BY <1>1, <1>2, <1>4, <1>7, <2>1 DEF HalfFiltered
<1>9. ASSUME x \notin excluded
      PROVE  [now EXCEPT ![w + 1] = x] \in Seq(S)
             /\ HalfFiltered(before, [now EXCEPT ![w + 1] = x], kept, n, w + 1)
  <2> DEFINE then == [now EXCEPT ![w + 1] = x]
  <2>1. w + 1 \in 1 .. l
    BY <1>2
  <2>2. then \in Seq(S) /\ Len(then) = l
    BY <1>1, <2>1
  <2>3. \A i \in 1 .. l : then[i] = IF i = w + 1 THEN x ELSE now[i]
    BY <1>1
  <2> HIDE DEF then
  <2>4. PICK m : m = kept[n - 1] /\ m = Append(k, x)
    BY <1>6, <1>7, <1>9
  <2>5. Len(m) = w + 1 /\ m[w + 1] = x /\ \A i \in 1 .. w : m[i] = k[i]
    BY <1>4, <2>4, AppendProperties
  <2>6. \A i \in n .. l : then[i] = before[i]
    BY <1>2, <1>7, <2>3
  <2>7. \A i \in 1 .. w + 1 : then[i] = m[i]
    <3> TAKE i \in 1 .. w + 1
    <3>1. CASE i = w + 1
      BY <2>1, <2>3, <2>5, <3>1
    <3>2. CASE i # w + 1
      <4>1. i \in 1 .. w /\ i \in 1 .. l
        BY <1>2, <3>2
      <4> QED
        BY <1>4, <2>3, <2>5, <3>2, <4>1
    <3> QED
      BY <3>1, <3>2
  <2>8. HalfFiltered(before, then, kept, n, w + 1)
    BY <1>1, <1>7, <2>2, <2>4, <2>5, <2>6, <2>7 DEF HalfFiltered
  <2> QED
    BY <2>2, <2>8 DEF then
<1> QED
  BY <1>5, <1>7, <1>8, <1>9 DEF kept

LEMMA FilterEnd ==
  ASSUME NEW S, NEW before \in Seq(S), NEW now \in Seq(S), NEW excluded, NEW r, NEW w,
         HalfFiltered(before, now, Kept(before, excluded), r, w), r > Len(now),
         IsInjective(before)
  PROVE  /\ SubSeq(now, 1, w) \in Seq(S)
         /\ IsInjective(SubSeq(now, 1, w))
         /\ ToSet(SubSeq(now, 1, w)) = ToSet(before) \ excluded
<1>1. PICK l \in Nat : l = Len(before) /\ l = Len(now) /\ DOMAIN before = 1 .. l
  BY DEF HalfFiltered
<1>2. r = l + 1 /\ r - 1 = l /\ w \in 0 .. l
  BY <1>1 DEF HalfFiltered
<1>3. PICK k : k = Kept(before, excluded)[l]
  OBVIOUS
<1>4. /\ k \in Seq(S) /\ IsInjective(k)
      /\ ToSet(k) = {before[i] : i \in 1 .. l} \ excluded
  <2>1. l \in 0 .. Len(before)
    BY <1>1
  <2>2. k \in Seq(S)
    BY <1>3, <2>1, KeptItems
  <2>3. IsInjective(k)
    BY <1>3, <2>1, KeptItems, Zenon
  <2>4. ToSet(k) = {before[i] : i \in 1 .. l} \ excluded
    BY <1>3, <2>1, KeptItems
  <2> QED
    BY <2>2, <2>3, <2>4
<1>5. Len(k) = w /\ \A i \in 1 .. w : now[i] = k[i]
  BY <1>2, <1>3 DEF HalfFiltered
<1>6. SubSeq(now, 1, w) = k
  <2>1. \A i \in 1 .. w : now[i] \in S
    <3> TAKE i \in 1 .. w
    <3>1. i \in 1 .. Len(now)
      BY <1>1, <1>2
    <3> QED
      BY <3>1, ElementOfSeq
  <2>2. /\ SubSeq(now, 1, w) \in Seq(S)
        /\ Len(SubSeq(now, 1, w)) = IF 1 <= w THEN w - 1 + 1 ELSE 0
        /\ \A i \in 1 .. w - 1 + 1 : SubSeq(now, 1, w)[i] = now[1 + i - 1]
    BY <1>2, <2>1, SubSeqProperties
  <2>3. w - 1 + 1 = w /\ \A i \in 1 .. w : 1 + i - 1 = i
    BY <1>2
  <2>4. Len(SubSeq(now, 1, w)) = w /\ \A i \in 1 .. w : SubSeq(now, 1, w)[i] = k[i]
    BY <1>2, <1>5, <2>2, <2>3
  <2> QED
    BY <1>4, <1>5, <2>2, <2>4, SeqEqual
<1>7. ToSet(before) = {before[i] : i \in 1 .. l}
  BY <1>1 DEF ToSet
<1> QED
  BY <1>4, <1>6, <1>7

\* What the part still to be read and the part written look like as lists.
SameFrom(now, before, r) == SubSeq(now, r, Len(now)) = SubSeq(before, r, Len(before))

LEMMA HalfFilteredLists ==
  ASSUME NEW S, NEW before \in Seq(S), NEW now \in Seq(S), NEW excluded, NEW r, NEW w,
         HalfFiltered(before, now, Kept(before, excluded), r, w)
  PROVE  /\ w < r
         /\ SameFrom(now, before, r)
         /\ SubSeq(now, 1, w) = Kept(before, excluded)[r - 1]
<1>1. PICK l \in Nat : l = Len(before) /\ l = Len(now)
  BY DEF HalfFiltered
<1>2. r \in 1 .. l + 1 /\ w \in 0 .. r - 1 /\ w \in 0 .. l /\ \A i \in r .. l : now[i] = before[i]
  BY <1>1 DEF HalfFiltered
<1>3. PICK k : k = Kept(before, excluded)[r - 1]
  OBVIOUS
<1>4. k \in Seq(S) /\ Len(k) = w /\ \A i \in 1 .. w : now[i] = k[i]
  <2>1. r - 1 \in 0 .. Len(before)
    BY <1>1, <1>2
  <2> QED
    BY <1>3, <2>1, KeptItems DEF HalfFiltered
<1>5. \A i \in 1 .. l : now[i] \in S /\ before[i] \in S
  BY <1>1, ElementOfSeq
<1>6. SubSeq(now, 1, w) = k
  <2>1. \A i \in 1 .. w : now[i] \in S
    BY <1>2, <1>5
  <2>2. /\ SubSeq(now, 1, w) \in Seq(S)
        /\ Len(SubSeq(now, 1, w)) = IF 1 <= w THEN w - 1 + 1 ELSE 0
        /\ \A i \in 1 .. w - 1 + 1 : SubSeq(now, 1, w)[i] = now[1 + i - 1]
    BY <1>2, <2>1, SubSeqProperties
  <2>3. w - 1 + 1 = w /\ \A i \in 1 .. w : 1 + i - 1 = i
    BY <1>2
  <2>4. Len(SubSeq(now, 1, w)) = w /\ \A i \in 1 .. w : SubSeq(now, 1, w)[i] = k[i]
    BY <1>2, <1>4, <2>2, <2>3
  <2> QED
    BY <1>4, <2>2, <2>4, SeqEqual
<1>7. SubSeq(now, r, l) = SubSeq(before, r, l)
  <2>1. \A i \in r .. l : now[i] \in S /\ before[i] \in S
    BY <1>2, <1>5
  <2>2. /\ SubSeq(now, r, l) \in Seq(S)
        /\ Len(SubSeq(now, r, l)) = IF r <= l THEN l - r + 1 ELSE 0
        /\ \A i \in 1 .. l - r + 1 : SubSeq(now, r, l)[i] = now[r + i - 1]
    BY <1>2, <2>1, SubSeqProperties
  <2>3. /\ SubSeq(before, r, l) \in Seq(S)
        /\ Len(SubSeq(before, r, l)) = IF r <= l THEN l - r + 1 ELSE 0
        /\ \A i \in 1 .. l - r + 1 : SubSeq(before, r, l)[i] = before[r + i - 1]
    BY <1>2, <2>1, SubSeqProperties
  <2>4. \A i \in 1 .. l - r + 1 : r + i - 1 \in r .. l
    BY <1>2
  <2>5. (IF r <= l THEN l - r + 1 ELSE 0) = l - r + 1
    BY <1>2
  <2>6. \A i \in 1 .. l - r + 1 : SubSeq(now, r, l)[i] = SubSeq(before, r, l)[i]
    BY <1>2, <2>2, <2>3, <2>4
  <2> QED
    BY <2>2, <2>3, <2>5, <2>6, SeqEqual
<1>8. SameFrom(now, before, r)
  BY <1>1, <1>7 DEF SameFrom
<1> QED
  BY <1>2, <1>3, <1>6, <1>8

-----------------------------------------------------------------------------
(* The invariant holds: what a step leaves alone, then action by action.   *)

LEMMA SameInputs ==
  ASSUME UNCHANGED inputs
  PROVE  /\ Inputs' <=> Inputs
         /\ Known' <=> Known
         /\ Workable' <=> Workable
         /\ Settings' = Settings /\ Fitted' = Fitted
<1>1. cli' = cli /\ profile' = profile /\ config' = config /\ limit' = limit /\ root' = root
  BY DEF inputs
<1>2. Inputs' <=> Inputs
  BY <1>1 DEF Inputs
<1>3. Known' <=> Known
  BY <1>1 DEF Known
<1>4. Settings' = Settings
  BY <1>1 DEF Settings
<1>5. Workable' <=> Workable
  BY <1>1, <1>4 DEF Workable, Setting, Format
<1>6. Fitted' = Fitted
  BY <1>1, <1>4 DEF Fitted, Fitting, Spare, Normalised
<1> QED
  BY <1>2, <1>3, <1>4, <1>5, <1>6

LEMMA SameFlags ==
  ASSUME UNCHANGED inputs, UNCHANGED flags
  PROVE  /\ Usable' <=> Usable
         /\ Refusable' <=> Refusable
         /\ Listed(flags)' = Listed(flags)
         /\ \A k : /\ Wanted(k)' = Wanted(k) /\ Exclusion(k)' = Exclusion(k)
                   /\ Misread(k)' <=> Misread(k)
                   /\ Unfit(k)' <=> Unfit(k)
<1>1. cli' = cli /\ profile' = profile /\ config' = config /\ flags' = flags
  BY DEF inputs
<1>2. \A o : Given(o)' <=> Given(o)
  BY <1>1 DEF Given
<1>3. Listed(flags)' = Listed(flags)
  BY <1>1 DEF Listed, HostSources, Given
<1>4. Usable' <=> Usable
  BY <1>1, <1>2, SameInputs DEF Usable
<1>5. \A k : Misread(k)' <=> Misread(k)
  BY <1>1, <1>2 DEF Misread
<1>6. \A k : Unfit(k)' <=> Unfit(k)
  BY <1>1 DEF Unfit
<1>7. \A k : Exclusion(k)' = Exclusion(k)
  BY <1>1 DEF Exclusion
<1>8. NamedHosts' = NamedHosts
  BY <1>1 DEF NamedHosts, Given
<1>9. \A k : Wanted(k)' = Wanted(k)
  BY <1>1, <1>8 DEF Wanted, NamedPorts, Spared
<1>10. Refusable' <=> Refusable
  BY <1>1, <1>2, <1>9, SameInputs DEF Refusable
<1> QED
  BY <1>3, <1>4, <1>5, <1>6, <1>7, <1>9, <1>10

LEMMA InitInvariant ==
  Init => StartupInvariant
<1> SUFFICES ASSUME Init PROVE StartupInvariant
  OBVIOUS
<1>1. Inputs
  <2>1. PICK i \in Invocations : /\ cli = i.cli /\ profile = i.profile /\ config = i.config
                                 /\ limit = i.limit /\ root = i.root
    BY DEF Init
  <2> QED
    BY <2>1, StartupAssumption DEF StartupAssumption, Inputs, Options
<1>2. stage = "settings" /\ kind = "hosts" /\ flags = Over(cli, Defaults)
  BY DEF Init
<1> QED
  BY <1>1, <1>2 DEF StartupInvariant, Kinds, Settling, ListsSound, Filtering, RefusalsExact, Pacing

LEMMA ApplySettingsStep ==
  ASSUME StartupInvariant, ApplySettings
  PROVE  StartupInvariant'
<1>1. /\ stage = "settings" /\ kind = "hosts" /\ kind' = kind /\ UNCHANGED inputs
      /\ flags' = Settle(Over(cli, Defaults)) /\ Inputs
  BY DEF StartupInvariant, ApplySettings, Settling, inputs
<1>2. Inputs' /\ (Known' <=> Known) /\ Settings' = Settings
  BY <1>1, SameInputs
<1>3. stage' = IF Unknown(profile) \/ Unknown(config) THEN "fatal" ELSE "options"
  BY DEF ApplySettings
<1>4. CASE Known
  <2>1. stage' = "options" /\ flags' = Settings
    BY <1>1, <1>3, <1>4, Settled
  <2> QED
    BY <1>1, <1>2, <1>4, <2>1
    DEF StartupInvariant, Kinds, Settling, ListsSound, Filtering, RefusalsExact, Pacing
<1>5. CASE ~Known
  <2>1. stage' = "fatal" /\ DOMAIN flags' = Options
    BY <1>1, <1>3, <1>5, Settled
  <2>2. DOMAIN cli \subseteq Options
    BY <1>1 DEF Inputs
  <2>3. Refusable'
    BY <1>1, <1>5, <2>1, <2>2 DEF Refusable, Known, inputs
  <2> QED
    BY <1>1, <1>2, <2>1, <2>3
    DEF StartupInvariant, Kinds, Settling, ListsSound, Filtering, RefusalsExact, Pacing
<1> QED
  BY <1>4, <1>5

LEMMA CheckOptionsStep ==
  ASSUME StartupInvariant, CheckOptions
  PROVE  StartupInvariant'
<1>1. /\ stage = "options" /\ kind = "hosts" /\ kind' = kind /\ UNCHANGED inputs
      /\ flags = Settings /\ Inputs /\ Known
  BY DEF StartupInvariant, CheckOptions, Settling, inputs
<1>2. flags' = Fitted
  BY <1>1 DEF CheckOptions, Fitted
<1>3. stage' = IF ~Workable THEN "fatal" ELSE "targets"
  BY <1>1, WorkableFact DEF CheckOptions
<1>4. Inputs' /\ Known' /\ (Workable' <=> Workable) /\ Fitted' = Fitted
  BY <1>1, SameInputs
<1>5. CASE Workable
  <2>1. stage' = "targets"
    BY <1>3, <1>5
  <2> QED
    BY <1>1, <1>2, <1>4, <1>5, <2>1
    DEF StartupInvariant, Kinds, Settling, ListsSound, Filtering, RefusalsExact, Pacing
<1>6. CASE ~Workable
  <2>1. stage' = "fatal" /\ Refusable'
    BY <1>3, <1>4, <1>6 DEF Refusable
  <2> QED
    BY <1>1, <1>4, <2>1
    DEF StartupInvariant, Kinds, Settling, ListsSound, Filtering, RefusalsExact, Pacing
<1> QED
  BY <1>5, <1>6

\* From here on the flags stay as they are.
LEMMA ExpandTargetsStep ==
  ASSUME StartupInvariant, ExpandTargets
  PROVE  StartupInvariant'
<1>1. /\ stage = "targets" /\ kind = "hosts" /\ kind' = kind /\ UNCHANGED inputs /\ UNCHANGED flags
      /\ lists' = Listed(flags) /\ Inputs /\ Known /\ Workable /\ flags = Fitted
  BY DEF StartupInvariant, ExpandTargets, Settling, inputs
<1>2. Usable
  BY <1>1, FittedUsable
<1>3. Inputs' /\ Known' /\ Workable' /\ flags' = Fitted'
  BY <1>1, SameInputs
<1>4. PICK l : l = Listed(flags) /\ l = lists' /\ DOMAIN l = Kinds
  BY <1>1 DEF Listed, Kinds
<1>5. stage' = IF \E k \in Kinds : l[k] = <<>> THEN "fatal" ELSE "exclude"
  BY <1>4 DEF ExpandTargets, Kinds
<1>6. ASSUME NEW k \in Kinds
      PROVE  /\ l[k] \in Seq(Universe(k))
             /\ Misread(k) => l[k] = <<>>
             /\ l[k] = <<>> => Misread(k) \/ Wanted(k) = {}
  <2>1. /\ l[k] \in Seq(Universe(k)) /\ Misread(k) => l[k] = <<>>
        /\ ~Misread(k) => ToSet(l[k]) = Sought(k)
    BY <1>2, <1>4, ListedFact
  <2>2. l[k] = <<>> => ToSet(l[k]) = {}
    BY DEF ToSet
  <2>3. Wanted(k) = Sought(k) \ Asked(k, Exclusion(k))
    BY <1>2, WantedFact
  <2>4. l[k] = <<>> /\ ~Misread(k) => Wanted(k) = {}
    BY <2>1, <2>2, <2>3
  <2>5. l[k] \in Seq(Universe(k))
    BY <1>2, <1>4, ListedFact
  <2> QED
    BY <1>2, <1>4, <2>4, <2>5, ListedFact
<1>7. CASE \E k \in Kinds : l[k] = <<>>
  <2>1. stage' = "fatal"
    BY <1>5, <1>7
  <2>2. Refusable
    BY <1>1, <1>2, <1>6, <1>7, RefusableFact
  <2>3. Refusable'
    BY <1>1, <2>2, SameFlags
  <2> QED
    BY <1>1, <1>3, <2>1, <2>3
    DEF StartupInvariant, Kinds, Settling, ListsSound, Filtering, RefusalsExact, Pacing
<1>8. CASE ~\E k \in Kinds : l[k] = <<>>
  <2>1. stage' = "exclude"
    BY <1>5, <1>8
  <2>2. \A k \in Kinds : ListSound(k)'
    <3> TAKE k \in Kinds
    <3>1. ~Misread(k)' /\ Listed(flags)' = Listed(flags)
      BY <1>1, <1>6, <1>8, SameFlags
    <3>2. l[k] \in Seq(Universe(k))
      BY <1>6
    <3> QED
      BY <1>1, <1>4, <2>1, <3>1, <3>2 DEF ListSound, Filtered, Universe
  <2>3. ListsSound'
    BY <1>4, <2>2 DEF ListsSound
  <2>4. Settling'
    BY <1>3, <2>1 DEF Settling
  <2> QED
    BY <1>1, <1>3, <2>1, <2>3, <2>4
    DEF StartupInvariant, Kinds, Filtering, RefusalsExact, Pacing
<1> QED
  BY <1>7, <1>8

\* While there are lists.
LEMMA AtLists ==
  ASSUME StartupInvariant, stage \in {"exclude", "filter", "check"},
         UNCHANGED inputs, UNCHANGED flags
  PROVE  /\ Inputs /\ Known /\ Workable /\ Usable
         /\ DOMAIN lists = Kinds /\ kind \in Kinds
         /\ \A k \in Kinds : ListSound(k)
         /\ Inputs'
         /\ stage' \notin {"settings", "options", "targets"} => Settling'
<1>1. /\ Inputs /\ Known /\ Workable /\ flags = Fitted /\ kind \in Kinds
      /\ DOMAIN lists = Kinds /\ \A k \in Kinds : ListSound(k)
  BY DEF StartupInvariant, Settling, ListsSound
<1>2. Usable
  BY <1>1, FittedUsable
<1>3. Inputs' /\ Known' /\ Workable' /\ flags' = Fitted'
  BY <1>1, SameInputs
<1>4. stage' \notin {"settings", "options", "targets"} => Settling'
  BY <1>3 DEF Settling
<1> QED
  BY <1>1, <1>2, <1>3, <1>4

\* What a list of the invariant looks like after a step that may have changed it.
LEMMA SameList ==
  ASSUME UNCHANGED inputs, UNCHANGED flags, NEW k \in Kinds
  PROVE  ListSound(k)' <=>
           /\ lists'[k] \in Seq(Universe(k)) /\ ~Misread(k)
           /\ Filtered(k)' => IsInjective(lists'[k]) /\ ToSet(lists'[k]) = Wanted(k) /\ ~Unfit(k)
           /\ ~Filtered(k)' /\ (stage' = "filter" => k # kind') => lists'[k] = Listed(flags)[k]
<1>1. (Misread(k)' <=> Misread(k)) /\ (Unfit(k)' <=> Unfit(k))
      /\ Wanted(k)' = Wanted(k) /\ Listed(flags)' = Listed(flags)
  BY SameFlags
<1> QED
  BY <1>1 DEF ListSound, Universe

\* The exclusions of one list are done.
LEMMA ListDone ==
  ASSUME StartupInvariant, stage \in {"exclude", "filter"}, UNCHANGED inputs, UNCHANGED flags,
         NextList, DOMAIN lists' = Kinds, \A k \in Kinds : k # kind => lists'[k] = lists[k],
         lists'[kind] \in Seq(Universe(kind)), IsInjective(lists'[kind]),
         ToSet(lists'[kind]) = Wanted(kind), ~Unfit(kind)
  PROVE  StartupInvariant'
<1>1. kind' = "ports" /\ stage' = IF kind = "hosts" THEN "exclude" ELSE "check"
  BY DEF NextList
<1>2. /\ kind \in Kinds /\ \A k \in Kinds : ListSound(k)
      /\ Inputs' /\ Settling'
  <2>1. stage' \notin {"settings", "options", "targets"}
    BY <1>1
  <2> QED
    BY <2>1, AtLists
<1>3. ASSUME NEW k \in Kinds PROVE ListSound(k)'
  <2>1. CASE k = kind
    <3>1. ~Misread(k)
      BY <1>2 DEF ListSound
    <3>2. Filtered(k)'
      BY <1>1, <1>2, <2>1 DEF Filtered, Kinds
    <3> QED
      BY <2>1, <3>1, <3>2, SameList
  <2>2. CASE k # kind
    <3>1. lists'[k] = lists[k] /\ ListSound(k) /\ (stage = "filter" => k # kind)
      BY <1>2, <2>2
    <3>2. Filtered(k)' <=> Filtered(k)
      BY <1>1, <1>2, <2>2 DEF Filtered, Kinds
    <3>3. lists[k] \in Seq(Universe(k)) /\ ~Misread(k)
      BY <3>1 DEF ListSound
    <3>4. Filtered(k) => IsInjective(lists[k]) /\ ToSet(lists[k]) = Wanted(k) /\ ~Unfit(k)
      BY <3>1, Zenon DEF ListSound
    <3>5. ~Filtered(k) => lists[k] = Listed(flags)[k]
      BY <2>2, <3>1 DEF ListSound
    <3> QED
      BY <3>1, <3>2, <3>3, <3>4, <3>5, SameList, Zenon
  <2> QED
    BY <2>1, <2>2
<1>4. ListsSound'
  BY <1>3 DEF ListsSound
<1>5. stage' \notin {"filter", "fatal", "ready"} /\ kind' \in Kinds
  BY <1>1 DEF Kinds
<1> QED
  BY <1>2, <1>4, <1>5 DEF StartupInvariant, Filtering, RefusalsExact, Pacing

LEMMA SkipExclusionStep ==
  ASSUME StartupInvariant, SkipExclusion
  PROVE  StartupInvariant'
<1>1. /\ stage = "exclude" /\ Exclusion(kind) = <<>> /\ NextList /\ lists' = lists
      /\ UNCHANGED inputs /\ UNCHANGED flags
  BY DEF SkipExclusion, Exclusion, inputs
<1>2. Usable /\ DOMAIN lists = Kinds /\ kind \in Kinds /\ ListSound(kind)
  BY <1>1, AtLists
<1>3. ~Unfit(kind) /\ Asked(kind, Exclusion(kind)) = {}
  BY <1>1, <1>2, ExclusionFact
<1>4. lists[kind] = Listed(flags)[kind] /\ ~Misread(kind)
  BY <1>1, <1>2 DEF ListSound, Filtered, Kinds
<1>5. /\ lists[kind] \in Seq(Universe(kind)) /\ IsInjective(lists[kind])
      /\ ToSet(lists[kind]) = Sought(kind)
  BY <1>2, <1>4, ListedFact
<1>6. ToSet(lists[kind]) = Wanted(kind)
  BY <1>2, <1>3, <1>5, WantedFact
<1> QED
  BY <1>1, <1>2, <1>3, <1>5, <1>6, ListDone

LEMMA BeginExclusionStep ==
  ASSUME StartupInvariant, BeginExclusion
  PROVE  StartupInvariant'
<1>1. /\ stage = "exclude" /\ Exclusion(kind) # <<>> /\ kind' = kind /\ lists' = lists
      /\ UNCHANGED inputs /\ UNCHANGED flags /\ read' = 1 /\ write' = 0
  BY DEF BeginExclusion, Exclusion, inputs
<1>2. PICK excluded : excluded = Expand(kind, Exclusion(kind))
  OBVIOUS
<1>3. stage' = (IF excluded = <<>> THEN "fatal" ELSE "filter") /\ drop' = ToSet(excluded)
  BY <1>2 DEF BeginExclusion, Exclusion
<1>4. /\ Usable /\ Inputs /\ Inputs' /\ DOMAIN lists = Kinds /\ kind \in Kinds
      /\ \A k \in Kinds : ListSound(k)
  BY <1>1, AtLists
<1>5. Settling'
  BY <1>1, <1>3, AtLists
<1>6. CASE excluded = <<>>
  <2>1. Unfit(kind)
    BY <1>1, <1>2, <1>4, <1>6, ExclusionFact
  <2>2. Refusable
    BY <1>4, <2>1, RefusableFact
  <2>3. Refusable' /\ stage' = "fatal"
    BY <1>1, <1>3, <1>6, <2>2, SameFlags
  <2> QED
    BY <1>1, <1>4, <1>5, <2>3 DEF StartupInvariant, ListsSound, Filtering, RefusalsExact, Pacing
<1>7. CASE excluded # <<>>
  <2>1. ~Unfit(kind) /\ drop' = Asked(kind, Exclusion(kind)) /\ stage' = "filter"
    BY <1>2, <1>3, <1>4, <1>7, ExclusionFact
  <2>2. lists[kind] = Listed(flags)[kind] /\ lists[kind] \in Seq(Universe(kind))
    BY <1>1, <1>4 DEF ListSound, Filtered, Kinds
  <2>3. PICK before : before = lists[kind] /\ before \in Seq(Universe(kind))
    BY <2>2
  <2>4. HalfFiltered(before, before, Kept(before, drop'), 1, 0)
    BY <2>3, FilterStart
  <2>5. /\ ~Unfit(kind)' /\ drop' = Asked(kind, Exclusion(kind))'
        /\ Listed(flags)' = Listed(flags)
    <3>1. Exclusion(kind)' = Exclusion(kind) /\ ~Unfit(kind)'
      BY <1>1, <2>1, SameFlags DEF Exclusion, Unfit
    <3> QED
      BY <1>1, <2>1, <3>1, SameFlags DEF Asked
  <2>6. Filtering'
    BY <1>1, <2>1, <2>2, <2>3, <2>4, <2>5 DEF Filtering
  <2>7. \A k \in Kinds : ListSound(k)'
    <3> TAKE k \in Kinds
    <3>1. ListSound(k) /\ (Filtered(k)' <=> Filtered(k))
      BY <1>1, <1>4, <2>1 DEF Filtered
    <3>2. lists'[k] = lists[k]
      BY <1>1
    <3>3. /\ lists[k] \in Seq(Universe(k)) /\ ~Misread(k)
          /\ (~Filtered(k) => lists[k] = Listed(flags)[k])
      BY <1>1, <3>1 DEF ListSound
    <3>4. Filtered(k) => IsInjective(lists[k]) /\ ToSet(lists[k]) = Wanted(k) /\ ~Unfit(k)
      BY <3>1, Zenon DEF ListSound
    <3> QED
      BY <1>1, <3>1, <3>2, <3>3, <3>4, SameList, Zenon
  <2>8. ListsSound'
    BY <1>1, <1>4, <2>7 DEF ListsSound
  <2> QED
    BY <1>1, <1>4, <1>5, <2>1, <2>6, <2>8 DEF StartupInvariant, RefusalsExact, Pacing
<1> QED
  BY <1>6, <1>7

\* While a list is being filtered.
LEMMA AtFilter ==
  ASSUME StartupInvariant, stage = "filter"
  PROVE  /\ Usable /\ kind \in Kinds /\ lists[kind] \in Seq(Universe(kind))
         /\ Listed(flags)[kind] \in Seq(Universe(kind)) /\ IsInjective(Listed(flags)[kind])
         /\ ToSet(Listed(flags)[kind]) = Sought(kind)
         /\ ~Unfit(kind) /\ drop = Asked(kind, Exclusion(kind))
         /\ HalfFiltered(Listed(flags)[kind], lists[kind], Kept(Listed(flags)[kind], drop), read, write)
<1>1. Inputs /\ Known /\ Workable /\ flags = Fitted /\ kind \in Kinds /\ ListSound(kind)
  BY DEF StartupInvariant, Settling, ListsSound
<1>2. Usable
  BY <1>1, FittedUsable
<1>3. lists[kind] \in Seq(Universe(kind)) /\ ~Misread(kind)
  BY <1>1 DEF ListSound
<1>4. /\ Listed(flags)[kind] \in Seq(Universe(kind)) /\ IsInjective(Listed(flags)[kind])
      /\ ToSet(Listed(flags)[kind]) = Sought(kind)
  BY <1>1, <1>2, <1>3, ListedFact
<1>5. /\ ~Unfit(kind) /\ drop = Asked(kind, Exclusion(kind))
      /\ HalfFiltered(Listed(flags)[kind], lists[kind], Kept(Listed(flags)[kind], drop), read, write)
  BY DEF StartupInvariant, Filtering
<1> QED
  BY <1>1, <1>2, <1>3, <1>4, <1>5

LEMMA FilterRoundStep ==
  ASSUME StartupInvariant, FilterRound
  PROVE  StartupInvariant'
<1>1. /\ stage = "filter" /\ stage' = stage /\ kind' = kind /\ drop' = drop /\ read' = read + 1
      /\ UNCHANGED inputs /\ UNCHANGED flags /\ read <= Len(lists[kind])
  BY DEF FilterRound, inputs
<1>2. /\ Inputs' /\ DOMAIN lists = Kinds /\ kind \in Kinds
      /\ \A k \in Kinds : ListSound(k)
  BY <1>1, AtLists
<1>3. Settling'
  BY <1>1, AtLists
<1>4. PICK S, before, now :
        /\ S = Universe(kind) /\ now \in Seq(S) /\ now = lists[kind]
        /\ before \in Seq(S) /\ before = Listed(flags)[kind]
        /\ HalfFiltered(before, now, Kept(before, drop), read, write)
  BY <1>1, AtFilter
<1>5. PICK then :
        /\ then \in Seq(S) /\ DOMAIN lists' = Kinds /\ then = lists'[kind]
        /\ \A k \in Kinds : k # kind => lists'[k] = lists[k]
        /\ HalfFiltered(before, then, Kept(before, drop), read + 1, write')
  <2>1. CASE now[read] \in drop
    <3>1. lists' = lists /\ write' = write
      BY <1>4, <2>1 DEF FilterRound
    <3>2. HalfFiltered(before, now, Kept(before, drop), read + 1, write)
      BY <1>1, <1>4, <2>1, FilterStep
    <3> QED
      BY <1>2, <1>4, <3>1, <3>2
  <2>2. CASE now[read] \notin drop
    <3>1. write' = write + 1 /\ lists' = [lists EXCEPT ![kind][write + 1] = lists[kind][read]]
      BY <1>4, <2>2 DEF FilterRound
    <3>2. PICK then : then = [now EXCEPT ![write + 1] = now[read]]
      OBVIOUS
    <3>3. then \in Seq(S) /\ HalfFiltered(before, then, Kept(before, drop), read + 1, write + 1)
      BY <1>1, <1>4, <2>2, <3>2, FilterStep
    <3>4. lists' = [lists EXCEPT ![kind] = then]
      BY <1>4, <3>1, <3>2
    <3> QED
      BY <1>2, <3>1, <3>3, <3>4
  <2> QED
    BY <2>1, <2>2
<1>6. Filtering'
  <2>1. /\ ~Unfit(kind)' /\ drop' = Asked(kind, Exclusion(kind))'
        /\ Listed(flags)' = Listed(flags)
    <3>1. Exclusion(kind)' = Exclusion(kind) /\ ~Unfit(kind)'
      BY <1>1, AtFilter DEF Exclusion, Unfit
    <3> QED
      BY <1>1, <3>1, AtFilter, SameFlags DEF Asked
  <2> QED
    BY <1>1, <1>4, <1>5, <2>1 DEF Filtering
<1>7. \A k \in Kinds : ListSound(k)'
  <2> TAKE k \in Kinds
  <2>1. ListSound(k) /\ (Filtered(k)' <=> Filtered(k))
    BY <1>1, <1>2 DEF Filtered
  <2>2. CASE k = kind
    <3>1. ~Filtered(k)
      BY <1>1, <1>2, <2>2 DEF Filtered, Kinds
    <3>a. ~Misread(k)
      BY <2>1 DEF ListSound
    <3> QED
      BY <1>1, <1>4, <1>5, <2>1, <2>2, <3>1, <3>a, SameList
  <2>3. CASE k # kind
    <3>1. lists'[k] = lists[k]
      BY <1>5, <2>3
    <3>2. /\ lists[k] \in Seq(Universe(k)) /\ ~Misread(k)
          /\ (~Filtered(k) => lists[k] = Listed(flags)[k])
      BY <2>1, <2>3 DEF ListSound
    <3>3. Filtered(k) => IsInjective(lists[k]) /\ ToSet(lists[k]) = Wanted(k) /\ ~Unfit(k)
      BY <2>1, Zenon DEF ListSound
    <3> QED
      BY <1>1, <2>1, <3>1, <3>2, <3>3, SameList, Zenon
  <2> QED
    BY <2>2, <2>3
<1>8. ListsSound'
  BY <1>5, <1>7 DEF ListsSound
<1> QED
  BY <1>1, <1>2, <1>3, <1>6, <1>8 DEF StartupInvariant, RefusalsExact, Pacing

LEMMA EndExclusionStep ==
  ASSUME StartupInvariant, EndExclusion
  PROVE  StartupInvariant'
<1>1. /\ stage = "filter" /\ read > Len(lists[kind]) /\ NextList
      /\ UNCHANGED inputs /\ UNCHANGED flags
      /\ lists' = [lists EXCEPT ![kind] = SubSeq(lists[kind], 1, write)]
  BY DEF EndExclusion, inputs
<1>2. DOMAIN lists = Kinds /\ kind \in Kinds
  BY <1>1, AtLists
<1>3. PICK S, before, now :
        /\ S = Universe(kind) /\ now \in Seq(S) /\ now = lists[kind]
        /\ before \in Seq(S) /\ before = Listed(flags)[kind] /\ IsInjective(before)
        /\ ToSet(before) = Sought(kind)
        /\ HalfFiltered(before, now, Kept(before, drop), read, write)
  BY <1>1, AtFilter
<1>4. PICK then : then = SubSeq(now, 1, write)
  OBVIOUS
<1>5. then \in Seq(S) /\ IsInjective(then) /\ ToSet(then) = Sought(kind) \ drop
  BY <1>1, <1>3, <1>4, FilterEnd
<1>6. ToSet(then) = Wanted(kind) /\ ~Unfit(kind)
  BY <1>1, <1>5, AtFilter, WantedFact
<1>7. DOMAIN lists' = Kinds /\ lists'[kind] = then /\ \A k \in Kinds : k # kind => lists'[k] = lists[k]
  BY <1>1, <1>2, <1>3, <1>4
<1> QED
  BY <1>1, <1>3, <1>5, <1>6, <1>7, ListDone

LEMMA CheckStep ==
  ASSUME StartupInvariant, Check
  PROVE  StartupInvariant'
<1>1. /\ stage = "check" /\ kind' = kind /\ lists' = lists
      /\ UNCHANGED inputs /\ UNCHANGED flags
      /\ interval' = IF flags["rate"] > 0 THEN Second \div flags["rate"] ELSE 0
      /\ stage' = IF lists.hosts = <<>> \/ lists.ports = <<>> THEN "fatal" ELSE "ready"
  BY DEF Check, inputs
<1>2. /\ Usable /\ Known /\ Workable /\ Inputs /\ Inputs' /\ DOMAIN lists = Kinds /\ kind \in Kinds
      /\ \A k \in Kinds : ListSound(k)
  BY <1>1, AtLists
<1>3. Settling'
  BY <1>1, AtLists
<1>4. ASSUME NEW k \in Kinds
      PROVE  /\ lists[k] \in Seq(Universe(k)) /\ ~Misread(k) /\ ~Unfit(k)
             /\ IsInjective(lists[k]) /\ ToSet(lists[k]) = Wanted(k)
             /\ lists[k] = <<>> <=> Wanted(k) = {}
  <2>1. /\ lists[k] \in Seq(Universe(k)) /\ ~Misread(k) /\ ~Unfit(k)
        /\ IsInjective(lists[k]) /\ ToSet(lists[k]) = Wanted(k)
    BY <1>1, <1>2 DEF ListSound, Filtered
  <2> QED
    BY <2>1, EmptyList
<1>5. Refusable <=> \E k \in Kinds : lists[k] = <<>>
  BY <1>2, <1>4, RefusableFact
<1>6. stage' = IF Refusable THEN "fatal" ELSE "ready"
  BY <1>1, <1>5 DEF Kinds
<1>7. RefusalsExact'
  BY <1>1, <1>6, SameFlags DEF RefusalsExact
<1>8. \A k \in Kinds : stage' = "ready" => ListSound(k)'
  BY <1>1, <1>4, SameList DEF Filtered
<1>9. ListsSound' /\ Filtering' /\ Pacing'
  BY <1>1, <1>2, <1>6, <1>8 DEF ListsSound, Filtering, Pacing
<1> QED
  BY <1>1, <1>2, <1>3, <1>7, <1>9 DEF StartupInvariant

LEMMA NextInvariant ==
  StartupInvariant /\ [Next]_vars => StartupInvariant'
<1> SUFFICES ASSUME StartupInvariant, [Next]_vars PROVE StartupInvariant'
  OBVIOUS
<1>1. CASE ApplySettings
  BY <1>1, ApplySettingsStep
<1>2. CASE CheckOptions
  BY <1>2, CheckOptionsStep
<1>3. CASE ExpandTargets
  BY <1>3, ExpandTargetsStep
<1>4. CASE SkipExclusion
  BY <1>4, SkipExclusionStep
<1>5. CASE BeginExclusion
  BY <1>5, BeginExclusionStep
<1>6. CASE FilterRound
  BY <1>6, FilterRoundStep
<1>7. CASE EndExclusion
  BY <1>7, EndExclusionStep
<1>8. CASE Check
  BY <1>8, CheckStep
<1>9. CASE Ended \/ UNCHANGED vars
  <2>1. /\ UNCHANGED inputs /\ UNCHANGED flags /\ stage' = stage /\ kind' = kind /\ lists' = lists
        /\ drop' = drop /\ read' = read /\ write' = write /\ interval' = interval
    BY <1>9 DEF Ended, vars
  <2>2. cli' = cli /\ profile' = profile /\ config' = config /\ limit' = limit /\ root' = root
    BY <2>1 DEF inputs
  <2>3. Inputs' /\ kind' \in Kinds
    BY <2>1, SameInputs DEF StartupInvariant
  <2>4. Settling'
    BY <2>1, <2>2, SameInputs DEF StartupInvariant, Settling
  <2>5. \A k : Filtered(k)' <=> Filtered(k)
    BY <2>1 DEF Filtered
  <2>6. \A k \in Kinds : ListSound(k) => ListSound(k)'
    BY <2>1, <2>5, SameFlags DEF ListSound, Universe
  <2>7. ListsSound'
    BY <2>1, <2>6 DEF StartupInvariant, ListsSound
  <2>8. Filtering'
    <3>1. Unfit(kind)' <=> Unfit(kind)
      BY <2>1 DEF Unfit
    <3>2. Asked(kind, Exclusion(kind))' = Asked(kind, Exclusion(kind))
      BY <2>1 DEF Asked, Exclusion
    <3> QED
      BY <2>1, <3>1, <3>2, SameFlags DEF StartupInvariant, Filtering
  <2>9. RefusalsExact' /\ Pacing'
    BY <2>1, SameFlags DEF StartupInvariant, RefusalsExact, Pacing
  <2> QED
    BY <2>3, <2>4, <2>7, <2>8, <2>9 DEF StartupInvariant
<1> QED
  BY <1>1, <1>2, <1>3, <1>4, <1>5, <1>6, <1>7, <1>8, <1>9 DEF Next

-----------------------------------------------------------------------------
(* The theorems.                                                           *)

\* What is true of main() at every stage of its way from flag.Parse() to the
\* list of jobs: which flags are settled, which lists are as they were expanded,
\* which are filtered, and how far the filter of the other one is.
THEOREM StartupIsInductive ==
  Spec => []StartupInvariant
<1> QED
  BY InitInvariant, NextInvariant, PTL DEF Spec

\* applyExclusions may filter a slice in place (filtered := hosts[:0]): in every
\* round what it has yet to read is as it was.
THEOREM FilterIsInPlace ==
  Spec => []FilterInPlace
<1>1. StartupInvariant => FilterInPlace
  <2> SUFFICES ASSUME StartupInvariant, stage = "filter" PROVE FilterInPlace
    BY DEF FilterInPlace
  <2>1. PICK S, before, now, excluded, r, w :
          /\ S = Universe(kind) /\ now \in Seq(S) /\ now = lists[kind]
          /\ before \in Seq(S) /\ before = Listed(flags)[kind]
          /\ excluded = drop /\ r = read /\ w = write
          /\ HalfFiltered(before, now, Kept(before, excluded), r, w)
    BY AtFilter
  <2>2. w < r
    BY <2>1, HalfFilteredLists
  <2>3. SameFrom(now, before, r)
    BY <2>1, HalfFilteredLists
  <2>4. SubSeq(now, 1, w) = Kept(before, excluded)[r - 1]
    BY <2>1, HalfFilteredLists
  <2> QED
    BY <2>1, <2>2, <2>3, <2>4 DEF FilterInPlace, SameFrom
<1> QED
  BY <1>1, StartupIsInductive, PTL

\* What scan() is given is exactly what gatherHosts, expandPorts or topPortsN
\* were asked for less what -exclude takes out, which is what it includes but
\* for the network and the broadcast address of a prefix, and each spelling of a
\* host and each port once.
THEOREM TargetsAreExact ==
  Spec => []TargetsExact
<1>1. StartupInvariant => TargetsExact
  BY DEF StartupInvariant, ListsSound, ListSound, Filtered, TargetsExact, Kinds
<1> QED
  BY <1>1, StartupIsInductive, PTL

\* main() ends with an error exactly when the user gave it a reason.
THEOREM RefusalsAreExact ==
  Spec => []RefusalsExact
<1>1. StartupInvariant => RefusalsExact
  BY DEF StartupInvariant
<1> QED
  BY <1>1, StartupIsInductive, PTL

\* applySettings, applied to the profile and then to the config file, leaves each
\* option with the value of the strongest source, and, but for checkFDLimit
\* lowering -threads, nothing main() does later
\* takes a value of the command line back: -proto is put in lower case, and
\* -format as well unless some source, even a weaker one, sets json, which wins.
THEOREM PrecedenceIsKept ==
  Spec => []Precedence
<1>1. StartupInvariant => Precedence
  <2> SUFFICES ASSUME StartupInvariant PROVE Precedence
    OBVIOUS
  <2>1. stage = "options" => flags = Settings
    BY DEF StartupInvariant, Settling
  <2>2. ASSUME stage = "ready", NEW o \in DOMAIN cli, o \notin {"threads", "proto", "format"}
        PROVE  flags[o] = cli[o]
    <3>1. Inputs /\ Known /\ flags = Fitted
      BY <2>2 DEF StartupInvariant, Settling
    <3>2. o \in Options
      BY <3>1 DEF Inputs
    <3>3. Fitted[o] = Settings[o] /\ Settings[o] = cli[o]
      BY <2>2, <3>1, <3>2, FittedFact, SettingsFact
    <3> QED
      BY <3>1, <3>3
  <2>3. ASSUME stage = "ready"
        PROVE  flags["proto"] = Lowered(Setting("proto")) /\ flags["format"] = Format
    <3>1. Inputs /\ Known /\ flags = Fitted
      BY <2>3 DEF StartupInvariant, Settling
    <3>2. PICK s : s = Settings /\ DOMAIN s = Options
      BY <3>1, SettingsFact
    <3>3. {"threads", "proto", "format"} \subseteq DOMAIN s
      BY <3>2, StartupAssumption DEF StartupAssumption, Options
    <3>4. /\ Fitted["proto"] = Lowered(s["proto"])
          /\ Fitted["format"] = IF s["json"] THEN "json" ELSE Lowered(s["format"])
      BY <3>2, <3>3 DEF Fitted, Normalised
    <3> QED
      BY <3>1, <3>2, <3>4 DEF Setting, Format
  <2> QED
    BY <2>1, <2>2, <2>3 DEF Precedence
<1> QED
  BY <1>1, StartupIsInductive, PTL

\* checkFDLimit leaves some thread, none that the descriptors do not allow, and,
\* as long as their limit fits an int, no fewer than they allow; and the interval
\* time.Tick is given is zero only without a -rate or for one above a probe per
\* nanosecond.
THEOREM LimitsAreUsable ==
  Spec => []LimitsUsable
<1>1. StartupInvariant => LimitsUsable
  <2> SUFFICES ASSUME StartupInvariant, stage = "ready" PROVE LimitsUsable
    BY DEF LimitsUsable
  <2>1. Inputs /\ Known /\ Workable /\ flags = Fitted
        /\ interval = IF flags["rate"] > 0 THEN Second \div flags["rate"] ELSE 0
    BY DEF StartupInvariant, Settling, Pacing
  <2>2. Margin \in Nat /\ Second \in Nat \ {0} /\ "threads" \in Options /\ "rate" \in Options
    BY StartupAssumption DEF StartupAssumption, Options
  <2>3. PICK t \in Int : t = Setting("threads") /\ t = Settings["threads"]
    BY <2>1, <2>2, SettingsFact DEF Setting, Parsed
  <2>4. flags["threads"] = Fitting(t)
    BY <2>1, <2>3, FittedFact
  <2>5. limit \in Nat \/ limit = NoLimit
    BY <2>1 DEF Inputs
  <2>6. PICK r \in Nat : r = Setting("rate") /\ interval = IF r > 0 THEN Second \div r ELSE 0
    <3>1. Usable
      BY <2>1, FittedUsable
    <3> QED
      BY <2>1, <3>1 DEF Usable, Setting
  <2>7. /\ t >= 1 => /\ Fitting(t) \in 1 .. t
                     /\ limit = NoLimit => Fitting(t) = t
                     /\ limit # NoLimit /\ Fitting(t) > 1 => Fitting(t) + Margin <= limit
                     /\ Fitting(t) < t /\ limit < Word \div 2 =>
                          Fitting(t) = 1 \/ Fitting(t) + Margin = limit
        /\ t < 1 => Fitting(t) = t
    <3>1. CASE limit = NoLimit
      BY <3>1 DEF Fitting
    <3>2. CASE limit # NoLimit
      <4>1. PICK left \in Int :
              left = Spare /\ (left >= 1 => left + Margin <= limit)
                           /\ (limit < Word \div 2 => left + Margin = limit)
        BY <2>5, <3>2, SpareFact
      <4>2. PICK safe \in Int : safe = (IF left < 1 THEN 1 ELSE left)
        OBVIOUS
      <4>3. Fitting(t) = IF t > safe THEN safe ELSE t
        <5>1. left = Spare
          BY <4>1
        <5> QED
          BY <3>2, <4>2, <5>1 DEF Fitting
      <4> QED
        BY <2>2, <2>5, <3>2, <4>1, <4>2, <4>3
    <3> QED
      BY <3>1, <3>2
  <2>8. (interval = 0 <=> r \notin 1 .. Second) /\ (interval > 0 => interval * r <= Second)
    <3>1. CASE r = 0
      BY <2>6, <3>1
    <3>2. CASE r > 0
      <4>1. PICK d \in Nat, e \in Nat : d = Second \div r /\ e < r /\ Second = r * d + e
        BY <2>2, <3>2, Division
      <4>2. interval = d
        BY <2>6, <3>2, <4>1
      <4>3. d >= 1 => r * d >= r
        BY <3>2, Multiple
      <4>4. d = 0 => r * d = 0
        OBVIOUS
      <4>5. d = 0 <=> r > Second
        BY <3>2, <4>1, <4>3, <4>4
      <4>6. r * d <= Second /\ d * r = r * d
        BY <4>1
      <4> QED
        BY <2>2, <3>2, <4>2, <4>5, <4>6
    <3> QED
      BY <3>1, <3>2
  <2> QED
    BY <2>3, <2>4, <2>6, <2>7, <2>8 DEF LimitsUsable
<1> QED
  BY <1>1, StartupIsInductive, PTL
=============================================================================
