------------------------- MODULE ReportOutput_proofs -------------------------
(***************************************************************************)
(* From the end of the scan to the -o file, for every list of lines, every *)
(* format, every number of hosts and of lookup workers: a name stays with  *)
(* its host and none is forgotten (NamesExact), the file is the report, in *)
(* its order (OutputExact), and lines are lost in silence by text and grep *)
(* only (LossAnnounced).  The invariant follows each name through the      *)
(* goroutines of resolveRDNS, whose steps are LookUp here, and says which  *)
(* elements of the document the file holds.                                *)
(***************************************************************************)
EXTENDS ReportOutput, FiniteSetTheorems, TLAPS

\* resolveRDNS: the types of its variables.
DNSType ==
  /\ DOMAIN uniq \subseteq Hosts /\ uniq \in [DOMAIN uniq -> Hosts \cup {NoName}]
  /\ yielded \subseteq DOMAIN uniq
  /\ offered \in DOMAIN uniq \cup {NoHost}
  /\ pc \in [Workers -> {"receive", "lookup", "send", "exit"}]
  /\ host \in [Workers -> Hosts \cup {NoHost}]
  /\ name \in [Workers -> Hosts \cup {NoName}]
  /\ mpc \in {"receive", "store", "done"}
  /\ rdns \in [Hosts -> Hosts \cup {NoName}]
  /\ mpc = "store" => kv[2] \in Hosts \cup {NoName}

\* The feeder closes its channel when every host was handed out, the workers
\* leave after that, and the second channel is closed when they have left.
ClosingOrder ==
  /\ inClosed => yielded = DOMAIN uniq /\ offered = NoHost
  /\ mpc # "done" => inClosed \/ \E w \in Workers : pc[w] # "exit"
  /\ outClosed => \A w \in Workers : pc[w] = "exit"

\* A name stays with its host on the way from the resolver to the field, and
\* is only missing where there is none or the lookup was cancelled.
RightName(h, n) == n \in {NoName, h} /\ (~cancelled /\ h \in Named => n = h)

RightNames ==
  /\ \A w \in Workers : pc[w] = "send" => RightName(host[w], name[w])
  /\ mpc = "store" => RightName(kv[1], kv[2])
  /\ \A h \in DOMAIN uniq : uniq[h] \in {NoName, h}
  /\ \A h \in Hosts : rdns[h] \in {NoName, h}

\* The name of h is still to come, or there.
Underway(h) ==
  \/ h \notin yielded
  \/ offered = h
  \/ \E w \in Workers : pc[w] \in {"lookup", "send"} /\ host[w] = h
  \/ mpc = "store" /\ kv[1] = h
  \/ uniq[h] = h

NoneForgotten ==
  ~cancelled => \A h \in Named \cap DOMAIN uniq :
                  IF mpc = "done" THEN rdns[h] = h ELSE Underway(h)

DNSInv == DNSType /\ ClosingOrder /\ RightNames /\ NoneForgotten

\* main: its list is one of lines that differ, and sorted before it is written.
ListOK ==
  /\ \E n \in Nat : found \in [1 .. n -> Range(found)]
  /\ \A i \in DOMAIN found : found[i].host \in Hosts /\ found[i].port \in Nat
  /\ IsInjective(found)
  /\ DOMAIN uniq = HostsOf(found)

Sorted ==
  phase \in {"write", "summary", "saved", "done", "exit 1"} =>
    \A i, k \in DOMAIN found : i < k => ~Before(found[k], found[i])

\* Where main is in the end, resolveRDNS has returned.
NamesIn ==
  byName /\ phase \in {"sort", "write", "summary", "saved", "done", "exit 1"} => mpc = "done"

\* What the file holds, and what a failed write has led to.
Output ==
  /\ failed \subseteq {"write", "close"}
  /\ "write" \in failed => Reported /\ (phase # "exit 1" => format \in Listed)
  /\ "close" \in failed => phase = "done"
  /\ Reported => \E keys \in SUBSET DOMAIN Document :
       sink = Restrict(Document, keys) /\ (failed = {} => keys = DOMAIN Document)

OutputInv == DNSInv /\ ListOK /\ Sorted /\ NamesIn /\ Output

-----------------------------------------------------------------------------
(* resolveRDNS                                                             *)

\* A step of main's around resolveRDNS leaves its variables alone.
LEMMA StepKinds ==
  ASSUME [Next]_vars
  PROVE  \/ Create \/ NobodyAlive \/ ScanEnds \/ NamesDone
         \/ /\ phase = "names" /\ UNCHANGED <<options, phase, found, sink, failed>>
            /\ DNS!ProgramStep \/ DNS!Cancel
         \/ SortLines \/ WriteDocument \/ PrintLines \/ Summary \/ Close
         \/ UNCHANGED vars
BY DEF Next, ProgramStep, LookUp, Ended

LEMMA DNSStepKinds ==
  ASSUME DNS!ProgramStep \/ DNS!Cancel
  PROVE  \/ DNS!Iterate \/ DNS!Collide \/ DNS!CloseIn \/ DNS!CloseOut \/ DNS!EndStore \/ DNS!Fill
         \/ \E w \in Workers : DNS!HandOff(w) \/ DNS!Lookup(w) \/ DNS!Leave(w) \/ DNS!BeginStore(w)
         \/ DNS!Cancel
BY DEF DNS!ProgramStep

USE DEF DNS!feeder, DNS!workers, DNS!main, DNS!Keys

\* An instance has its own copies of these two operators.
LEMMA SameFiniteSets ==
  ASSUME NEW S
  PROVE  DNS!IsFiniteSet(S) = IsFiniteSet(S) /\ DNS!Cardinality(S) = Cardinality(S)
<1>1. DNS!IsFiniteSet(S) = IsFiniteSet(S)
  BY Zenon DEF DNS!IsFiniteSet, IsFiniteSet
<1>2. DNS!Cardinality(S) = Cardinality(S)
  BY Zenon DEF DNS!Cardinality, Cardinality
<1> QED
  BY <1>1, <1>2

LEMMA DNSInit == DNS!Init => DNSInv
<1> SUFFICES ASSUME DNS!Init PROVE DNSInv
  OBVIOUS
<1>0. IsFiniteSet(Hosts) /\ IsFiniteSet(Workers) /\ Workers # {}
  <2>1. DNS!IsFiniteSet(Hosts) /\ DNS!IsFiniteSet(Workers) /\ Workers # {}
    BY NamesAssumption DEF DNS!RDNSAssumption
  <2> QED
    BY <2>1, SameFiniteSets
<1>1. PICK keys \in SUBSET Hosts : uniq = [h \in keys |-> NoName]
  BY DEF DNS!Init
<1>2. DOMAIN uniq = keys
  BY <1>1
<1>3. PICK started \in SUBSET Workers :
        /\ Cardinality(started) = DNS!MinOf(Cardinality(Workers), Cardinality(DOMAIN uniq))
        /\ pc = [w \in Workers |-> IF w \in started THEN "receive" ELSE "exit"]
  <2>1. PICK started \in SUBSET Workers :
          /\ DNS!Cardinality(started)
               = DNS!MinOf(DNS!Cardinality(Workers), DNS!Cardinality(DOMAIN uniq))
          /\ pc = [w \in Workers |-> IF w \in started THEN "receive" ELSE "exit"]
    BY Zenon DEF DNS!Init
  <2> QED
    BY <2>1, SameFiniteSets
<1>4. /\ yielded = {} /\ offered = NoHost /\ inClosed = FALSE
      /\ host = [w \in Workers |-> NoHost] /\ name = [w \in Workers |-> NoName]
      /\ outClosed = FALSE /\ mpc = (IF keys = {} THEN "done" ELSE "receive")
      /\ rdns = [h \in Hosts |-> NoName]
  BY <1>2 DEF DNS!Init
<1>5. DNSType
  BY <1>1, <1>2, <1>3, <1>4 DEF DNSType
<1>6. ASSUME keys # {} PROVE \E w \in Workers : pc[w] # "exit"
  <2>1. IsFiniteSet(keys) /\ IsFiniteSet(started)
    BY <1>0, FS_Subset
  <2>2. Cardinality(keys) \in Nat /\ Cardinality(Workers) \in Nat
        /\ Cardinality(keys) # 0 /\ Cardinality(Workers) # 0
    BY <1>0, <1>6, <2>1, FS_CardinalityType, FS_EmptySet
  <2>3. Cardinality(started) # 0
    BY <1>2, <1>3, <2>2 DEF DNS!MinOf
  <2>4. started # {}
    BY <2>3, FS_EmptySet
  <2> QED
    BY <1>3, <2>4
<1>7. ClosingOrder
  BY <1>4, <1>6 DEF ClosingOrder
<1>8. RightNames
  BY <1>1, <1>3, <1>4 DEF RightNames
<1>9. NoneForgotten
  BY <1>2, <1>4 DEF NoneForgotten, Underway
<1> QED
  BY <1>5, <1>7, <1>8, <1>9 DEF DNSInv

LEMMA DNSTypeStep == DNSType /\ (DNS!ProgramStep \/ DNS!Cancel) => DNSType'
<1> SUFFICES ASSUME DNSType, DNS!ProgramStep \/ DNS!Cancel PROVE DNSType'
  OBVIOUS
<1> USE DEF DNSType
<1>1. CASE DNS!Iterate
  BY <1>1 DEF DNS!Iterate
<1>2. CASE DNS!Collide
  BY <1>2 DEF DNS!Collide
<1>3. CASE DNS!CloseIn
  BY <1>3 DEF DNS!CloseIn
<1>4. CASE DNS!CloseOut
  BY <1>4 DEF DNS!CloseOut
<1>5. CASE DNS!EndStore
  <2>1. /\ uniq' = [uniq EXCEPT ![kv[1]] = kv[2]] /\ mpc = "store" /\ mpc' = "receive"
        /\ UNCHANGED <<yielded, offered, pc, host, name, rdns>>
    BY <1>5 DEF DNS!EndStore
  <2>2. DOMAIN uniq' = DOMAIN uniq /\ uniq' \in [DOMAIN uniq -> Hosts \cup {NoName}]
    BY <2>1
  <2> QED
    BY <2>1, <2>2
<1>6. CASE DNS!Fill
  <2>1. /\ rdns' = [h \in Hosts |-> IF h \in DOMAIN uniq THEN uniq[h] ELSE NoName]
        /\ mpc' = "done" /\ UNCHANGED <<uniq, yielded, offered, pc, host, name>>
    BY <1>6 DEF DNS!Fill
  <2> QED
    BY <2>1
<1>7. ASSUME NEW w \in Workers, DNS!HandOff(w) PROVE DNSType'
  BY <1>7 DEF DNS!HandOff
<1>8. ASSUME NEW w \in Workers, DNS!Lookup(w) PROVE DNSType'
  BY <1>8, NamesAssumption DEF DNS!Lookup, DNS!RDNSAssumption
<1>9. ASSUME NEW w \in Workers, DNS!Leave(w) PROVE DNSType'
  BY <1>9 DEF DNS!Leave
<1>10. ASSUME NEW w \in Workers, DNS!BeginStore(w) PROVE DNSType'
  BY <1>10 DEF DNS!BeginStore
<1>11. CASE DNS!Cancel
  BY <1>11 DEF DNS!Cancel
<1> QED
  BY <1>1, <1>2, <1>3, <1>4, <1>5, <1>6, <1>7, <1>8, <1>9, <1>10, <1>11, DNSStepKinds

LEMMA ClosingStep == DNSType /\ ClosingOrder /\ (DNS!ProgramStep \/ DNS!Cancel) => ClosingOrder'
<1> SUFFICES ASSUME DNSType, ClosingOrder, DNS!ProgramStep \/ DNS!Cancel PROVE ClosingOrder'
  OBVIOUS
<1> USE DEF ClosingOrder
<1>0. NoHost \notin DOMAIN uniq
  BY NamesAssumption DEF DNS!RDNSAssumption, DNSType
<1>1. CASE DNS!Iterate
  BY <1>1 DEF DNS!Iterate
<1>2. CASE DNS!Collide \/ DNS!Cancel
  BY <1>2 DEF DNS!Collide, DNS!Cancel
<1>3. CASE DNS!CloseIn
  BY <1>3 DEF DNS!CloseIn
<1>4. CASE DNS!CloseOut
  BY <1>4 DEF DNS!CloseOut
<1>5. CASE DNS!EndStore
  <2>1. DOMAIN uniq' = DOMAIN uniq
    BY <1>5 DEF DNS!EndStore, DNSType
  <2> QED
    BY <1>5, <2>1 DEF DNS!EndStore
<1>6. CASE DNS!Fill
  BY <1>6 DEF DNS!Fill
<1>7. ASSUME NEW w \in Workers, DNS!HandOff(w) PROVE ClosingOrder'
  BY <1>7 DEF DNS!HandOff, DNSType
<1>8. ASSUME NEW w \in Workers, DNS!Lookup(w) PROVE ClosingOrder'
  BY <1>8 DEF DNS!Lookup, DNSType
<1>9. ASSUME NEW w \in Workers, DNS!Leave(w) PROVE ClosingOrder'
  BY <1>9 DEF DNS!Leave, DNSType
<1>10. ASSUME NEW w \in Workers, DNS!BeginStore(w) PROVE ClosingOrder'
  BY <1>10 DEF DNS!BeginStore, DNSType
<1> QED
  BY <1>1, <1>2, <1>3, <1>4, <1>5, <1>6, <1>7, <1>8, <1>9, <1>10, DNSStepKinds

LEMMA NamesStep == DNSType /\ RightNames /\ (DNS!ProgramStep \/ DNS!Cancel) => RightNames'
<1> SUFFICES ASSUME DNSType, RightNames, DNS!ProgramStep \/ DNS!Cancel PROVE RightNames'
  OBVIOUS
<1> USE DEF RightNames, RightName
<1>1. CASE DNS!Iterate \/ DNS!Collide \/ DNS!CloseIn \/ DNS!CloseOut
  BY <1>1 DEF DNS!Iterate, DNS!Collide, DNS!CloseIn, DNS!CloseOut
<1>2. CASE DNS!Cancel
  BY <1>2 DEF DNS!Cancel
<1>3. CASE DNS!EndStore
  <2>1. DOMAIN uniq' = DOMAIN uniq
    BY <1>3 DEF DNS!EndStore, DNSType
  <2>2. \A h \in DOMAIN uniq : uniq'[h] = IF h = kv[1] THEN kv[2] ELSE uniq[h]
    BY <1>3 DEF DNS!EndStore, DNSType
  <2> QED
    BY <1>3, <2>1, <2>2 DEF DNS!EndStore
<1>4. CASE DNS!Fill
  BY <1>4 DEF DNS!Fill
<1>5. ASSUME NEW w \in Workers, DNS!HandOff(w) PROVE RightNames'
  BY <1>5 DEF DNS!HandOff, DNSType
<1>6. ASSUME NEW w \in Workers, DNS!Lookup(w) PROVE RightNames'
  BY <1>6 DEF DNS!Lookup, DNSType
<1>7. ASSUME NEW w \in Workers, DNS!Leave(w) PROVE RightNames'
  BY <1>7 DEF DNS!Leave, DNSType
<1>8. ASSUME NEW w \in Workers, DNS!BeginStore(w) PROVE RightNames'
  <2>1. kv'[1] = host[w] /\ kv'[2] = name[w] /\ pc[w] = "send"
    BY <1>8 DEF DNS!BeginStore
  <2> QED
    BY <1>8, <2>1 DEF DNS!BeginStore, DNSType
<1> QED
  BY <1>1, <1>2, <1>3, <1>4, <1>5, <1>6, <1>7, <1>8, DNSStepKinds

\* A host goes from the feeder to a worker, to main and into the map.
LEMMA ForgottenStep ==
  ASSUME DNSInv, DNS!ProgramStep \/ DNS!Cancel
  PROVE  NoneForgotten'
<1> USE DEF DNSInv
<1>0. DOMAIN uniq' = DOMAIN uniq
  <2>1. CASE DNS!EndStore
    BY <2>1 DEF DNS!EndStore, DNSType
  <2>2. uniq' = uniq \/ DNS!EndStore
    BY DNSStepKinds DEF DNS!Iterate, DNS!Collide, DNS!CloseIn, DNS!CloseOut, DNS!Fill,
                        DNS!HandOff, DNS!Lookup, DNS!Leave, DNS!BeginStore, DNS!Cancel
  <2> QED
    BY <2>1, <2>2
<1>1. CASE DNS!Cancel
  BY <1>1 DEF DNS!Cancel, NoneForgotten
<1>2. CASE mpc = "done"
  <2>1. UNCHANGED <<rdns, mpc>> /\ (~cancelled' => ~cancelled)
    BY <1>2 DEF DNS!ProgramStep, DNS!Stopped, DNS!Cancel
  <2> QED
    BY <1>0, <1>2, <2>1 DEF NoneForgotten
<1>3. ASSUME mpc # "done", ~cancelled, cancelled' = cancelled,
             NEW h \in Named \cap DOMAIN uniq, Underway(h)
      PROVE  IF mpc' = "done" THEN rdns'[h] = h ELSE Underway(h)'
  <2> USE <1>3 DEF Underway, DNSType
  <2>1. CASE DNS!Iterate
    <3>1. PICK k : /\ offered' = k /\ yielded' = yielded \cup {k} /\ offered = NoHost
                   /\ UNCHANGED <<pc, host, mpc, kv, uniq>>
      BY <2>1 DEF DNS!Iterate
    <3>2. h # NoHost
      BY NamesAssumption DEF DNS!RDNSAssumption
    <3> QED
      BY <3>1, <3>2
  <2>2. CASE DNS!Collide \/ DNS!CloseIn \/ DNS!CloseOut
    BY <2>2 DEF DNS!Collide, DNS!CloseIn, DNS!CloseOut
  <2>3. CASE DNS!EndStore
    <3>1. uniq'[h] = IF h = kv[1] THEN kv[2] ELSE uniq[h]
      BY <2>3 DEF DNS!EndStore
    <3>2. h = kv[1] => kv[2] = h
      BY <2>3 DEF DNS!EndStore, RightNames, RightName
    <3> QED
      BY <2>3, <3>1, <3>2 DEF DNS!EndStore
  <2>4. CASE DNS!Fill
    <3>1. /\ \A w \in Workers : pc[w] = "exit"
          /\ yielded = DOMAIN uniq /\ offered = NoHost /\ mpc = "receive"
      BY <2>4 DEF DNS!Fill, ClosingOrder
    <3>2. uniq[h] = h
      BY <3>1, NamesAssumption DEF DNS!RDNSAssumption
    <3> QED
      BY <2>4, <3>2 DEF DNS!Fill
  <2>5. ASSUME NEW w \in Workers, DNS!HandOff(w) PROVE Underway(h)' /\ mpc' # "done"
    <3>1. /\ pc' = [pc EXCEPT ![w] = "lookup"] /\ host' = [host EXCEPT ![w] = offered]
          /\ pc[w] = "receive" /\ UNCHANGED <<yielded, uniq, mpc, kv>>
      BY <2>5 DEF DNS!HandOff
    <3>2. CASE offered = h
      BY <3>1, <3>2
    <3>3. ASSUME NEW v \in Workers, pc[v] \in {"lookup", "send"}, host[v] = h
          PROVE  Underway(h)'
      BY <3>1, <3>3
    <3>4. CASE h \notin yielded \/ (mpc = "store" /\ kv[1] = h) \/ uniq[h] = h
      BY <3>1, <3>4
    <3> QED
      BY <3>1, <3>2, <3>3, <3>4
  <2>6. ASSUME NEW w \in Workers, DNS!Lookup(w) \/ DNS!Leave(w)
        PROVE  Underway(h)' /\ mpc' # "done"
    <3>1. /\ \A v \in Workers : pc[v] \in {"lookup", "send"} => pc'[v] \in {"lookup", "send"}
          /\ UNCHANGED <<yielded, offered, host, uniq, mpc, kv>>
      BY <2>6 DEF DNS!Lookup, DNS!Leave
    <3> QED
      BY <3>1
  <2>7. ASSUME NEW w \in Workers, DNS!BeginStore(w) PROVE Underway(h)' /\ mpc' # "done"
    <3>1. /\ pc' = [pc EXCEPT ![w] = "receive"] /\ kv' = <<host[w], name[w]>>
          /\ mpc = "receive" /\ mpc' = "store"
          /\ UNCHANGED <<yielded, offered, host, uniq>>
      BY <2>7 DEF DNS!BeginStore
    <3>2. kv'[1] = host[w]
      BY <3>1
    <3>3. ASSUME NEW v \in Workers, pc[v] \in {"lookup", "send"}, host[v] = h
          PROVE  Underway(h)'
      BY <3>1, <3>2, <3>3
    <3>4. CASE h \notin yielded \/ offered = h \/ uniq[h] = h
      BY <3>1, <3>4
    <3> QED
      BY <3>1, <3>3, <3>4
  <2>8. CASE DNS!Cancel
    BY <2>8 DEF DNS!Cancel
  <2> QED
    BY <2>1, <2>2, <2>3, <2>4, <2>5, <2>6, <2>7, <2>8, DNSStepKinds
<1>4. CASE mpc # "done" /\ cancelled' = cancelled
  BY <1>0, <1>3, <1>4 DEF NoneForgotten
<1>5. cancelled' = cancelled \/ DNS!Cancel
  BY DNSStepKinds DEF DNS!Iterate, DNS!Collide, DNS!CloseIn, DNS!CloseOut, DNS!Fill, DNS!EndStore,
                      DNS!HandOff, DNS!Lookup, DNS!Leave, DNS!BeginStore
<1> QED
  BY <1>1, <1>2, <1>4, <1>5

LEMMA DNSStep == DNSInv /\ (DNS!ProgramStep \/ DNS!Cancel) => DNSInv'
BY DNSTypeStep, ClosingStep, NamesStep, ForgottenStep DEF DNSInv

LEMMA DNSStays == DNSInv /\ UNCHANGED dnsVars => DNSInv'
BY DEF DNSInv, dnsVars, DNSType, ClosingOrder, RightNames, RightName, NoneForgotten, Underway

-----------------------------------------------------------------------------
(* main                                                                    *)

\* What the other steps leave alone.
LEMMA MainKinds ==
  ASSUME [Next]_vars
  PROVE  /\ UNCHANGED options
         /\ \/ UNCHANGED dnsVars
            \/ /\ phase = "names" /\ UNCHANGED <<phase, found, sink, failed>>
               /\ DNS!ProgramStep \/ DNS!Cancel
<1>1. CASE Create \/ NobodyAlive \/ ScanEnds \/ NamesDone \/ SortLines
  BY <1>1 DEF Create, NobodyAlive, ScanEnds, NamesDone, SortLines
<1>2. CASE WriteDocument \/ PrintLines \/ Summary \/ Close
  BY <1>2 DEF WriteDocument, PrintLines, Summary, Close
<1>3. CASE UNCHANGED vars
  BY <1>3 DEF vars
<1> QED
  BY <1>1, <1>2, <1>3, StepKinds

\* The hosts of the map never change.
LEMMA KeysStay ==
  ASSUME DNSType, [Next]_vars
  PROVE  DOMAIN uniq' = DOMAIN uniq
<1>1. CASE UNCHANGED dnsVars
  BY <1>1 DEF dnsVars
<1>2. CASE DNS!EndStore
  BY <1>2 DEF DNS!EndStore, DNSType
<1>3. CASE (DNS!ProgramStep \/ DNS!Cancel) /\ ~DNS!EndStore
  <2>1. uniq' = uniq
    BY <1>3, DNSStepKinds DEF DNS!Iterate, DNS!Collide, DNS!CloseIn, DNS!CloseOut, DNS!Fill,
                        DNS!HandOff, DNS!Lookup, DNS!Leave, DNS!BeginStore, DNS!Cancel
  <2> QED
    BY <2>1
<1> QED
  BY <1>1, <1>2, <1>3, MainKinds

\* Sorting keeps the lines, and keeps them different.
LEMMA SortKeeps ==
  ASSUME ListOK, NEW s \in SortedFrom(found)
  PROVE  /\ DOMAIN s = DOMAIN found
         /\ Range(s) = Range(found)
         /\ IsInjective(s)
         /\ \A i \in DOMAIN s : s[i].host \in Hosts /\ s[i].port \in Nat
         /\ HostsOf(s) = HostsOf(found)
<1> DEFINE D == DOMAIN found
           R == Range(found)
<1>0. PICK n \in Nat : found \in [1 .. n -> R]
  BY DEF ListOK
<1>1. s \in [D -> R] /\ Range(s) = R
  BY DEF SortedFrom
<1>2. DOMAIN s = D
  BY <1>1
<1>3. IsFiniteSet(D)
  <2>1. D = 1 .. n
    BY <1>0
  <2> QED
    BY <2>1, FS_Interval
<1>4. found \in Bijection(D, R)
  <2>1. found \in [D -> R]
    BY <1>0
  <2>2. found \in Injection(D, R)
    BY <2>1 DEF ListOK, Injection, IsInjective
  <2>3. found \in Surjection(D, R)
    BY <2>1 DEF Surjection, Range
  <2> QED
    BY <2>2, <2>3 DEF Bijection
<1>5. ExistsBijection(D, R)
  BY <1>4 DEF ExistsBijection
<1>6. s \in Surjection(D, R)
  BY <1>1 DEF Surjection, Range
<1> HIDE DEF D, R
<1>7. Cardinality(R) = Cardinality(D)
  BY <1>3, <1>5, FS_Bijection
<1>8. s \in Injection(D, R)
  BY <1>3, <1>6, <1>7, FS_Surjection
<1>9. IsInjective(s)
  BY <1>8 DEF Injection
<1>10. \A i \in DOMAIN s : \E k \in DOMAIN found : s[i] = found[k]
  BY <1>1, <1>2 DEF D, R, Range
<1>11. \A k \in DOMAIN found : \E i \in DOMAIN s : s[i] = found[k]
  BY <1>1 DEF R, Range
<1>12. \A i \in DOMAIN s : s[i].host \in Hosts /\ s[i].port \in Nat
  BY <1>10 DEF ListOK
<1>13. HostsOf(s) = HostsOf(found)
  BY <1>10, <1>11 DEF HostsOf
<1> QED
  BY <1>1, <1>2, <1>9, <1>12, <1>13 DEF D, R

LEMMA ListStep == DNSType /\ ListOK /\ [Next]_vars => ListOK'
<1> SUFFICES ASSUME DNSType, ListOK, [Next]_vars PROVE ListOK'
  OBVIOUS
<1>1. DOMAIN uniq' = DOMAIN uniq
  BY KeysStay
<1>2. CASE found' = found
  BY <1>1, <1>2 DEF ListOK, HostsOf, IsInjective, Range
<1>3. CASE SortLines
  <2>1. PICK s \in SortedFrom(found) : found' = s
    BY <1>3 DEF SortLines
  <2>2. /\ DOMAIN s = DOMAIN found /\ Range(s) = Range(found) /\ IsInjective(s)
        /\ \A i \in DOMAIN s : s[i].host \in Hosts /\ s[i].port \in Nat
        /\ HostsOf(s) = HostsOf(found)
    BY SortKeeps
  <2>3. PICK n \in Nat : found \in [1 .. n -> Range(found)]
    BY DEF ListOK
  <2>4. s \in [1 .. n -> Range(s)]
    BY <2>2, <2>3 DEF SortedFrom
  <2>5. /\ DOMAIN uniq' = HostsOf(s)
        /\ \A i \in DOMAIN s : s[i].host \in Hosts /\ s[i].port \in Nat
        /\ IsInjective(s)
    BY <1>1, <2>2 DEF ListOK
  <2> QED
    BY <2>1, <2>4, <2>5 DEF ListOK
<1>4. found' = found \/ SortLines
  BY StepKinds DEF Create, NobodyAlive, ScanEnds, NamesDone, WriteDocument, PrintLines, Summary, Close, vars
<1> QED
  BY <1>2, <1>3, <1>4

LEMMA SortedStep == Sorted /\ [Next]_vars => Sorted'
<1> SUFFICES ASSUME Sorted, [Next]_vars PROVE Sorted'
  OBVIOUS
<1>1. CASE SortLines
  <2>1. found' \in SortedFrom(found)
    BY <1>1 DEF SortLines
  <2>2. \A i, k \in DOMAIN found' : i < k => ~Before(found'[k], found'[i])
    BY <2>1 DEF SortedFrom
  <2> QED
    BY <2>2 DEF Sorted, Before
<1>2. CASE Create \/ NobodyAlive \/ ScanEnds \/ NamesDone
  BY <1>2 DEF Create, NobodyAlive, ScanEnds, NamesDone, Sorted
<1>3. CASE WriteDocument \/ PrintLines \/ Summary \/ Close \/ UNCHANGED vars
  BY <1>3 DEF WriteDocument, PrintLines, Summary, Close, vars, Sorted, Before
<1>4. CASE UNCHANGED <<phase, found>>
  BY <1>4 DEF Sorted, Before
<1> QED
  BY <1>1, <1>2, <1>3, <1>4, StepKinds

LEMMA NamesInStep == NamesIn /\ [Next]_vars => NamesIn'
<1> SUFFICES ASSUME NamesIn, [Next]_vars PROVE NamesIn'
  OBVIOUS
<1>1. CASE Create \/ NobodyAlive \/ ScanEnds \/ NamesDone \/ SortLines
  BY <1>1 DEF Create, NobodyAlive, ScanEnds, NamesDone, SortLines, NamesIn, dnsVars, options
<1>2. CASE WriteDocument \/ PrintLines \/ Summary \/ Close \/ UNCHANGED vars
  BY <1>2 DEF WriteDocument, PrintLines, Summary, Close, NamesIn, dnsVars, options, vars
<1>3. CASE phase = "names" /\ phase' = phase
  BY <1>3 DEF NamesIn
<1> QED
  BY <1>1, <1>2, <1>3, StepKinds

-----------------------------------------------------------------------------
(* The document                                                            *)

LEMMA Numbers ==
  /\ Nat \subseteq Int
  /\ \A n \in Nat : 1 .. n \subseteq Int
  /\ \A a, b \in Int : (a < b => a # b /\ ~(b <= a)) /\ (~(b < a) => a <= b)
  /\ \A a, b \in Int : ~(a < a) /\ (a # b /\ ~(b < a) => a < b)
OBVIOUS

\* In a sorted list the lines come in the order of their hosts.
LEMMA InOrder ==
  ASSUME ListOK, Sorted, phase \in {"write", "summary", "saved", "done", "exit 1"},
         NEW i \in DOMAIN found, NEW k \in DOMAIN found, i < k
  PROVE  found[i].host <= found[k].host /\ ~Before(found[k], found[i]) /\ found[i] # found[k]
<1>1. ~Before(found[k], found[i])
  BY DEF Sorted
<1>2. PICK n \in Nat : found \in [1 .. n -> Range(found)]
  BY DEF ListOK
<1>3. i \in 1 .. n /\ k \in 1 .. n
  BY <1>2
<1>4. i # k
  <2>1. i \in Int /\ k \in Int
    BY <1>3, Numbers, Zenon
  <2> QED
    BY <2>1, Numbers, Zenon
<1>5. found[i].host \in Nat /\ found[k].host \in Nat
  BY OutputAssumption DEF ListOK, OutputAssumption
<1>6. found[i].host <= found[k].host
  <2>1. PICK a \in Int, b \in Int : found[i].host = a /\ found[k].host = b
    BY <1>5, Numbers, Zenon
  <2>2. ~(b < a)
    BY <1>1, <2>1, Zenon DEF Before
  <2>3. a <= b
    BY <2>2, Numbers, Zenon
  <2> QED
    BY <2>1, <2>3, Zenon
<1>7. found[i] # found[k]
  BY <1>4 DEF ListOK, IsInjective
<1> QED
  BY <1>1, <1>6, <1>7

LEMMA IndexOrder ==
  ASSUME ListOK, NEW i \in DOMAIN found, NEW k \in DOMAIN found
  PROVE  ~(i < i) /\ (i # k /\ ~(k < i) => i < k)
<1>1. PICK n \in Nat : found \in [1 .. n -> Range(found)]
  BY DEF ListOK
<1>2. i \in Int /\ k \in Int
  BY <1>1, Numbers
<1> QED
  BY <1>2, Numbers, Zenon

\* The lines of an earlier host are earlier lines.
LEMMA HostsLess ==
  ASSUME ListOK, Sorted, phase \in {"write", "summary", "saved", "done", "exit 1"},
         NEW i \in DOMAIN found, NEW k \in DOMAIN found, found[i].host < found[k].host
  PROVE  i # k /\ ~(k < i)
<1>1. PICK a \in Int, b \in Int : found[i].host = a /\ found[k].host = b
  <2>1. found[i].host \in Nat /\ found[k].host \in Nat
    BY OutputAssumption DEF ListOK, OutputAssumption
  <2> QED
    BY <2>1, Numbers, Zenon
<1>2. a < b
  BY <1>1, Zenon
<1>3. a # b /\ ~(b <= a)
  BY <1>2, Numbers, Zenon
<1>4. i # k
  BY <1>1, <1>3, Zenon
<1>5. ASSUME k < i PROVE FALSE
  <2>1. found[k].host <= found[i].host
    BY <1>5, InOrder
  <2> QED
    BY <1>1, <1>3, <2>1, Zenon
<1> QED
  BY <1>4, <1>5

\* Which lines an element of the document has, and which name.
LEMMA Elements ==
  ASSUME NEW k \in DOMAIN Document
  PROVE  /\ DOMAIN Document[k].lines =
              {i \in DOMAIN found : IF format \in Grouped THEN found[i].host = k ELSE i = k}
         /\ \A i \in DOMAIN Document[k].lines :
              Document[k].lines[i] = found[i] /\ Document[k].name = rdns[found[i].host]
<1>1. CASE format \in Grouped
  <2>1. k \in HostsOf(found) /\ Document[k] = Element(rdns[k], byHost(found, k))
    BY <1>1 DEF Document, Groups
  <2>2. Document[k].lines = byHost(found, k) /\ Document[k].name = rdns[k]
    BY <2>1 DEF Element
  <2> QED
    BY <1>1, <2>2 DEF byHost, Restrict
<1>2. CASE format \notin Grouped
  <2>1. k \in DOMAIN found
        /\ Document[k] = Element(rdns[found[k].host], Restrict(found, {k}))
    BY <1>2 DEF Document, Lines
  <2>2. Document[k].lines = Restrict(found, {k}) /\ Document[k].name = rdns[found[k].host]
    BY <2>1 DEF Element
  <2>3. {i \in DOMAIN found : i = k} = {k}
    BY <2>1
  <2> QED
    BY <1>2, <2>2, <2>3 DEF Restrict
<1> QED
  BY <1>1, <1>2

\* The places of a file that holds some elements of the document.
LEMMA PlacesOf ==
  ASSUME NEW keys \in SUBSET DOMAIN Document, sink = Restrict(Document, keys), NEW p \in Places
  PROVE  /\ p[1] \in keys /\ p[2] \in DOMAIN Document[p[1]].lines
         /\ p[2] \in DOMAIN found /\ LineAt(p) = found[p[2]]
         /\ sink[p[1]].name = rdns[LineAt(p).host]
         /\ IF format \in Grouped THEN LineAt(p).host = p[1] ELSE p[1] = p[2]
<1>1. PICK k \in DOMAIN sink : p \in {k} \X DOMAIN sink[k].lines
  BY DEF Places
<1>2. p[1] = k /\ p[2] \in DOMAIN sink[k].lines
  BY <1>1
<1>3. k \in keys /\ k \in DOMAIN Document /\ sink[k] = Document[k]
  BY <1>1 DEF Restrict
<1>4. /\ p[2] \in DOMAIN found /\ Document[k].lines[p[2]] = found[p[2]]
      /\ Document[k].name = rdns[found[p[2]].host]
      /\ IF format \in Grouped THEN found[p[2]].host = k ELSE p[2] = k
  BY <1>2, <1>3, Elements
<1>5. LineAt(p) = found[p[2]]
  BY <1>2, <1>3, <1>4 DEF LineAt
<1> QED
  BY <1>2, <1>3, <1>4, <1>5

LEMMA WholeDocument ==
  ASSUME sink = Restrict(Document, DOMAIN Document)
  PROVE  Range(found) \subseteq Written
<1> SUFFICES ASSUME NEW i \in DOMAIN found PROVE \E p \in Places : LineAt(p) = found[i]
  BY DEF Range, Written
<1> DEFINE k == IF format \in Grouped THEN found[i].host ELSE i
<1>1. k \in DOMAIN Document
  BY DEF Document, Groups, Lines, HostsOf
<1>2. sink[k] = Document[k] /\ k \in DOMAIN sink
  BY <1>1 DEF Restrict
<1>3. i \in DOMAIN Document[k].lines /\ Document[k].lines[i] = found[i]
  BY <1>1, Elements
<1> HIDE DEF k
<1>4. <<k, i>> \in Places
  BY <1>2, <1>3 DEF Places
<1>5. LineAt(<<k, i>>) = found[i]
  BY <1>2, <1>3 DEF LineAt
<1> QED
  BY <1>4, <1>5

LEMMA DocumentStays ==
  UNCHANGED <<dnsVars, options, found>> => Document' = Document
BY DEF dnsVars, options, Document, Groups, Lines, Element, HostsOf, byHost, Restrict

\* The document is a function, so that all of its elements are the document.
LEMMA WholeOfIt == Document = Restrict(Document, DOMAIN Document)
<1>1. Document = [k \in DOMAIN Document |-> Document[k]]
  <2>1. CASE format \in Grouped
    BY <2>1 DEF Document, Groups
  <2>2. CASE format \notin Grouped
    BY <2>2 DEF Document, Lines
  <2> QED
    BY <2>1, <2>2
<1> QED
  BY <1>1 DEF Restrict

LEMMA OutputStep == Output /\ [Next]_vars => Output'
<1> SUFFICES ASSUME Output, [Next]_vars PROVE Output'
  OBVIOUS
<1>1. ASSUME ~Reported', ~Reported, failed' = failed PROVE Output'
  BY <1>1 DEF Output, Reported
<1>2. CASE Create \/ NobodyAlive \/ ScanEnds \/ NamesDone \/ SortLines
  <2>1. phase \in {"create", "discover", "names", "sort"} /\ failed' = failed
        /\ phase' \in {"discover", "nobody", "names", "sort", "write"}
    BY <1>2 DEF Create, NobodyAlive, ScanEnds, NamesDone, SortLines
  <2> QED
    BY <1>1, <2>1 DEF Reported
<1>3. CASE phase = "names" /\ UNCHANGED <<phase, failed>>
  BY <1>1, <1>3 DEF Reported
<1>4. CASE WriteDocument
  <2>1. /\ format \in Checked /\ phase = "write" /\ Document' = Document
        /\ format' = format
    <3>1. UNCHANGED <<dnsVars, options, found>>
      BY <1>4, MainKinds DEF WriteDocument
    <3> QED
      BY <1>4, <3>1, DocumentStays DEF WriteDocument, options
  <2>2. failed = {}
    BY <2>1 DEF Output, Reported
  <2>3. CASE sink' = Document /\ phase' = "summary" /\ failed' = failed
    <3>1. sink' = Restrict(Document', DOMAIN Document') /\ failed' = {}
      BY <2>1, <2>2, <2>3, WholeOfIt
    <3> QED
      BY <2>3, <3>1 DEF Output, Reported
  <2>4. ASSUME NEW kept \in Cut, sink' = Restrict(Document, kept), failed' = {"write"},
               phase' = "exit 1"
        PROVE  Output'
    <3>1. kept \in SUBSET DOMAIN Document' /\ sink' = Restrict(Document', kept)
      BY <2>1, <2>4 DEF Cut
    <3> QED
      BY <2>4, <3>1 DEF Output, Reported
  <2> QED
    BY <1>4, <2>3, <2>4 DEF WriteDocument
<1>5. CASE PrintLines
  <2>1. /\ format \in Listed /\ format' = format /\ phase' = "summary"
        /\ Document' = Document
    <3>1. UNCHANGED <<dnsVars, options, found>>
      BY <1>5, MainKinds DEF PrintLines
    <3> QED
      BY <1>5, <3>1, DocumentStays DEF PrintLines, options
  <2>2. DOMAIN Document = DOMAIN found
    BY <2>1 DEF Document, Lines, Listed, Grouped
  <2>3. PICK written \in SUBSET DOMAIN found :
          /\ sink' = Restrict(Document, written)
          /\ failed' = IF written = DOMAIN found THEN {} ELSE {"write"}
    BY <1>5 DEF PrintLines
  <2>4. /\ written \in SUBSET DOMAIN Document' /\ sink' = Restrict(Document', written)
        /\ failed' = {} => written = DOMAIN Document'
    BY <2>1, <2>2, <2>3
  <2> QED
    BY <2>1, <2>3, <2>4 DEF Output, Reported
<1>6. CASE Summary \/ UNCHANGED vars
  <2>1. UNCHANGED <<dnsVars, options, found, sink, failed>>
    BY <1>6 DEF Summary, vars
  <2>2. /\ Reported' = Reported /\ (phase' # "exit 1" => phase # "exit 1")
        /\ phase = "done" => phase' = "done"
    <3>1. CASE Summary
      BY <3>1 DEF Summary, Reported
    <3>2. CASE UNCHANGED vars
      <4>1. phase' = phase
        BY <3>2 DEF vars
      <4> QED
        BY <4>1 DEF Reported
    <3> QED
      BY <1>6, <3>1, <3>2
  <2>3. Document' = Document /\ format' = format
    BY <2>1, DocumentStays DEF options
  <2> QED
    BY <2>1, <2>2, <2>3 DEF Output
<1>7. CASE Close
  <2>1. /\ phase = "saved" /\ phase' = "done" /\ Document' = Document /\ format' = format
    <3>1. UNCHANGED <<dnsVars, options, found>>
      BY <1>7 DEF Close
    <3> QED
      BY <1>7, <3>1, DocumentStays DEF Close, options
  <2>2. PICK keys \in SUBSET DOMAIN Document :
          sink = Restrict(Document, keys) /\ (failed = {} => keys = DOMAIN Document)
    BY <2>1 DEF Output, Reported
  <2>3. DOMAIN sink = keys /\ \A k \in keys : sink[k] = Document[k]
    BY <2>2 DEF Restrict
  <2>4. PICK kept \in SUBSET keys :
          /\ sink' = Restrict(sink, kept)
          /\ failed' = IF kept = keys THEN failed ELSE failed \cup {"close"}
    BY <1>7, <2>3 DEF Close
  <2>5. sink' = Restrict(Document, kept)
    BY <2>3, <2>4 DEF Restrict
  <2>6. /\ kept \in SUBSET DOMAIN Document' /\ sink' = Restrict(Document', kept)
        /\ failed' = {} => kept = DOMAIN Document'
    BY <2>1, <2>2, <2>4, <2>5
  <2>7. /\ failed' \subseteq {"write", "close"}
        /\ "write" \in failed' => format' \in Listed
    BY <2>1, <2>4 DEF Output
  <2> QED
    BY <2>1, <2>6, <2>7 DEF Output, Reported
<1> QED
  BY <1>2, <1>3, <1>4, <1>5, <1>6, <1>7, StepKinds

-----------------------------------------------------------------------------
(* The theorems                                                            *)

LEMMA InitInv == Init => OutputInv
<1> SUFFICES ASSUME Init PROVE OutputInv
  OBVIOUS
<1>1. DNSInv
  BY DNSInit DEF Init
<1>2. ListOK
  <2>1. /\ Len(found) \in Nat /\ found \in [1 .. Len(found) -> Range(found)]
        /\ \A i \in DOMAIN found : found[i].host \in Hosts /\ found[i].port \in Nat
        /\ IsInjective(found)
    BY OutputAssumption DEF Init, OutputAssumption
  <2>2. DOMAIN uniq = HostsOf(found)
    BY DEF Init
  <2> QED
    BY <2>1, <2>2 DEF ListOK
<1>3. Sorted /\ NamesIn /\ Output
  BY DEF Init, Sorted, NamesIn, Output, Reported
<1> QED
  BY <1>1, <1>2, <1>3 DEF OutputInv

LEMMA NextInv == OutputInv /\ [Next]_vars => OutputInv'
<1> SUFFICES ASSUME OutputInv, [Next]_vars PROVE OutputInv'
  OBVIOUS
<1>1. DNSInv'
  BY MainKinds, DNSStep, DNSStays DEF OutputInv
<1> QED
  BY <1>1, ListStep, SortedStep, NamesInStep, OutputStep DEF OutputInv, DNSInv

\* The invariant of main around resolveRDNS: the names are on their way or
\* there, the list is sorted before it is written, and the file holds elements
\* of the document that writeResults makes of it.
THEOREM OutputInvariant == Spec => []OutputInv
<1>1. Init => OutputInv
  BY InitInv
<1>2. OutputInv /\ [Next]_vars => OutputInv'
  BY NextInv
<1> QED
  BY <1>1, <1>2, PTL DEF Spec

LEMMA NamesRight == OutputInv => NamesExact
<1> SUFFICES ASSUME OutputInv PROVE NamesExact
  OBVIOUS
<1>1. \A h \in Hosts : rdns[h] \in {NoName, h}
  BY DEF OutputInv, DNSInv, RightNames
<1>2. ASSUME mpc = "done", ~cancelled, NEW h \in Named \cap DOMAIN uniq PROVE rdns[h] = h
  BY <1>2 DEF OutputInv, DNSInv, NoneForgotten
<1>3. DNS!NamesExact
  <2>1. /\ offered # NoHost => ~inClosed
        /\ \A w \in Workers : pc[w] \in {"lookup", "send"} => ~outClosed
    BY DEF OutputInv, DNSInv, ClosingOrder
  <2> QED
    BY <1>1, <1>2, <2>1 DEF DNS!NamesExact
<1>4. ASSUME Reported, NEW p \in Places
      PROVE  /\ sink[p[1]].name \in {NoName, LineAt(p).host}
             /\ byName /\ ~cancelled /\ LineAt(p).host \in Named
                  => sink[p[1]].name = LineAt(p).host
  <2>1. PICK keys \in SUBSET DOMAIN Document : sink = Restrict(Document, keys)
    BY <1>4 DEF OutputInv, Output
  <2>2. PICK i \in DOMAIN found : LineAt(p) = found[i] /\ sink[p[1]].name = rdns[found[i].host]
    BY <1>4, <2>1, PlacesOf
  <2>3. found[i].host \in Hosts \cap DOMAIN uniq
    BY DEF OutputInv, ListOK, HostsOf
  <2>4. byName => mpc = "done"
    BY <1>4 DEF Reported, OutputInv, NamesIn
  <2> QED
    BY <1>1, <1>2, <2>2, <2>3, <2>4
<1> QED
  BY <1>3, <1>4 DEF NamesExact

LEMMA OutputRight == OutputInv => OutputExact
<1> SUFFICES ASSUME OutputInv, Reported PROVE OutputExact
  BY DEF OutputExact
<1>0. /\ ListOK /\ Sorted /\ phase \in {"write", "summary", "saved", "done", "exit 1"}
  BY DEF OutputInv, Reported
<1>1. PICK keys \in SUBSET DOMAIN Document :
        sink = Restrict(Document, keys) /\ (failed = {} => keys = DOMAIN Document)
  BY DEF OutputInv, Output
<1>2. ASSUME NEW p \in Places, NEW q \in Places, Earlier(p, q)
      PROVE  LineAt(p) # LineAt(q) /\ ~Before(LineAt(q), LineAt(p))
  <2>1. PICK i \in DOMAIN found, k \in DOMAIN found :
          i = p[2] /\ k = q[2] /\ LineAt(p) = found[i] /\ LineAt(q) = found[k]
    BY <1>1, PlacesOf
  <2>2. i < k
    <3>1. CASE format \in Grouped
      <4>1. p[1] = found[i].host /\ q[1] = found[k].host
        BY <1>1, <2>1, <3>1, PlacesOf
      <4>2. CASE found[i].host < found[k].host
        <5>1. i # k /\ ~(k < i)
          BY <1>0, <4>2, HostsLess
        <5> QED
          BY <1>0, <5>1, IndexOrder
      <4> QED
        BY <1>2, <2>1, <4>1, <4>2 DEF Earlier
    <3>2. CASE format \notin Grouped
      <4>1. p[1] = i /\ q[1] = k
        BY <1>1, <2>1, <3>2, PlacesOf
      <4>2. ~(i < i)
        BY <1>0, IndexOrder
      <4> QED
        BY <1>2, <2>1, <4>1, <4>2, Zenon DEF Earlier
    <3> QED
      BY <3>1, <3>2
  <2> QED
    BY <1>0, <2>1, <2>2, InOrder
<1>3. Written \subseteq Range(found)
  BY <1>1, PlacesOf DEF Written, Range
<1>4. failed = {} => Written = Range(found)
  BY <1>1, <1>3, WholeDocument
<1>5. ASSUME format \in Grouped, NEW p \in Places, NEW q \in Places
      PROVE  p[1] = q[1] <=> LineAt(p).host = LineAt(q).host
  <2>1. LineAt(p).host = p[1] /\ LineAt(q).host = q[1]
    BY <1>1, <1>5, PlacesOf
  <2> QED
    BY <2>1
<1> QED
  BY <1>2, <1>3, <1>4, <1>5 DEF OutputExact

\* Every element of the file has the name of its own host or none, and with
\* -rdns, uncancelled, the one the resolver gave.
THEOREM OutputNamesExact == Spec => []NamesExact
BY OutputInvariant, NamesRight, PTL

\* The file is the list in its order, each line once, one element per host in
\* the grouped formats, and unless a write or the closing failed it is all of
\* the list.
THEOREM OutputIsExact == Spec => []OutputExact
BY OutputInvariant, OutputRight, PTL

\* main says that the results are saved only when they are, but for the two
\* formats that do not look at their writes; what is lost afterwards is lost by
\* the closing of the file.
THEOREM OutputLossAnnounced == Spec => []LossAnnounced
<1>1. OutputInv => LossAnnounced
  <2> SUFFICES ASSUME OutputInv, phase \in {"saved", "done"}, Written # Range(found)
               PROVE  format \in Listed \/ (phase = "done" /\ "close" \in failed)
    BY DEF LossAnnounced
  <2>1. failed # {} /\ failed \subseteq {"write", "close"}
    BY OutputRight DEF OutputExact, Reported, OutputInv, Output
  <2> QED
    BY <2>1 DEF OutputInv, Output
<1> QED
  BY <1>1, OutputInvariant, PTL

=============================================================================
