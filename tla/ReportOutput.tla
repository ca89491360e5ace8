----------------------------- MODULE ReportOutput -----------------------------
(***************************************************************************)
(* main() around the scan, as far as the report goes: os.Create empties    *)
(* the -o file before the discovery, resolveRDNS (ReverseDNS) looks the    *)
(* names up when the scan is over, the list is sorted, and writeResults    *)
(* writes it in one of its formats, of which some look at the errors of    *)
(* their writes and others do not.  The scan itself is ScanReport's; here  *)
(* its list is given.  What is written is a function from numbers: a slice *)
(* or a file of which some parts are missing keeps the places of the rest. *)
(***************************************************************************)
EXTENDS Integers, FiniteSets, Sequences, Functions

CONSTANTS
  Hosts,     \* numbers, in the order of their names
  Named,     \* the hosts the resolver has a name for
  Workers,   \* the goroutines of resolveRDNS
  NoHost, NoName,
  Lists,     \* the lists of lines a scan may end with
  Formats    \* -format

Listed == {"text", "grep"}          \* each line is printed, errors are ignored
Grouped == {"xml", "html"}          \* one element per host
Checked == {"json", "csv"} \cup Grouped

OutputAssumption ==
  /\ Hosts \subseteq Nat
  /\ Formats \subseteq Listed \cup Checked
  /\ \A list \in Lists :
       /\ Len(list) \in Nat /\ list \in [1 .. Len(list) -> Range(list)]
       /\ \A i \in DOMAIN list : list[i].host \in Hosts /\ list[i].port \in Nat
       /\ IsInjective(list)

ASSUME OutputAssumption

VARIABLES
  uniq, yielded, offered, inClosed, pc, host, name, outClosed, mpc, kv, rdns,
  cancelled, fatal,   \* of resolveRDNS
  format, byName,     \* -format and -rdns
  phase,   \* of main
  found,   \* its list
  sink,    \* the content of the -o file: elements with a name and lines
  failed   \* the calls for the -o file that failed: "write" and "close"

dnsVars == <<uniq, yielded, offered, inClosed, pc, host, name, outClosed, mpc, kv, rdns,
             cancelled, fatal>>
options == <<format, byName>>
vars == <<dnsVars, options, phase, found, sink, failed>>

DNS == INSTANCE ReverseDNS

ASSUME NamesAssumption == DNS!RDNSAssumption

HostsOf(list) == {list[i].host : i \in DOMAIN list}
Element(n, lines) == [name |-> n, lines |-> lines]

\* The file may hold the report of an earlier scan.
OldReport == <<Element(NoName, <<>>)>>

Init ==
  /\ format \in Formats /\ byName \in BOOLEAN
  /\ found \in Lists
  /\ DNS!Init /\ DNS!Keys = HostsOf(found)
  /\ phase = "create"
  /\ sink \in {<<>>, OldReport}
  /\ failed = {}

-----------------------------------------------------------------------------
Create ==
  /\ phase = "create"
  /\ sink' = <<>>
  /\ phase' = "discover"
  /\ UNCHANGED <<dnsVars, options, found, failed>>

\* "Ningún host respondió; nada que escanear": main returns.
NobodyAlive ==
  /\ phase = "discover"
  /\ phase' = "nobody"
  /\ UNCHANGED <<dnsVars, options, found, sink, failed>>

ScanEnds ==
  /\ phase = "discover"
  /\ phase' = IF byName THEN "names" ELSE "sort"
  /\ UNCHANGED <<dnsVars, options, found, sink, failed>>

LookUp ==
  /\ phase = "names"
  /\ DNS!ProgramStep \/ DNS!Cancel
  /\ UNCHANGED <<options, phase, found, sink, failed>>

NamesDone ==
  /\ phase = "names" /\ mpc = "done"
  /\ phase' = "sort"
  /\ UNCHANGED <<dnsVars, options, found, sink, failed>>

Before(x, y) == x.host < y.host \/ (x.host = y.host /\ x.port < y.port)

\* What sort.Slice may make of a list: it is not stable, and the lines of one
\* host and port (a TCP and a UDP line, of two scans) are equal to it.
SortedFrom(list) ==
  {s \in [DOMAIN list -> Range(list)] :
     /\ Range(s) = Range(list)
     /\ \A i, k \in DOMAIN s : i < k => ~Before(s[k], s[i])}

SortLines ==
  /\ phase = "sort"
  /\ found' \in SortedFrom(found)
  /\ phase' = "write"
  /\ UNCHANGED <<dnsVars, options, sink, failed>>

-----------------------------------------------------------------------------
\* writeResults

\* Mutant of byHost: the first line of a host makes the entry and is not put in.
byHostTail(list, h) ==
  Restrict(list, {i \in DOMAIN list : list[i].host = h /\ \E k \in 1 .. i - 1 : list[k].host = h})

\* groupByHost: the lines of a host, in their order.
byHost(list, h) == Restrict(list, {i \in DOMAIN list : list[i].host = h})

\* One element per host, in the order of the hosts (sort.Strings), or per line.
\* The element of a host takes the first name among its lines: all have the same.
Groups(list) == [h \in HostsOf(list) |-> Element(rdns[h], byHost(list, h))]
Lines(list) == [i \in DOMAIN list |-> Element(rdns[list[i].host], Restrict(list, {i}))]

Document == IF format \in Grouped THEN Groups(found) ELSE Lines(found)

\* The elements a failed write leaves: those before some point.
Cut == {kept \in SUBSET DOMAIN Document :
          kept # DOMAIN Document /\ \A k \in kept, n \in DOMAIN Document \ kept : k < n}

\* Mutant of WriteDocument: the error is not returned.
WriteDocumentUnchecked ==
  /\ phase = "write" /\ format \in Checked
  /\ \E kept \in Cut \cup {DOMAIN Document} :
       /\ sink' = Restrict(Document, kept)
       /\ failed' = IF kept = DOMAIN Document THEN {} ELSE {"write"}
  /\ phase' = "summary"
  /\ UNCHANGED <<dnsVars, options, found>>

\* json, csv, xml and html: the first error ends the writing, and the process.
WriteDocument ==
  /\ phase = "write" /\ format \in Checked
  /\ \/ sink' = Document /\ phase' = "summary" /\ UNCHANGED failed
     \/ /\ \E kept \in Cut : sink' = Restrict(Document, kept)
        /\ failed' = {"write"} /\ phase' = "exit 1"
  /\ UNCHANGED <<dnsVars, options, found>>

\* text and grep: each line is written or, unnoticed, not.
PrintLines ==
  /\ phase = "write" /\ format \in Listed
  /\ \E written \in SUBSET DOMAIN found :
       /\ sink' = Restrict(Document, written)
       /\ failed' = IF written = DOMAIN found THEN {} ELSE {"write"}
  /\ phase' = "summary"
  /\ UNCHANGED <<dnsVars, options, found>>

\* "Resultados guardados en ...".
Summary ==
  /\ phase = "summary"
  /\ phase' = "saved"
  /\ UNCHANGED <<dnsVars, options, found, sink, failed>>

\* The deferred f.Close().  A file system may find out only now that it cannot
\* keep what was written; nobody looks at the error.
Close ==
  /\ phase = "saved"
  /\ \E kept \in SUBSET DOMAIN sink :
       /\ sink' = Restrict(sink, kept)
       /\ failed' = IF kept = DOMAIN sink THEN failed ELSE failed \cup {"close"}
  /\ phase' = "done"
  /\ UNCHANGED <<dnsVars, options, found>>

Over == phase \in {"nobody", "done", "exit 1"} \/ fatal
Ended == Over /\ UNCHANGED vars

ProgramStep ==
  \/ Create \/ NobodyAlive \/ ScanEnds
  \/ (phase = "names" /\ DNS!ProgramStep /\ UNCHANGED <<options, phase, found, sink, failed>>)
  \/ NamesDone \/ SortLines \/ WriteDocument \/ PrintLines \/ Summary \/ Close

Next == (~fatal /\ (ProgramStep \/ LookUp)) \/ Ended

Spec == Init /\ [][Next]_vars

\* Some runnable goroutine runs; the resolver answers or gives up.
FairSpec == Spec /\ WF_vars(ProgramStep)

-----------------------------------------------------------------------------
Reported == phase \in {"summary", "saved", "done", "exit 1"}

\* A line of the file is at place i of its element k.
Places == UNION {{k} \X DOMAIN sink[k].lines : k \in DOMAIN sink}
LineAt(p) == sink[p[1]].lines[p[2]]
Earlier(p, q) == p[1] < q[1] \/ (p[1] = q[1] /\ p[2] < q[2])
Written == {LineAt(p) : p \in Places}

\* What is written is the report: its lines in the order of host and port, each
\* once, also where they are gathered by host, and every host has one element.
\* Lines are missing only where a write or the closing of the file failed.
OutputExact ==
  Reported =>
    /\ \A p, q \in Places : Earlier(p, q) =>
         LineAt(p) # LineAt(q) /\ ~Before(LineAt(q), LineAt(p))
    /\ Written \subseteq Range(found)
    /\ failed = {} => Written = Range(found)
    /\ format \in Grouped =>
         \A p, q \in Places : p[1] = q[1] <=> LineAt(p).host = LineAt(q).host

\* "Resultados guardados" is true when it is said, but for text and grep, whose
\* lines nobody checks: a failed write of the other formats is the end of the
\* process.  It stays true unless the file loses something when it is closed, of
\* which no format hears.
LossAnnounced ==
  phase \in {"saved", "done"} /\ Written # Range(found) =>
    format \in Listed \/ (phase = "done" /\ "close" \in failed)

\* Every element carries the name of its own host or none; with -rdns and no
\* cancellation it carries one if there is one.
NamesExact ==
  /\ DNS!NamesExact
  /\ Reported => \A p \in Places :
       LET shown == sink[p[1]].name
           owner == LineAt(p).host
       IN  /\ shown \in {NoName, owner}
           /\ byName /\ ~cancelled /\ owner \in Named => shown = owner

\* The program ends: main, the workers of resolveRDNS, its feeder and the
\* goroutine that closes the channel do not wait for each other.
OutputEnds == <>Over
=============================================================================
