----------------------------- MODULE ScanReport -----------------------------
(***************************************************************************)
(* What main() makes of the results of a scan: the loop that counts,       *)
(* marks and lists them, -all, -stream, -resume (the open ports recovered  *)
(* from the checkpoint come first) and -diff (diff.go: the previous report *)
(* is compared with this one).  The scan itself is a ScanContract.  A      *)
(* report is a bag of lines: the order is that of the ports, since main()  *)
(* sorts, or of no importance when it streams.                             *)
(***************************************************************************)
EXTENDS Integers, FiniteSets, Bags

CONSTANTS
  Jobs,       \* the host and port pairs of this command
  Elsewhere   \* further ports a previous report may list

Ports == Jobs \cup Elsewhere

ReportAssumption == IsFiniteSet(Ports) /\ Jobs \cap Elsewhere = {}

ASSUME ReportAssumption

VARIABLES
  diffing, showAll, stream,  \* -diff, -all, -stream
  prevScan,   \* keys of the map loadPreviousScan returns
  preFound,   \* jobs the checkpoint holds as open
  ckptDone, todo, taken, reported, cancelled, finished,  \* the scan
  phase,      \* of main: "loop", "diff", "write" or "done"
  found,      \* main's list of lines
  sink        \* what was written to the standard output or the -o file

options == <<diffing, showAll, stream, prevScan, preFound>>
scanVars == <<ckptDone, todo, taken, reported, cancelled, finished>>
vars == <<options, scanVars, phase, found, sink>>

Scan == INSTANCE ScanContract

OpenStates == {"open", "open|filtered"}
IsOpen(r) == r.state \in OpenStates

Line(p, state, change) == [job |-> p, state |-> state, change |-> change]

-----------------------------------------------------------------------------
\* loadPreviousScan keeps the open lines of a report.
LoadPrevious(report) == {l.job : l \in {k \in BagToSet(report) : IsOpen(k)}}

Recovered == {Line(p, "open", "") : p \in preFound}

Init ==
  /\ diffing \in BOOLEAN /\ showAll \in BOOLEAN /\ stream \in BOOLEAN
  /\ prevScan \in IF diffing THEN SUBSET Ports ELSE {{}}
  /\ Scan!Init
  /\ preFound \in SUBSET ckptDone
  /\ phase = "loop"
  /\ found = SetToBag(Recovered)
  /\ sink = EmptyBag

\* Mutant of ChangeOf: prevScan is consulted without -diff too.
ChangeOfAlways(r) == IF IsOpen(r) /\ r.job \notin prevScan THEN "new" ELSE ""

\* The mark a result gets.
ChangeOf(r) ==
  IF IsOpen(r) /\ diffing /\ r.job \notin prevScan THEN "new" ELSE ""

\* The goroutines, until main leaves its loop.
ScanStep ==
  /\ phase = "loop"
  /\ (\E j \in Jobs : Scan!Take(j) \/ Scan!Drop(j)) \/ Scan!Cancel
  /\ UNCHANGED <<options, phase, found, sink>>

\* One round of main's loop.
Round(r) ==
  /\ phase = "loop"
  /\ Scan!Report(r)
  /\ LET fresh == IF IsOpen(r) \/ showAll
                  THEN SetToBag({Line(r.job, r.state, ChangeOf(r))})
                  ELSE EmptyBag
     IN  /\ found' = found (+) fresh
         /\ sink' = IF stream THEN sink (+) fresh ELSE sink
  /\ UNCHANGED <<options, phase>>

LeaveLoop ==
  /\ phase = "loop"
  /\ Scan!Finish
  /\ phase' = "diff"
  /\ UNCHANGED <<options, found, sink>>

\* Mutant of Closed: a port listed as closed already counts as missing.
ClosedIfNotOpen ==
  {Line(p, "closed", "closed") : p \in prevScan \ LoadPrevious(found)}

\* Mutant of Closed: the lines keep the state of the previous scan.
ClosedStateKept ==
  {Line(p, "open", "closed") : p \in prevScan \ {l.job : l \in BagToSet(found)}}

\* closedSince, and the mark main gives its lines.
Closed ==
  {Line(p, "closed", "closed") : p \in prevScan \ {l.job : l \in BagToSet(found)}}

AddClosed ==
  /\ phase = "diff"
  /\ IF diffing
     THEN /\ found' = found (+) SetToBag(Closed)
          /\ sink' = IF stream THEN sink (+) SetToBag(Closed) ELSE sink
     ELSE UNCHANGED <<found, sink>>
  /\ phase' = "write"
  /\ UNCHANGED <<options, scanVars>>

\* writeResults, unless the lines were streamed.
Write ==
  /\ phase = "write"
  /\ sink' = IF stream THEN sink ELSE found
  /\ phase' = "done"
  /\ UNCHANGED <<options, scanVars, found>>

Ended == phase = "done" /\ UNCHANGED vars

Next ==
  \/ ScanStep
  \/ \E j \in taken : \E r \in [job : {j}, state : Scan!States, cause : Scan!Causes] : Round(r)
  \/ LeaveLoop \/ AddClosed \/ Write
  \/ Ended

Spec == Init /\ [][Next]_vars

-----------------------------------------------------------------------------
OpenNow == preFound \cup {r.job : r \in {q \in reported : IsOpen(q)}}
LinesOf(p, report) == {l \in BagToSet(report) : l.job = p}

\* No port has two lines, or one twice, whichever of the checkpoint, the scan and
\* the comparison with the previous report they come from.
OneLine(report) ==
  \A l, k \in BagToSet(report) : l.job = k.job => l = k /\ report[l] = 1

OneLinePerPort == OneLine(found) /\ OneLine(sink)

\* The report says of each port what is known of it: open ports are there,
\* marked as new when -diff did not know them (the recovered ones never are),
\* a port that was open and is in no line of this scan is marked as closed
\* (also when the scan was cancelled before it got there), and nothing else is
\* listed but with -all.  A stream leaves out the ports that the interrupted run
\* has shown.
ReportExact ==
  phase = "done" =>
    \A p \in Ports :
      LET states == {r.state : r \in {q \in reported : q.job = p}}
      IN  {<<l.state, l.change>> : l \in LinesOf(p, sink)} =
          IF p \in preFound THEN (IF stream THEN {} ELSE {<<"open", "">>})
          ELSE IF p \in OpenNow
               THEN {<<s, IF diffing /\ p \notin prevScan THEN "new" ELSE "">> : s \in states}
          ELSE IF showAll /\ states # {} THEN states \X {""}
          ELSE IF diffing /\ p \in prevScan THEN {<<"closed", "closed">>}
          ELSE {}

\* A report can be the -diff of the next scan, although it lists ports that
\* are closed: what is loaded from it is what is open now.
BaselineExact == phase = "done" /\ ~stream => LoadPrevious(sink) = OpenNow
=============================================================================
