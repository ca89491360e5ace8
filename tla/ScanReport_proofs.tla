-------------------------- MODULE ScanReport_proofs --------------------------
(***************************************************************************)
(* The report of a scan, for every set of ports, every checkpoint, every   *)
(* previous report and every choice of options: one line per port          *)
(* (OneLinePerPort), saying what is known of it (ReportExact), and a       *)
(* report that can be the next -diff (BaselineExact).  The inductive       *)
(* invariant says where a job is (Placed) and which lines the list of      *)
(* main() and the output hold at each phase, as sets: that no line is      *)
(* there twice is what makes the two bags sets (Content).                  *)
(***************************************************************************)
EXTENDS ScanReport, TLAPS

TypeOK ==
  /\ prevScan \subseteq Ports
  /\ ckptDone \subseteq Jobs
  /\ preFound \subseteq ckptDone
  /\ todo \subseteq Jobs
  /\ taken \subseteq Jobs
  /\ reported \subseteq Scan!Results
  /\ phase \in {"loop", "diff", "write", "done"}
  /\ ~diffing => prevScan = {}

\* A job is done by an earlier run, to be done, being done, or reported once.
Placed ==
  /\ todo \cap taken = {}
  /\ ckptDone \cap (todo \cup taken) = {}
  /\ \A r \in reported : r.job \notin ckptDone \cup todo \cup taken
  /\ \A r, q \in reported : r.job = q.job => r = q

\* The lines main() lists for the results of the scan, and for the ports of the
\* previous report that are in no other line.
Listed == {r \in reported : IsOpen(r) \/ showAll}
Shown == {Line(r.job, r.state, ChangeOf(r)) : r \in Listed}
Missed == prevScan \ {l.job : l \in Recovered \cup Shown}
Gone == IF phase \in {"write", "done"} THEN {Line(p, "closed", "closed") : p \in Missed} ELSE {}

\* What the list and the output hold.
Content ==
  /\ found = SetToBag(Recovered \cup Shown \cup Gone)
  /\ sink = IF stream THEN SetToBag(Shown \cup Gone)
            ELSE IF phase = "done" THEN found ELSE EmptyBag

ReportInv == TypeOK /\ Placed /\ Content

-----------------------------------------------------------------------------
\* The union of two bags without copies and with nothing in common has none.
LEMMA DisjointUnion ==
  ASSUME NEW S, NEW T, S \cap T = {}
  PROVE  SetToBag(S) (+) SetToBag(T) = SetToBag(S \cup T)
<1> DEFINE b == SetToBag(S)
           c == SetToBag(T)
<1>1. DOMAIN b = S /\ DOMAIN c = T
  BY DEF SetToBag
<1>2. b (+) c = [e \in S \cup T |-> (IF e \in S THEN b[e] ELSE 0) + (IF e \in T THEN c[e] ELSE 0)]
  BY <1>1 DEF (+)
<1>3. \A e \in S \cup T : (IF e \in S THEN b[e] ELSE 0) + (IF e \in T THEN c[e] ELSE 0) = 1
  BY DEF SetToBag
<1> HIDE DEF b, c
<1>4. b (+) c = [e \in S \cup T |-> 1]
  BY <1>2, <1>3
<1> QED
  BY <1>4 DEF SetToBag, b, c

LEMMA ElementsOfSet ==
  ASSUME NEW S
  PROVE  BagToSet(SetToBag(S)) = S /\ \A e \in S : SetToBag(S)[e] = 1
BY DEF BagToSet, SetToBag

LEMMA LineParts ==
  ASSUME NEW p, NEW s, NEW c
  PROVE  Line(p, s, c).job = p /\ Line(p, s, c).state = s /\ Line(p, s, c).change = c
BY DEF Line

\* Which port each kind of line is about.
LEMMA JobsOfLines ==
  ASSUME TypeOK
  PROVE  /\ {l.job : l \in Recovered} = preFound
         /\ {l.job : l \in Shown} = {r.job : r \in Listed}
         /\ Missed = prevScan \ (preFound \cup {r.job : r \in Listed})
         /\ \A l \in Gone : l.job \in Missed
<1>1. {l.job : l \in Recovered} = preFound
  <2>1. ASSUME NEW l \in Recovered PROVE l.job \in preFound
    <3>1. PICK p \in preFound : l = Line(p, "open", "")
      BY DEF Recovered
    <3>2. Line(p, "open", "").job = p
      BY DEF Line
    <3> QED
      BY <3>1, <3>2, Zenon
  <2>2. \A p \in preFound : Line(p, "open", "") \in Recovered /\ Line(p, "open", "").job = p
    BY DEF Recovered, Line
  <2> QED
    BY <2>1, <2>2
<1>2. {l.job : l \in Shown} = {r.job : r \in Listed}
  BY LineParts DEF Shown
<1>3. {l.job : l \in Recovered \cup Shown} = preFound \cup {r.job : r \in Listed}
  BY <1>1, <1>2
<1>4. Missed = prevScan \ (preFound \cup {r.job : r \in Listed})
  BY <1>3 DEF Missed
<1>5. \A l \in Gone : l.job \in Missed
  BY LineParts DEF Gone
<1> QED
  BY <1>1, <1>2, <1>4, <1>5

-----------------------------------------------------------------------------
\* The steps.
LEMMA StepKinds ==
  ASSUME [Next]_vars
  PROVE  \/ \E j \in Jobs : ScanStep /\ Scan!Take(j)
         \/ \E j \in Jobs : ScanStep /\ Scan!Drop(j)
         \/ ScanStep /\ Scan!Cancel
         \/ \E j \in taken : \E r \in [job : {j}, state : Scan!States, cause : Scan!Causes] : Round(r)
         \/ LeaveLoop
         \/ AddClosed
         \/ Write
         \/ UNCHANGED vars
<1>1. CASE ScanStep
  BY <1>1 DEF ScanStep
<1> QED
  BY <1>1 DEF Next, Ended

LEMMA TypeInit == Init => TypeOK
<1> SUFFICES ASSUME Init PROVE TypeOK
  OBVIOUS
<1>1. prevScan \subseteq Ports /\ (~diffing => prevScan = {})
  BY DEF Init
<1>2. /\ ckptDone \subseteq Jobs /\ preFound \subseteq ckptDone /\ todo \subseteq Jobs
      /\ taken = {} /\ reported = {} /\ phase = "loop"
  BY DEF Init, Scan!Init
<1> QED
  BY <1>1, <1>2 DEF TypeOK

\* The options stay as they are.
LEMMA OptionsStay == [Next]_vars => UNCHANGED options /\ ckptDone' = ckptDone
<1> SUFFICES ASSUME [Next]_vars PROVE UNCHANGED options /\ ckptDone' = ckptDone
  OBVIOUS
<1>1. ASSUME NEW j \in Jobs, ScanStep, Scan!Take(j) \/ Scan!Drop(j) \/ Scan!Cancel
      PROVE  UNCHANGED options /\ ckptDone' = ckptDone
  BY <1>1 DEF ScanStep, Scan!Take, Scan!Drop, Scan!Cancel
<1>2. CASE ScanStep /\ Scan!Cancel
  BY <1>2 DEF ScanStep, Scan!Cancel
<1>3. ASSUME NEW r, Round(r) PROVE UNCHANGED options /\ ckptDone' = ckptDone
  BY <1>3 DEF Round, Scan!Report
<1>4. CASE LeaveLoop
  BY <1>4 DEF LeaveLoop, Scan!Finish
<1>5. CASE AddClosed \/ Write \/ UNCHANGED vars
  BY <1>5 DEF AddClosed, Write, vars, scanVars
<1> QED
  BY <1>1, <1>2, <1>3, <1>4, <1>5, StepKinds

LEMMA TypeStep == TypeOK /\ [Next]_vars => TypeOK'
<1> SUFFICES ASSUME TypeOK, [Next]_vars PROVE TypeOK'
  OBVIOUS
<1>0. /\ prevScan' \subseteq Ports /\ ckptDone' \subseteq Jobs /\ preFound' \subseteq ckptDone'
      /\ ~diffing' => prevScan' = {}
  BY OptionsStay DEF options, TypeOK
<1>1. CASE /\ todo' \subseteq todo \cup taken /\ taken' \subseteq todo \cup taken
           /\ reported' = reported /\ phase' = phase
  BY <1>0, <1>1 DEF TypeOK
<1>2. ASSUME NEW j \in Jobs, ScanStep, Scan!Take(j) PROVE TypeOK'
  BY <1>1, <1>2 DEF ScanStep, Scan!Take
<1>3. ASSUME NEW j \in Jobs, ScanStep, Scan!Drop(j) PROVE TypeOK'
  BY <1>1, <1>3 DEF ScanStep, Scan!Drop
<1>4. CASE ScanStep /\ Scan!Cancel
  BY <1>1, <1>4 DEF ScanStep, Scan!Cancel
<1>5. ASSUME NEW j \in taken, NEW r \in [job : {j}, state : Scan!States, cause : Scan!Causes],
             Round(r)
      PROVE  TypeOK'
  <2>1. r \in Scan!Results
    BY DEF Scan!Results, TypeOK
  <2> QED
    BY <1>0, <1>5, <2>1 DEF Round, Scan!Report, TypeOK
<1>6. CASE LeaveLoop
  BY <1>0, <1>6 DEF LeaveLoop, Scan!Finish, TypeOK
<1>7. CASE AddClosed
  BY <1>0, <1>7 DEF AddClosed, scanVars, TypeOK
<1>8. CASE Write
  BY <1>0, <1>8 DEF Write, scanVars, TypeOK
<1>9. CASE UNCHANGED vars
  BY <1>1, <1>9 DEF vars, scanVars
<1> QED
  BY <1>2, <1>3, <1>4, <1>5, <1>6, <1>7, <1>8, <1>9, StepKinds

LEMMA PlacedStep == TypeOK /\ Placed /\ [Next]_vars => Placed'
<1> SUFFICES ASSUME TypeOK, Placed, [Next]_vars PROVE Placed'
  OBVIOUS
<1>1. ASSUME NEW j \in Jobs, ScanStep, Scan!Take(j) PROVE Placed'
  BY <1>1 DEF Scan!Take, Placed
<1>2. ASSUME NEW j \in Jobs, ScanStep, Scan!Drop(j) PROVE Placed'
  BY <1>2 DEF Scan!Drop, Placed
<1>3. CASE ScanStep /\ Scan!Cancel
  BY <1>3 DEF Scan!Cancel, Placed
<1>4. ASSUME NEW j \in taken, NEW r \in [job : {j}, state : Scan!States, cause : Scan!Causes],
             Round(r)
      PROVE  Placed'
  <2>1. /\ r.job \in taken /\ taken' = taken \ {r.job} /\ reported' = reported \cup {r}
        /\ ckptDone' = ckptDone /\ todo' = todo
    BY <1>4 DEF Round, Scan!Report
  <2> QED
    BY <2>1 DEF Placed
<1>5. CASE LeaveLoop
  BY <1>5 DEF LeaveLoop, Scan!Finish, Placed
<1>6. CASE AddClosed \/ Write \/ UNCHANGED vars
  BY <1>6 DEF AddClosed, Write, vars, scanVars, Placed
<1> QED
  BY <1>1, <1>2, <1>3, <1>4, <1>5, <1>6, StepKinds

-----------------------------------------------------------------------------
\* The lines depend on the options, the results and the phase only.
LEMMA LinesStay ==
  ASSUME UNCHANGED options, reported' = reported
  PROVE  Recovered' = Recovered /\ Shown' = Shown /\ Missed' = Missed
BY DEF options, Recovered, Shown, Listed, Missed, ChangeOf

LEMMA ContentInit == Init => Content
<1> SUFFICES ASSUME Init PROVE Content
  OBVIOUS
<1>1. Shown = {} /\ Gone = {}
  BY DEF Init, Scan!Init, Shown, Listed, Gone
<1>2. /\ found = SetToBag(Recovered) /\ sink = SetToBag({}) /\ phase = "loop"
  BY DEF Init, EmptyBag
<1>3. Recovered \cup Shown \cup Gone = Recovered /\ Shown \cup Gone = {}
  BY <1>1
<1> QED
  BY <1>2, <1>3 DEF Content, EmptyBag

\* One round adds the line of its result.
LEMMA RoundLines ==
  ASSUME TypeOK, Placed, NEW j \in taken,
         NEW r \in [job : {j}, state : Scan!States, cause : Scan!Causes], Round(r)
  PROVE  /\ Shown' = Shown \cup (IF IsOpen(r) \/ showAll
                                 THEN {Line(r.job, r.state, ChangeOf(r))} ELSE {})
         /\ \A l \in Recovered \cup Shown : l.job # r.job
         /\ Gone = {} /\ Gone' = {} /\ Recovered' = Recovered
<1>1. /\ UNCHANGED options /\ phase = "loop" /\ phase' = "loop"
      /\ reported' = reported \cup {r} /\ r.job \in taken
  BY DEF Round, Scan!Report
<1>2. \A q : ChangeOf(q)' = ChangeOf(q)
  BY <1>1 DEF options, ChangeOf
<1>3. Listed' = Listed \cup (IF IsOpen(r) \/ showAll THEN {r} ELSE {})
  BY <1>1 DEF Listed, options
<1>4. Shown' = {Line(q.job, q.state, ChangeOf(q)) : q \in Listed'}
  BY <1>1 DEF Shown, options, ChangeOf
<1>5. Shown' = Shown \cup (IF IsOpen(r) \/ showAll
                           THEN {Line(r.job, r.state, ChangeOf(r))} ELSE {})
  BY <1>3, <1>4 DEF Shown
<1>6. \A l \in Recovered \cup Shown : l.job # r.job
  BY <1>1, JobsOfLines DEF Placed, TypeOK, Listed
<1> QED
  BY <1>1, <1>5, <1>6 DEF Gone, Recovered, options

LEMMA ContentStep == TypeOK /\ Placed /\ Content /\ [Next]_vars => Content'
<1> SUFFICES ASSUME TypeOK, Placed, Content, [Next]_vars PROVE Content'
  OBVIOUS
<1>0. UNCHANGED <<diffing, showAll, stream, prevScan, preFound>>
  BY OptionsStay DEF options
<1>1. ASSUME UNCHANGED <<reported, found, sink>>, phase' = phase \/ LeaveLoop PROVE Content'
  <2>1. Recovered' = Recovered /\ Shown' = Shown /\ Missed' = Missed
    BY <1>1, LinesStay, OptionsStay
  <2>2. Gone' = Gone /\ (phase' = "done" <=> phase = "done")
    BY <1>1, <2>1 DEF Gone, LeaveLoop
  <2> QED
    BY <1>0, <1>1, <2>1, <2>2 DEF Content
<1>2. ASSUME NEW j \in Jobs, ScanStep, Scan!Take(j) PROVE Content'
  BY <1>1, <1>2 DEF ScanStep, Scan!Take
<1>3. ASSUME NEW j \in Jobs, ScanStep, Scan!Drop(j) PROVE Content'
  BY <1>1, <1>3 DEF ScanStep, Scan!Drop
<1>4. CASE ScanStep /\ Scan!Cancel
  BY <1>1, <1>4 DEF ScanStep, Scan!Cancel
<1>5. CASE LeaveLoop
  BY <1>1, <1>5 DEF LeaveLoop, Scan!Finish
<1>6. CASE UNCHANGED vars
  BY <1>1, <1>6 DEF vars, scanVars
<1>7. ASSUME NEW j \in taken, NEW r \in [job : {j}, state : Scan!States, cause : Scan!Causes],
             Round(r)
      PROVE  Content'
  <2> DEFINE More == IF IsOpen(r) \/ showAll THEN {Line(r.job, r.state, ChangeOf(r))} ELSE {}
             Old == Recovered \cup Shown
  <2>1. /\ Shown' = Shown \cup More
        /\ \A l \in Old : l.job # r.job
        /\ Gone = {} /\ Gone' = {} /\ Recovered' = Recovered
    BY <1>7, RoundLines
  <2>2. Old \cap More = {} /\ Shown \cap More = {}
    BY <2>1, LineParts
  <2>3. /\ phase = "loop" /\ phase' = "loop"
        /\ found' = found (+) SetToBag(More)
        /\ sink' = IF stream THEN sink (+) SetToBag(More) ELSE sink
    BY <1>7 DEF Round, EmptyBag
  <2> HIDE DEF More
  <2>4. /\ found = SetToBag(Old)
        /\ sink = IF stream THEN SetToBag(Shown) ELSE EmptyBag
    <3>1. Recovered \cup Shown \cup Gone = Old /\ Shown \cup Gone = Shown
      BY <2>1
    <3> QED
      BY <2>3, <3>1 DEF Content
  <2>5. found' = SetToBag(Old \cup More)
    BY <2>2, <2>3, <2>4, DisjointUnion
  <2>6. sink' = IF stream THEN SetToBag(Shown \cup More) ELSE EmptyBag
    BY <2>2, <2>3, <2>4, DisjointUnion
  <2>7. Recovered' \cup Shown' \cup Gone' = Old \cup More /\ Shown' \cup Gone' = Shown \cup More
    BY <2>1
  <2> QED
    BY <1>0, <2>3, <2>5, <2>6, <2>7 DEF Content
<1>8. CASE AddClosed
  <2> DEFINE Old == Recovered \cup Shown
  <2>1. Recovered' = Recovered /\ Shown' = Shown /\ Missed' = Missed
    BY <1>8, LinesStay, OptionsStay DEF AddClosed, scanVars
  <2>2. phase = "diff" /\ phase' = "write"
    BY <1>8 DEF AddClosed
  <2>3. Gone = {} /\ Gone' = {Line(p, "closed", "closed") : p \in Missed}
    BY <2>1, <2>2 DEF Gone
  <2>4. found = SetToBag(Old) /\ sink = IF stream THEN SetToBag(Shown) ELSE EmptyBag
    <3>1. Recovered \cup Shown \cup Gone = Old /\ Shown \cup Gone = Shown
      BY <2>3
    <3> QED
      BY <2>2, <3>1 DEF Content
  <2>5. Closed = Gone'
    <3>1. BagToSet(found) = Old
      BY <2>4, ElementsOfSet
    <3> QED
      BY <2>3, <3>1 DEF Closed, Missed
  <2>6. Old \cap Closed = {} /\ Shown \cap Closed = {}
    BY <2>3, <2>5, LineParts DEF Missed
  <2>7. ~diffing => Gone' = {}
    BY <2>3 DEF TypeOK, Missed
  <2>8. found' = SetToBag(Old \cup Gone')
    <3>1. CASE diffing
      BY <1>8, <2>4, <2>5, <2>6, <3>1, DisjointUnion DEF AddClosed
    <3>2. CASE ~diffing
      BY <1>8, <2>4, <2>7, <3>2 DEF AddClosed
    <3> QED
      BY <3>1, <3>2
  <2>9. sink' = IF stream THEN SetToBag(Shown \cup Gone') ELSE EmptyBag
    <3>1. CASE diffing
      BY <1>8, <2>4, <2>5, <2>6, <3>1, DisjointUnion DEF AddClosed
    <3>2. CASE ~diffing
      BY <1>8, <2>4, <2>7, <3>2 DEF AddClosed
    <3> QED
      BY <3>1, <3>2
  <2> QED
    BY <1>0, <2>1, <2>2, <2>8, <2>9 DEF Content
<1>9. CASE Write
  <2>1. Recovered' = Recovered /\ Shown' = Shown /\ Missed' = Missed
    BY <1>9, LinesStay, OptionsStay DEF Write, scanVars
  <2>2. phase = "write" /\ phase' = "done" /\ found' = found
        /\ sink' = IF stream THEN sink ELSE found
    BY <1>9 DEF Write
  <2>3. Gone' = Gone
    BY <2>1, <2>2 DEF Gone
  <2> QED
    BY <1>0, <2>1, <2>2, <2>3 DEF Content
<1> QED
  BY <1>2, <1>3, <1>4, <1>5, <1>6, <1>7, <1>8, <1>9, StepKinds

\* Jobs are in one place, and the list and the output hold the lines of what
\* was recovered, found out and missed, each once.
THEOREM ReportInvariant == Spec => []ReportInv
<1>1. Init => ReportInv
  <2>1. Init => Placed
    BY DEF Init, Scan!Init, Placed
  <2> QED
    BY <2>1, TypeInit, ContentInit DEF ReportInv
<1>2. ReportInv /\ [Next]_vars => ReportInv'
  BY TypeStep, PlacedStep, ContentStep DEF ReportInv
<1> QED
  BY <1>1, <1>2, PTL DEF Spec

-----------------------------------------------------------------------------
\* Each port has one line: the kinds of lines are about different ports, and
\* the lines of one kind are told apart by their port.
LEMMA OneLineOfSet ==
  ASSUME TypeOK, Placed
  PROVE  \A l, k \in Recovered \cup Shown \cup Gone : l.job = k.job => l = k
<1>1. \A l, k \in Recovered : l.job = k.job => l = k
  <2> SUFFICES ASSUME NEW l \in Recovered, NEW k \in Recovered, l.job = k.job PROVE l = k
    OBVIOUS
  <2>1. PICK p \in preFound : l = Line(p, "open", "")
    BY DEF Recovered
  <2>2. PICK q \in preFound : k = Line(q, "open", "")
    BY DEF Recovered
  <2>3. Line(p, "open", "").job = p /\ Line(q, "open", "").job = q
    BY DEF Line
  <2> QED
    BY <2>1, <2>2, <2>3, Zenon
<1>2. \A l, k \in Shown : l.job = k.job => l = k
  <2> SUFFICES ASSUME NEW l \in Shown, NEW k \in Shown, l.job = k.job PROVE l = k
    OBVIOUS
  <2>1. PICK r \in Listed : l = Line(r.job, r.state, ChangeOf(r))
    BY DEF Shown
  <2>2. PICK q \in Listed : k = Line(q.job, q.state, ChangeOf(q))
    BY DEF Shown
  <2>3. r.job = q.job
    BY <2>1, <2>2, LineParts
  <2>4. r = q
    BY <2>3 DEF Placed, Listed
  <2> QED
    BY <2>1, <2>2, <2>4, Zenon
<1>3. \A l, k \in Gone : l.job = k.job => l = k
  <2> SUFFICES ASSUME NEW l \in Gone, NEW k \in Gone, l.job = k.job PROVE l = k
    OBVIOUS
  <2>1. PICK p \in Missed : l = Line(p, "closed", "closed")
    BY DEF Gone
  <2>2. PICK q \in Missed : k = Line(q, "closed", "closed")
    BY DEF Gone
  <2>3. Line(p, "closed", "closed").job = p /\ Line(q, "closed", "closed").job = q
    BY DEF Line
  <2> QED
    BY <2>1, <2>2, <2>3, Zenon
<1>4. /\ \A l \in Recovered : l.job \in preFound
      /\ \A l \in Shown : l.job \in {r.job : r \in Listed}
      /\ \A l \in Gone : l.job \in Missed
      /\ preFound \cap {r.job : r \in Listed} = {}
      /\ Missed \cap (preFound \cup {r.job : r \in Listed}) = {}
  BY JobsOfLines DEF Placed, Listed, TypeOK
<1> QED
  BY <1>1, <1>2, <1>3, <1>4

\* fastTCPScan.go:1265 and 1282, diff.go:41: no port has two lines in the report
\* or in the stream, or the same line twice.
THEOREM ReportOneLinePerPort == Spec => []OneLinePerPort
<1>1. ReportInv => OneLinePerPort
  <2> SUFFICES ASSUME ReportInv PROVE OneLinePerPort
    OBVIOUS
  <2> DEFINE All == Recovered \cup Shown \cup Gone
  <2>1. \A l, k \in All : l.job = k.job => l = k
    BY OneLineOfSet DEF ReportInv
  <2> HIDE DEF All
  <2>2. ASSUME NEW S, S \subseteq All PROVE OneLine(SetToBag(S))
    BY <2>1, <2>2, ElementsOfSet DEF OneLine
  <2>3. found = SetToBag(All)
    BY DEF ReportInv, Content, All
  <2>4. OneLine(found)
    BY <2>2, <2>3
  <2>5. \/ sink = SetToBag(Shown \cup Gone)
        \/ sink = found
        \/ sink = SetToBag({})
    BY DEF ReportInv, Content, EmptyBag
  <2>6. Shown \cup Gone \subseteq All
    BY DEF All
  <2> QED
    BY <2>2, <2>4, <2>5, <2>6 DEF OneLinePerPort
<1> QED
  BY <1>1, ReportInvariant, PTL

-----------------------------------------------------------------------------
\* The lines of one port, kind by kind.
LEMMA LinesOfPort ==
  ASSUME TypeOK, NEW p
  PROVE  /\ {l \in Recovered : l.job = p} = IF p \in preFound THEN {Line(p, "open", "")} ELSE {}
         /\ {l \in Shown : l.job = p}
              = {Line(p, r.state, ChangeOf(r)) : r \in {q \in Listed : q.job = p}}
         /\ phase = "done" =>
              {l \in Gone : l.job = p} = IF p \in Missed THEN {Line(p, "closed", "closed")} ELSE {}
<1> DEFINE L(q) == Line(q, "open", "")
           G(q) == Line(q, "closed", "closed")
<1>1. (\A q : L(q).job = q) /\ (\A q : G(q).job = q)
  BY DEF Line
<1>2. Recovered = {L(q) : q \in preFound} /\ (phase = "done" => Gone = {G(q) : q \in Missed})
  BY DEF Recovered, Gone
<1> HIDE DEF L, G
<1>3. {l \in Recovered : l.job = p} = IF p \in preFound THEN {L(p)} ELSE {}
  BY <1>1, <1>2
<1>4. phase = "done" => {l \in Gone : l.job = p} = IF p \in Missed THEN {G(p)} ELSE {}
  BY <1>1, <1>2
<1>5. {l \in Shown : l.job = p}
        = {Line(p, r.state, ChangeOf(r)) : r \in {q \in Listed : q.job = p}}
  BY LineParts DEF Shown
<1> QED
  BY <1>3, <1>4, <1>5 DEF L, G

\* The lines of one port in a finished report.
LEMMA LinesAtEnd ==
  ASSUME ReportInv, phase = "done", NEW p
  PROVE  LinesOf(p, sink) =
           (IF p \in preFound /\ ~stream THEN {Line(p, "open", "")} ELSE {})
           \cup {Line(p, r.state, ChangeOf(r)) : r \in {q \in Listed : q.job = p}}
           \cup (IF p \in Missed THEN {Line(p, "closed", "closed")} ELSE {})
<1>1. sink = IF stream THEN SetToBag(Shown \cup Gone) ELSE SetToBag(Recovered \cup Shown \cup Gone)
  BY DEF ReportInv, Content
<1>2. BagToSet(sink) = IF stream THEN Shown \cup Gone ELSE Recovered \cup Shown \cup Gone
  BY <1>1, ElementsOfSet
<1> DEFINE Of(S) == {l \in S : l.job = p}
<1>3. LinesOf(p, sink) = (IF stream THEN {} ELSE Of(Recovered)) \cup Of(Shown) \cup Of(Gone)
  BY <1>2 DEF LinesOf
<1>4. /\ Of(Recovered) = IF p \in preFound THEN {Line(p, "open", "")} ELSE {}
      /\ Of(Shown) = {Line(p, r.state, ChangeOf(r)) : r \in {q \in Listed : q.job = p}}
      /\ Of(Gone) = IF p \in Missed THEN {Line(p, "closed", "closed")} ELSE {}
  BY LinesOfPort DEF ReportInv
<1> HIDE DEF Of
<1> QED
  BY <1>3, <1>4, Zenon

\* What a report shows of a port.
Marks(S) == {<<l.state, l.change>> : l \in S}

LEMMA MarksOf ==
  /\ Marks({}) = {}
  /\ \A p, s, c : Marks({Line(p, s, c)}) = {<<s, c>>}
BY DEF Marks, Line

\* fastTCPScan.go:1253-1292, diff.go:35: the report says of each port what is
\* known of it, and nothing of the others.
THEOREM ReportIsExact == Spec => []ReportExact
<1>1. ReportInv => ReportExact
  <2> SUFFICES ASSUME ReportInv, phase = "done", NEW p \in Ports
               PROVE  LET states == {r.state : r \in {q \in reported : q.job = p}}
                      IN  Marks(LinesOf(p, sink)) =
                          IF p \in preFound THEN (IF stream THEN {} ELSE {<<"open", "">>})
                          ELSE IF p \in OpenNow
                               THEN {<<s, IF diffing /\ p \notin prevScan THEN "new" ELSE "">>
                                       : s \in states}
                          ELSE IF showAll /\ states # {} THEN states \X {""}
                          ELSE IF diffing /\ p \in prevScan THEN {<<"closed", "closed">>}
                          ELSE {}
    BY Zenon DEF ReportExact, Marks
  <2> DEFINE states == {r.state : r \in {q \in reported : q.job = p}}
             mine == {q \in Listed : q.job = p}
             shown == {Line(p, r.state, ChangeOf(r)) : r \in mine}
  <2>0. Missed = prevScan \ (preFound \cup {r.job : r \in Listed})
    BY JobsOfLines DEF ReportInv
  <2>a. LinesOf(p, sink) =
          (IF p \in preFound /\ ~stream THEN {Line(p, "open", "")} ELSE {})
          \cup shown \cup (IF p \in Missed THEN {Line(p, "closed", "closed")} ELSE {})
    BY LinesAtEnd
  <2>1. CASE p \in preFound
    <3>1. mine = {} /\ p \notin Missed
      BY <2>0, <2>1 DEF ReportInv, TypeOK, Placed, Listed
    <3>2. shown = {}
      BY <3>1
    <3>3. LinesOf(p, sink) = IF stream THEN {} ELSE {Line(p, "open", "")}
      BY <2>1, <2>a, <3>1, <3>2
    <3>4. Marks({Line(p, "open", "")}) = {<<"open", "">>} /\ Marks({}) = {}
      <4>1. PICK c : c = ""
        BY Zenon
      <4>2. Marks({Line(p, "open", c)}) = {<<"open", c>>} /\ Marks({}) = {}
        BY MarksOf
      <4> QED
        BY <4>1, <4>2, Zenon
    <3>5. Marks(LinesOf(p, sink)) = IF stream THEN {} ELSE {<<"open", "">>}
      BY <3>3, <3>4, Zenon
    <3> QED
      BY <2>1, <3>5, Zenon
  <2>2. ASSUME p \notin preFound, NEW r \in Listed, r.job = p
        PROVE  /\ Marks(LinesOf(p, sink)) = {<<r.state, ChangeOf(r)>>}
               /\ states = {r.state}
               /\ p \in OpenNow <=> IsOpen(r)
    <3>1. \A q \in reported : q.job = p => q = r
      BY <2>2 DEF ReportInv, Placed, Listed
    <3>2. mine = {r} /\ states = {r.state}
      BY <2>2, <3>1 DEF Listed
    <3>3. shown = {Line(p, r.state, ChangeOf(r))}
      BY <3>2
    <3>4. p \notin Missed
      BY <2>0, <2>2
    <3>5. LinesOf(p, sink) = {Line(p, r.state, ChangeOf(r))}
      BY <2>2, <2>a, <3>3, <3>4
    <3>6. Marks(LinesOf(p, sink)) = {<<r.state, ChangeOf(r)>>}
      <4> DEFINE c == ChangeOf(r)
      <4>1. Marks({Line(p, r.state, c)}) = {<<r.state, c>>}
        BY MarksOf
      <4> QED
        BY <3>5, <4>1, Zenon
    <3>7. p \in OpenNow <=> IsOpen(r)
      BY <2>2, <3>1 DEF OpenNow, Listed
    <3> QED
      BY <3>2, <3>6, <3>7
  <2>3. ASSUME p \notin preFound, ~ \E r \in Listed : r.job = p
        PROVE  /\ Marks(LinesOf(p, sink)) = IF p \in prevScan THEN {<<"closed", "closed">>} ELSE {}
               /\ p \notin OpenNow
               /\ ~(showAll /\ states # {})
    <3>1. mine = {} /\ (p \in Missed <=> p \in prevScan)
      BY <2>0, <2>3
    <3>2. shown = {}
      BY <3>1
    <3>3. LinesOf(p, sink) = IF p \in prevScan THEN {Line(p, "closed", "closed")} ELSE {}
      BY <2>3, <2>a, <3>1, <3>2
    <3>4. Marks({Line(p, "closed", "closed")}) = {<<"closed", "closed">>} /\ Marks({}) = {}
      BY MarksOf
    <3>5. Marks(LinesOf(p, sink)) = IF p \in prevScan THEN {<<"closed", "closed">>} ELSE {}
      BY <3>3, <3>4, Zenon
    <3>6. p \notin OpenNow /\ ~(showAll /\ states # {})
      BY <2>3 DEF OpenNow, Listed
    <3> QED
      BY <3>5, <3>6
  <2> HIDE DEF states
  <2>4. ASSUME p \notin preFound, NEW r \in Listed, r.job = p, IsOpen(r)
        PROVE  /\ p \in OpenNow
               /\ Marks(LinesOf(p, sink))
                    = {<<s, IF diffing /\ p \notin prevScan THEN "new" ELSE "">> : s \in states}
    <3>1. ChangeOf(r) = IF diffing /\ p \notin prevScan THEN "new" ELSE ""
      BY <2>4, Zenon DEF ChangeOf
    <3>2. PICK c : c = IF diffing /\ p \notin prevScan THEN "new" ELSE ""
      BY Zenon
    <3>3. ChangeOf(r) = c
      BY <3>1, <3>2, Zenon
    <3>4. {<<s, c>> : s \in states} = {<<r.state, c>>}
      BY <2>2, <2>4
    <3>5. Marks(LinesOf(p, sink)) = {<<s, c>> : s \in states} /\ p \in OpenNow
      BY <2>2, <2>4, <3>3, <3>4, Zenon
    <3> QED
      BY <3>2, <3>5, Zenon
  <2>5. ASSUME p \notin preFound, NEW r \in Listed, r.job = p, ~IsOpen(r)
        PROVE  /\ p \notin OpenNow /\ showAll /\ states # {}
               /\ Marks(LinesOf(p, sink)) = states \X {""}
    <3>1. ChangeOf(r) = "" /\ showAll
      BY <2>5, Zenon DEF ChangeOf, Listed
    <3>2. \A c : {r.state} \X {c} = {<<r.state, c>>}
      OBVIOUS
    <3>3. states = {r.state} /\ Marks(LinesOf(p, sink)) = {<<r.state, "">>} /\ p \notin OpenNow
      BY <2>2, <2>5, <3>1, Zenon
    <3> QED
      BY <3>1, <3>2, <3>3, Zenon
  <2>6. ~diffing => p \notin prevScan
    BY DEF ReportInv, TypeOK
  <2>7. CASE p \notin preFound /\ \E r \in Listed : r.job = p
    <3>1. PICK r \in Listed : r.job = p
      BY <2>7
    <3>2. CASE IsOpen(r)
      BY <2>4, <2>7, <3>1, <3>2, Zenon DEF states
    <3>3. CASE ~IsOpen(r)
      BY <2>5, <2>7, <3>1, <3>3, Zenon DEF states
    <3> QED
      BY <3>2, <3>3
  <2>8. CASE p \notin preFound /\ ~ \E r \in Listed : r.job = p
    BY <2>3, <2>6, <2>8, Zenon DEF states
  <2> QED
    BY <2>1, <2>7, <2>8, Zenon
<1> QED
  BY <1>1, ReportInvariant, PTL

\* diff.go:26: what the next -diff loads from a report is what is open now,
\* although the report may list closed ports.
THEOREM ReportIsBaseline == Spec => []BaselineExact
<1>1. ReportInv => BaselineExact
  <2> SUFFICES ASSUME ReportInv, phase = "done", ~stream PROVE LoadPrevious(sink) = OpenNow
    BY DEF BaselineExact
  <2> DEFINE All == Recovered \cup Shown \cup Gone
  <2>1. BagToSet(sink) = All
    BY ElementsOfSet DEF ReportInv, Content
  <2>2. LoadPrevious(sink) = {l.job : l \in {k \in All : IsOpen(k)}}
    BY <2>1 DEF LoadPrevious
  <2>3. ASSUME NEW p \in OpenNow PROVE \E l \in All : IsOpen(l) /\ l.job = p
    <3>1. CASE p \in preFound
      <4>1. Line(p, "open", "") \in Recovered
        BY <3>1 DEF Recovered
      <4>2. IsOpen(Line(p, "open", "")) /\ Line(p, "open", "").job = p
        BY DEF IsOpen, OpenStates, Line
      <4> QED
        BY <4>1, <4>2, Zenon
    <3>2. CASE p \notin preFound
      <4>1. PICK r \in reported : IsOpen(r) /\ r.job = p
        BY <3>2 DEF OpenNow
      <4> DEFINE l == Line(r.job, r.state, ChangeOf(r))
      <4>2. l \in Shown
        BY <4>1 DEF Shown, Listed
      <4>3. IsOpen(l) /\ l.job = p
        BY <4>1, LineParts DEF IsOpen
      <4> QED
        BY <4>2, <4>3
    <3> QED
      BY <3>1, <3>2
  <2>4. ASSUME NEW l \in All, IsOpen(l) PROVE l.job \in OpenNow
    <3>1. CASE l \in Recovered
      BY <3>1, JobsOfLines DEF ReportInv, OpenNow
    <3>2. CASE l \in Shown
      <4>1. PICK r \in Listed : l = Line(r.job, r.state, ChangeOf(r))
        BY <3>2 DEF Shown
      <4>2. l.job = r.job /\ l.state = r.state
        BY <4>1, LineParts
      <4>3. IsOpen(r)
        BY <2>4, <4>2 DEF IsOpen
      <4> QED
        BY <4>2, <4>3 DEF OpenNow, Listed
    <3>3. CASE l \in Gone
      <4>1. PICK p \in Missed : l = Line(p, "closed", "closed")
        BY <3>3 DEF Gone
      <4>2. l.state = "closed"
        BY <4>1 DEF Line
      <4> QED
        BY <2>4, <4>2 DEF IsOpen, OpenStates
    <3> QED
      BY <3>1, <3>2, <3>3
  <2> HIDE DEF All
  <2> QED
    BY <2>2, <2>3, <2>4
<1> QED
  BY <1>1, ReportInvariant, PTL
=============================================================================
