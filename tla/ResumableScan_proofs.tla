------------------------ MODULE ResumableScan_proofs ------------------------
(***************************************************************************)
(* The runs over one checkpoint file, for any number of runs, jobs and     *)
(* crashes: no port is recorded twice (OneRecordPerJob), the counters      *)
(* agree with the report (CountsExact), what a run misses was misjudged    *)
(* (MissedOnlyIfMisjudged), and how much of a run's work the file may lose *)
(* (LossBounded).  None is inductive.  ResumeInv adds where a job is, that *)
(* the file knows no more than the run does, what its lines say of their   *)
(* ports, what has become of every present port the run knows of, and what *)
(* an unterminated line may still cost.                                    *)
(***************************************************************************)
EXTENDS ResumableScan, FiniteSetTheorems, TLAPS

Lines == [proto : Protos, res : Scan!Results]

TypeOK ==
  /\ lines \in Seq(Lines)
  /\ tail \in {Clean, Debris} \cup {Whole(l) : l \in Lines}
  /\ proto \in Protos
  /\ ckptDone \subseteq Jobs
  /\ todo \subseteq Jobs
  /\ taken \subseteq Jobs
  /\ reported \subseteq Scan!Results
  /\ current \in Scan!Results \cup {NoResult}
  /\ writing => current \in Scan!Results
  /\ found \subseteq Protos \X Jobs
  /\ slips \in Nat

\* A job of a run is known to it, being probed or still to be probed, in one
\* way only; none is forgotten unless the run is cancelled.
Placed ==
  /\ Known \cap (todo \cup taken) = {}
  /\ todo \cap taken = {}
  /\ running \/ finished => cancelled \/ Known \cup todo \cup taken = Jobs

\* The file holds one line of a job at most, and only of jobs the run knows.
DistinctLines == \A i, k \in DOMAIN Valid : Valid[i].res.job = Valid[k].res.job => i = k

FileKnown == JobsIn(Valid) \subseteq Known

Counted ==
  /\ scanned = Cardinality(Known)
  /\ openCount = Cardinality(found)

\* What is in the report was counted, but for the result at hand.
FoundKnown ==
  /\ \A f \in found : f[2] \in Known /\ (writing => f[2] # current.job)
  /\ writing => current.job \in Known

\* A line says that its port is open if it is, unless nobody looked.
Truthful(l, m) == l.res.job \in Present(l.proto) => IsOpen(l.res) \/ l.res.job \in m

LinesTruthful == \A i \in DOMAIN Valid : Truthful(Valid[i], misjudged)

\* What has become of the ports that are there.
Accounted ==
  \A j \in Known \cap Present(proto) :
    \/ <<proto, j>> \in found
    \/ j \in misjudged \cup foreign
    \/ writing /\ current.job = j /\ IsOpen(current)

\* How many records the next one may cost beside those already lost: an
\* unterminated record and the one glued to it, or the one glued to debris.
Price == IF writing \/ tail = Clean THEN 0 ELSE IF tail = Debris THEN 1 ELSE 2

Budget == Cardinality(Known \ JobsIn(Valid)) + Price <= 2 + 2 * slips

ResumeInv ==
  /\ TypeOK
  /\ Placed
  /\ DistinctLines
  /\ FileKnown
  /\ Counted
  /\ FoundKnown
  /\ LinesTruthful
  /\ Accounted
  /\ Budget

-----------------------------------------------------------------------------
\* The steps, with the two forms of the scan's own step.
LEMMA StepKinds ==
  ASSUME [Next]_vars
  PROVE  \/ Start
         \/ ScanStep
         \/ Cancel
         \/ \E j \in taken : \E r \in Answers(j) : WriteJSON(r)
         \/ WriteNewline
         \/ Finish
         \/ Crash
         \/ UNCHANGED vars
BY DEF Next, Ended

\* What a sequence of lines becomes by one more.
LEMMA AppendLine ==
  ASSUME NEW s \in Seq(Lines), NEW x \in Lines
  PROVE  /\ Append(s, x) \in Seq(Lines)
         /\ DOMAIN s = 1 .. Len(s)
         /\ DOMAIN Append(s, x) = DOMAIN s \cup {Len(s) + 1}
         /\ Len(s) + 1 \notin DOMAIN s
         /\ \A i \in DOMAIN s : Append(s, x)[i] = s[i]
         /\ Append(s, x)[Len(s) + 1] = x
         /\ JobsIn(Append(s, x)) = JobsIn(s) \cup {x.res.job}
<1>1. /\ Append(s, x) \in Seq(Lines)
      /\ DOMAIN s = 1 .. Len(s)
      /\ DOMAIN Append(s, x) = DOMAIN s \cup {Len(s) + 1}
      /\ Len(s) + 1 \notin DOMAIN s
      /\ \A i \in DOMAIN s : Append(s, x)[i] = s[i]
      /\ Append(s, x)[Len(s) + 1] = x
  OBVIOUS
<1>2. JobsIn(Append(s, x)) = JobsIn(s) \cup {x.res.job}
  BY <1>1 DEF JobsIn
<1> QED
  BY <1>1, <1>2

\* The three shapes of the file's end.
LEMMA Tails ==
  ASSUME TypeOK
  PROVE  /\ Valid \in Seq(Lines)
         /\ \/ tail = Clean /\ Valid = lines
            \/ tail = Debris /\ Valid = lines
            \/ \E l \in Lines : tail = Whole(l) /\ Valid = Append(lines, l)
<1>1. tail = Clean => Valid = lines
  BY DEF Valid, Clean
<1>2. tail = Debris => Valid = lines
  BY DEF Valid, Debris
<1>3. \A l \in Lines : tail = Whole(l) => Valid = Append(lines, l)
  BY DEF Valid, Whole
<1>4. \A l \in Lines : Append(lines, l) \in Seq(Lines)
  BY DEF TypeOK
<1> QED
  BY <1>1, <1>2, <1>3, <1>4 DEF TypeOK

\* The three shapes are different.
LEMMA TailsDiffer ==
  /\ Clean # Debris
  /\ \A l : Whole(l) # Clean /\ Whole(l) # Debris
<1>1. Clean.kind = "clean" /\ Debris.kind = "debris" /\ \A l : Whole(l).kind = "whole"
  BY DEF Clean, Debris, Whole
<1> QED
  BY <1>1

\* A result a probe comes back with.
LEMMA AnswerKnown ==
  ASSUME TypeOK, NEW j \in taken, NEW r \in Answers(j)
  PROVE  /\ r \in Scan!Results
         /\ r.job = j
         /\ Recorded(r) \in Lines
         /\ Recorded(r).res = r
         /\ Recorded(r).proto = proto
         /\ r.cause = "network" /\ j \in Present(proto) => IsOpen(r)
<1>1. r \in [job : {j}, state : {"open", "closed", "open|filtered"}, cause : Scan!Causes]
  BY DEF Answers
<1>2. r \in Scan!Results /\ r.job = j
  BY <1>1 DEF Scan!Results, Scan!States, TypeOK
<1>3. r.cause = "network" => (r.state = "open" <=> j \in Present(proto))
  BY DEF Answers
<1>4. r.cause = "network" /\ j \in Present(proto) => IsOpen(r)
  BY <1>3 DEF IsOpen
<1>5. /\ Recorded(r) \in Lines
      /\ Recorded(r).res = r
      /\ Recorded(r).proto = proto
  BY <1>2 DEF Recorded, Lines, TypeOK
<1> QED
  BY <1>2, <1>4, <1>5

\* What recording a result does to the valid lines: one more, none, or the
\* loss of an unterminated one.
LEMMA ValidAfterWrite ==
  ASSUME TypeOK, NEW j \in taken, NEW r \in Answers(j), WriteJSON(r)
  PROVE  /\ tail' \in {Clean, Debris} \cup {Whole(l) : l \in Lines}
         /\ \/ /\ tail = Clean
               /\ tail' = Whole(Recorded(r))
               /\ slips' = slips
               /\ Valid = lines
               /\ Valid' = Append(lines, Recorded(r))
            \/ /\ tail # Clean
               /\ tail' = Debris
               /\ slips' = slips
               /\ Valid' = lines
            \/ /\ tail' \in {tail, Debris}
               /\ slips' = slips + 1
               /\ tail' = tail => Valid' = Valid
               /\ tail' = Debris => Valid' = lines
<1>1. lines' = lines
  BY DEF WriteJSON
<1>2. Recorded(r) \in Lines
  BY AnswerKnown
<1>3. tail' = Debris => Valid' = lines
  BY <1>1 DEF Valid, Debris
<1>4. tail' = Whole(Recorded(r)) => Valid' = Append(lines, Recorded(r))
  BY <1>1 DEF Valid, Whole
<1>5. tail' = tail => Valid' = Valid
  BY <1>1 DEF Valid
<1>6. tail = Clean => Valid = lines
  BY DEF Valid, Clean
<1>7. \/ /\ tail' = (IF tail = Clean THEN Whole(Recorded(r)) ELSE Debris)
         /\ slips' = slips
      \/ tail' \in {tail, Debris} /\ slips' = slips + 1
  BY DEF WriteJSON
<1>8. tail' \in {Whole(Recorded(r)), Debris, tail}
  BY <1>7
<1>9. tail' \in {Clean, Debris} \cup {Whole(l) : l \in Lines}
  BY <1>2, <1>8 DEF TypeOK
<1> QED
  BY <1>3, <1>4, <1>5, <1>6, <1>7, <1>9

\* The newline terminates what there is: the valid lines stay.
LEMMA ValidAfterNewline ==
  ASSUME TypeOK, WriteNewline
  PROVE  /\ Valid' = Valid
         /\ lines' \in Seq(Lines)
         /\ tail' \in {Clean, Debris} \cup {Whole(l) : l \in Lines}
         /\ \/ tail' = Clean /\ slips' = slips
            \/ tail' = tail /\ slips' = slips + 1
<1>1. CASE lines' = Valid /\ tail' = Clean /\ slips' = slips
  <2>1. Valid' = Valid
    BY <1>1 DEF Valid, Clean
  <2> QED
    BY <1>1, <2>1, Tails
<1>2. CASE lines' = lines /\ tail' = tail /\ slips' = slips + 1
  <2>1. Valid' = Valid
    BY <1>2 DEF Valid
  <2> QED
    BY <1>2, <2>1 DEF TypeOK
<1> QED
  BY <1>1, <1>2 DEF WriteNewline, fileVars

\* The other steps leave the file alone.
LEMMA ValidElsewhere ==
  ASSUME Start \/ ScanStep \/ Cancel \/ Finish \/ Crash \/ UNCHANGED vars
  PROVE  Valid' = Valid /\ lines' = lines /\ tail' = tail
<1>1. lines' = lines /\ tail' = tail
  BY DEF Start, ScanStep, Cancel, Finish, Crash, vars, fileVars
<1> QED
  BY <1>1 DEF Valid

-----------------------------------------------------------------------------
\* Types.
LEMMA TypeInit == Init => TypeOK
<1> SUFFICES ASSUME Init PROVE TypeOK
  OBVIOUS
<1>1. lines \in Seq(Lines) /\ slips \in Nat
  BY DEF Init
<1>2. tail = Clean /\ proto \in Protos /\ ckptDone = {} /\ todo = {} /\ taken = {}
  BY DEF Init
<1>3. reported = {} /\ ~writing /\ current = NoResult /\ found = {}
  BY DEF Init
<1> QED
  BY <1>1, <1>2, <1>3, Zenon DEF TypeOK

LEMMA TypeStep == TypeOK /\ [Next]_vars => TypeOK'
<1> SUFFICES ASSUME TypeOK, [Next]_vars PROVE TypeOK'
  OBVIOUS
<1>1. CASE Start
  <2>1. Valid \in Seq(Lines) /\ DOMAIN Valid = 1 .. Len(Valid)
    BY Tails
  <2>2. \A i \in DOMAIN Valid : Valid[i] \in Lines
    BY <2>1
  <2>3. JobsIn(Valid) \subseteq Jobs /\ ToEmit \subseteq Jobs
    BY <2>2 DEF JobsIn, ToEmit, Lines, Scan!Results
  <2>4. {<<Valid[i].proto, Valid[i].res.job>> : i \in PreFound} \subseteq Protos \X Jobs
    BY <2>2 DEF PreFound, Lines, Scan!Results
  <2>5. /\ proto' \in Protos /\ ckptDone' = JobsIn(Valid) /\ todo' = ToEmit
        /\ taken' = {} /\ reported' = {} /\ writing' = FALSE /\ current' = NoResult
        /\ found' = {<<Valid[i].proto, Valid[i].res.job>> : i \in PreFound}
        /\ slips' = 0
    BY <1>1 DEF Start
  <2>6. lines' \in Seq(Lines) /\ tail' \in {Clean, Debris} \cup {Whole(l) : l \in Lines}
    BY <1>1, ValidElsewhere DEF TypeOK
  <2>7. slips' \in Nat
    BY <2>5
  <2> QED
    BY <2>3, <2>4, <2>5, <2>6, <2>7, Zenon DEF TypeOK
<1>2. CASE ScanStep
  <2>1. PICK j \in Jobs : Scan!Take(j) \/ Scan!Drop(j)
    BY <1>2 DEF ScanStep
  <2>2. todo' \subseteq Jobs /\ taken' \subseteq Jobs /\ UNCHANGED <<ckptDone, reported>>
    BY <2>1 DEF Scan!Take, Scan!Drop, TypeOK
  <2> QED
    BY <1>2, <2>2 DEF ScanStep, TypeOK, fileVars, mainVars
<1>3. CASE Cancel
  BY <1>3 DEF Cancel, Scan!Cancel, TypeOK, fileVars, mainVars
<1>4. ASSUME NEW j \in taken, NEW r \in Answers(j), WriteJSON(r) PROVE TypeOK'
  <2>1. tail' \in {Clean, Debris} \cup {Whole(l) : l \in Lines}
    BY <1>4, ValidAfterWrite
  <2>2. slips' \in Nat
    BY <1>4 DEF WriteJSON, TypeOK
  <2>3. r \in Scan!Results
    BY AnswerKnown
  <2>4. /\ taken' = taken \ {r.job} /\ reported' = reported \cup {r}
        /\ UNCHANGED <<ckptDone, todo>> /\ current' = r
        /\ UNCHANGED <<lines, proto, found>>
    BY <1>4 DEF WriteJSON, Scan!Report
  <2> QED
    BY <2>1, <2>2, <2>3, <2>4 DEF TypeOK
<1>5. CASE WriteNewline
  <2>1. /\ lines' \in Seq(Lines) /\ tail' \in {Clean, Debris} \cup {Whole(l) : l \in Lines}
        /\ slips' \in Nat
    BY <1>5, ValidAfterNewline DEF TypeOK
  <2>2. /\ writing' = FALSE /\ current' = NoResult
        /\ UNCHANGED <<proto, ckptDone, todo, taken, reported>>
    BY <1>5 DEF WriteNewline, Note, scanVars
  <2>3. writing /\ (found' = found \/ found' = found \cup {<<proto, current.job>>})
    BY <1>5 DEF WriteNewline, Note
  <2>4. current.job \in Jobs /\ proto \in Protos
    BY <2>3 DEF TypeOK, Scan!Results
  <2>5. found' \subseteq Protos \X Jobs
    BY <2>3, <2>4 DEF TypeOK
  <2> QED
    BY <2>1, <2>2, <2>5 DEF TypeOK
<1>6. CASE Finish
  BY <1>6 DEF Finish, Scan!Finish, TypeOK, fileVars, mainVars
<1>7. CASE Crash \/ UNCHANGED vars
  BY <1>7 DEF Crash, TypeOK, fileVars, mainVars, scanVars, vars
<1> QED
  BY <1>1, <1>2, <1>3, <1>4, <1>5, <1>6, <1>7, StepKinds

-----------------------------------------------------------------------------
\* What a step does to the jobs the run knows.
LEMMA KnownFinite ==
  ASSUME TypeOK
  PROVE  Known \subseteq Jobs /\ IsFiniteSet(Known) /\ IsFiniteSet(found)
<1>1. Known \subseteq Jobs
  BY DEF TypeOK, Known, Scan!Results
<1>2. IsFiniteSet(Jobs)
  BY ResumeAssumption DEF ResumeAssumption
<1>3. IsFiniteSet({"tcp", "udp"} \X Jobs)
  <2>1. IsFiniteSet({"tcp"}) /\ {"tcp", "udp"} = {"tcp"} \cup {"udp"}
    BY FS_Singleton
  <2>2. IsFiniteSet({"tcp", "udp"})
    BY <2>1, FS_AddElement
  <2> QED
    BY <1>2, <2>2, FS_Product
<1>4. found \in SUBSET ({"tcp", "udp"} \X Jobs)
  BY ResumeAssumption DEF ResumeAssumption, TypeOK
<1> QED
  BY <1>1, <1>2, <1>3, <1>4, FS_Subset

LEMMA KnownAfterWrite ==
  ASSUME NEW j, NEW r \in Answers(j), WriteJSON(r)
  PROVE  Known' = Known \cup {r.job}
BY DEF WriteJSON, Scan!Report, Known

LEMMA KnownAfterStart == Start => Known' = JobsIn(Valid)
BY DEF Start, Known

LEMMA KnownElsewhere ==
  ASSUME ScanStep \/ Cancel \/ WriteNewline \/ Finish \/ Crash \/ UNCHANGED vars
  PROVE  Known' = Known
<1>1. ckptDone' = ckptDone /\ reported' = reported
  <2>1. CASE ScanStep
    BY <2>1 DEF ScanStep, Scan!Take, Scan!Drop
  <2>2. CASE Cancel \/ Finish
    BY <2>2 DEF Cancel, Scan!Cancel, Finish, Scan!Finish
  <2>3. CASE WriteNewline \/ Crash \/ UNCHANGED vars
    BY <2>3 DEF WriteNewline, Note, Crash, scanVars, vars
  <2> QED
    BY <2>1, <2>2, <2>3
<1> QED
  BY <1>1 DEF Known

LEMMA PlacedStep == TypeOK /\ Placed /\ [Next]_vars => Placed'
<1> SUFFICES ASSUME TypeOK, Placed, [Next]_vars PROVE Placed'
  OBVIOUS
<1>1. CASE Start
  <2>1. /\ Known' = JobsIn(Valid) /\ todo' = Jobs \ JobsIn(Valid) /\ taken' = {}
    BY <1>1, KnownAfterStart DEF Start, ToEmit
  <2>2. JobsIn(Valid) \subseteq Jobs
    <3>1. Known' \subseteq Jobs
      BY TypeStep, KnownFinite DEF TypeOK, Known, Scan!Results
    <3> QED
      BY <2>1, <3>1
  <2> QED
    BY <2>1, <2>2 DEF Placed
<1>2. CASE ScanStep
  <2>1. PICK j \in Jobs : Scan!Take(j) \/ Scan!Drop(j)
    BY <1>2 DEF ScanStep
  <2>2. Known' = Known /\ running
    BY <1>2, KnownElsewhere DEF ScanStep
  <2>3. CASE Scan!Take(j)
    BY <1>2, <2>2, <2>3 DEF Scan!Take, Placed, ScanStep
  <2>4. CASE Scan!Drop(j)
    BY <1>2, <2>2, <2>4 DEF Scan!Drop, Placed, ScanStep
  <2> QED
    BY <2>1, <2>3, <2>4
<1>3. CASE Cancel
  BY <1>3, KnownElsewhere DEF Cancel, Scan!Cancel, Placed
<1>4. ASSUME NEW j \in taken, NEW r \in Answers(j), WriteJSON(r) PROVE Placed'
  <2>1. Known' = Known \cup {r.job}
    BY <1>4, KnownAfterWrite
  <2>2. /\ r.job \in taken /\ taken' = taken \ {r.job} /\ todo' = todo
        /\ UNCHANGED <<cancelled, finished, running>>
    BY <1>4 DEF WriteJSON, Scan!Report
  <2> QED
    BY <2>1, <2>2 DEF Placed
<1>5. CASE WriteNewline
  <2>1. UNCHANGED <<todo, taken, cancelled, finished, running>>
    BY <1>5 DEF WriteNewline, Note, scanVars
  <2> QED
    BY <1>5, <2>1, KnownElsewhere DEF Placed
<1>6. CASE Finish
  BY <1>6, KnownElsewhere DEF Finish, Scan!Finish, Placed
<1>7. CASE Crash
  BY <1>7, KnownElsewhere DEF Crash, Placed, scanVars
<1>8. CASE UNCHANGED vars
  BY <1>8, KnownElsewhere DEF Placed, scanVars, vars
<1> QED
  BY <1>1, <1>2, <1>3, <1>4, <1>5, <1>6, <1>7, <1>8, StepKinds

\* The file holds one line of a job, and only of jobs the run knows of.
LEMMA FileStep ==
  ASSUME TypeOK, Placed, DistinctLines, FileKnown, [Next]_vars
  PROVE  DistinctLines' /\ FileKnown'
<1>1. CASE Start
  BY <1>1, ValidElsewhere, KnownAfterStart DEF DistinctLines, FileKnown
<1>2. CASE ScanStep \/ Cancel \/ Finish \/ Crash \/ UNCHANGED vars
  BY <1>2, ValidElsewhere, KnownElsewhere DEF DistinctLines, FileKnown
<1>3. CASE WriteNewline
  BY <1>3, ValidAfterNewline, KnownElsewhere DEF DistinctLines, FileKnown
<1>4. ASSUME NEW j \in taken, NEW r \in Answers(j), WriteJSON(r)
      PROVE  DistinctLines' /\ FileKnown'
  <2>1. Known' = Known \cup {r.job}
    BY <1>4, KnownAfterWrite
  <2>2. r.job \notin Known
    BY <1>4 DEF WriteJSON, Scan!Report, Placed
  <2>3. Recorded(r) \in Lines /\ Recorded(r).res = r /\ lines \in Seq(Lines)
    BY AnswerKnown DEF TypeOK
  <2>4. CASE Valid' = lines
    <3>1. /\ DOMAIN lines \subseteq DOMAIN Valid
          /\ \A i \in DOMAIN lines : Valid[i] = lines[i]
      BY <2>3, Tails, AppendLine
    <3>2. DistinctLines'
      BY <2>4, <3>1 DEF DistinctLines
    <3>3. JobsIn(lines) \subseteq JobsIn(Valid)
      BY <3>1 DEF JobsIn
    <3> QED
      BY <2>1, <2>4, <3>2, <3>3 DEF FileKnown
  <2>5. CASE Valid' = Valid
    BY <2>1, <2>5 DEF DistinctLines, FileKnown
  <2>6. CASE Valid = lines /\ Valid' = Append(lines, Recorded(r))
    <3> DEFINE s == Append(lines, Recorded(r))
    <3>1. /\ DOMAIN s = DOMAIN lines \cup {Len(lines) + 1}
          /\ \A i \in DOMAIN lines : s[i] = lines[i]
          /\ s[Len(lines) + 1].res = r
          /\ JobsIn(s) = JobsIn(lines) \cup {r.job}
      BY <2>3, AppendLine
    <3>2. \A i \in DOMAIN lines : lines[i].res.job # r.job
      BY <2>2, <2>6 DEF FileKnown, JobsIn
    <3>3. \A i, k \in DOMAIN lines : lines[i].res.job = lines[k].res.job => i = k
      BY <2>6 DEF DistinctLines
    <3> HIDE DEF s
    <3>4. \A i, k \in DOMAIN s : s[i].res.job = s[k].res.job => i = k
      BY <3>1, <3>2, <3>3
    <3>5. Valid' = s
      BY <2>6 DEF s
    <3>6. DistinctLines'
      BY <3>4, <3>5 DEF DistinctLines
    <3> QED
      BY <2>1, <2>6, <3>1, <3>5, <3>6 DEF FileKnown
  <2> QED
    BY <1>4, <2>4, <2>5, <2>6, ValidAfterWrite
<1> QED
  BY <1>1, <1>2, <1>3, <1>4, StepKinds

-----------------------------------------------------------------------------
\* Counting.
LEMMA FoundAtStart ==
  ASSUME TypeOK, DistinctLines
  PROVE  /\ IsFiniteSet(PreFound)
         /\ Cardinality({<<Valid[i].proto, Valid[i].res.job>> : i \in PreFound})
              = Cardinality(PreFound)
<1> DEFINE T == {<<Valid[i].proto, Valid[i].res.job>> : i \in PreFound}
           f == [i \in PreFound |-> <<Valid[i].proto, Valid[i].res.job>>]
<1>1. IsFiniteSet(PreFound)
  <2>1. DOMAIN Valid = 1 .. Len(Valid) /\ Len(Valid) \in Nat
    BY Tails
  <2>2. IsFiniteSet(1 .. Len(Valid))
    BY <2>1, FS_Interval
  <2>3. PreFound \in SUBSET (1 .. Len(Valid))
    BY <2>1 DEF PreFound
  <2> QED
    BY <2>2, <2>3, FS_Subset
<1>2. f \in Bijection(PreFound, T)
  <2>1. f \in [PreFound -> T]
    OBVIOUS
  <2>2. ASSUME NEW i \in PreFound, NEW k \in PreFound, f[i] = f[k] PROVE i = k
    <3>1. Valid[i].res.job = Valid[k].res.job
      BY <2>2
    <3> QED
      BY <3>1 DEF DistinctLines, PreFound
  <2>3. \A t \in T : \E i \in PreFound : f[i] = t
    OBVIOUS
  <2> HIDE DEF f, T
  <2> QED
    BY <2>1, <2>2, <2>3 DEF Bijection, Injection, Surjection, IsInjective
<1>3. ExistsBijection(PreFound, T)
  BY <1>2 DEF ExistsBijection
<1> HIDE DEF T
<1>4. Cardinality(T) = Cardinality(PreFound)
  BY <1>1, <1>3, FS_Bijection
<1> QED
  BY <1>1, <1>4 DEF T

LEMMA CountStep ==
  ASSUME ResumeInv, [Next]_vars
  PROVE  Counted' /\ FoundKnown'
<1> USE DEF ResumeInv
<1>1. CASE Start
  <2>1. /\ Known' = JobsIn(Valid)
        /\ scanned' = Cardinality(JobsIn(Valid))
        /\ writing' = FALSE
        /\ openCount' = Cardinality(PreFound)
        /\ found' = {<<Valid[i].proto, Valid[i].res.job>> : i \in PreFound}
    BY <1>1, KnownAfterStart DEF Start, OpenAtStart
  <2>2. openCount' = Cardinality(found')
    BY <2>1, FoundAtStart
  <2>3. \A f \in found' : f[2] \in Known'
    BY <2>1 DEF PreFound, JobsIn
  <2> QED
    BY <2>1, <2>2, <2>3 DEF Counted, FoundKnown
<1>2. CASE ScanStep \/ Cancel \/ Finish \/ Crash \/ UNCHANGED vars
  <2>1. UNCHANGED <<scanned, openCount, found, writing, current>>
    BY <1>2 DEF ScanStep, Cancel, Finish, Crash, mainVars, vars
  <2> QED
    BY <1>2, <2>1, KnownElsewhere DEF Counted, FoundKnown
<1>3. CASE WriteNewline
  <2>1. Known' = Known /\ scanned' = scanned /\ writing /\ writing' = FALSE
    BY <1>3, KnownElsewhere DEF WriteNewline, Note
  <2>2. CASE IsOpen(current)
    <3>1. found' = found \cup {<<proto, current.job>>} /\ openCount' = openCount + 1
      BY <1>3, <2>2 DEF WriteNewline, Note
    <3>2. <<proto, current.job>> \notin found
      BY <2>1 DEF FoundKnown
    <3>3. IsFiniteSet(found)
      BY KnownFinite
    <3>4. Cardinality(found') = Cardinality(found) + 1
      BY <3>1, <3>2, <3>3, FS_AddElement
    <3> QED
      BY <2>1, <3>1, <3>4 DEF Counted, FoundKnown
  <2>3. CASE ~IsOpen(current)
    <3>1. found' = found /\ openCount' = openCount
      BY <1>3, <2>3 DEF WriteNewline, Note
    <3> QED
      BY <2>1, <3>1 DEF Counted, FoundKnown
  <2> QED
    BY <2>2, <2>3
<1>4. ASSUME NEW j \in taken, NEW r \in Answers(j), WriteJSON(r)
      PROVE  Counted' /\ FoundKnown'
  <2>1. Known' = Known \cup {r.job}
    BY <1>4, KnownAfterWrite
  <2>2. r.job \notin Known
    BY <1>4 DEF WriteJSON, Scan!Report, Placed
  <2>3. /\ scanned' = scanned + 1 /\ ~writing /\ writing' = TRUE /\ current' = r
        /\ UNCHANGED <<found, openCount>>
    BY <1>4 DEF WriteJSON
  <2>4. Cardinality(Known') = Cardinality(Known) + 1
    BY <2>1, <2>2, KnownFinite, FS_AddElement
  <2> QED
    BY <2>1, <2>2, <2>3, <2>4 DEF Counted, FoundKnown
<1> QED
  BY <1>1, <1>2, <1>3, <1>4, StepKinds

-----------------------------------------------------------------------------
\* What the lines say of the ports.
LEMMA TruthStep ==
  ASSUME ResumeInv, [Next]_vars
  PROVE  LinesTruthful'
<1> USE DEF ResumeInv
<1>1. CASE Start \/ ScanStep \/ Cancel \/ Finish \/ Crash \/ UNCHANGED vars
  <2>1. misjudged' = misjudged
    BY <1>1 DEF Start, ScanStep, Cancel, Finish, Crash, vars
  <2> QED
    BY <1>1, <2>1, ValidElsewhere DEF LinesTruthful
<1>2. CASE WriteNewline
  <2>1. misjudged' = misjudged
    BY <1>2 DEF WriteNewline, Note
  <2> QED
    BY <1>2, <2>1, ValidAfterNewline DEF LinesTruthful
<1>3. ASSUME NEW j \in taken, NEW r \in Answers(j), WriteJSON(r)
      PROVE  LinesTruthful'
  <2>1. misjudged \subseteq misjudged' /\ (r.cause # "network" => r.job \in misjudged')
    BY <1>3 DEF WriteJSON
  <2>2. Recorded(r) \in Lines /\ lines \in Seq(Lines)
    BY AnswerKnown DEF TypeOK
  <2>3. Truthful(Recorded(r), misjudged')
    BY <2>1, AnswerKnown DEF Truthful
  <2>4. \A i \in DOMAIN Valid : Truthful(Valid[i], misjudged')
    BY <2>1 DEF LinesTruthful, Truthful
  <2>5. CASE Valid' = lines
    <3>1. /\ DOMAIN lines \subseteq DOMAIN Valid
          /\ \A i \in DOMAIN lines : Valid[i] = lines[i]
      BY <2>2, Tails, AppendLine
    <3> QED
      BY <2>4, <2>5, <3>1 DEF LinesTruthful
  <2>6. CASE Valid' = Valid
    BY <2>4, <2>6 DEF LinesTruthful
  <2>7. CASE Valid = lines /\ Valid' = Append(lines, Recorded(r))
    <3>1. /\ DOMAIN Append(lines, Recorded(r)) = DOMAIN lines \cup {Len(lines) + 1}
          /\ \A i \in DOMAIN lines : Append(lines, Recorded(r))[i] = lines[i]
          /\ Append(lines, Recorded(r))[Len(lines) + 1] = Recorded(r)
      BY <2>2, AppendLine
    <3> QED
      BY <2>3, <2>4, <2>7, <3>1 DEF LinesTruthful
  <2> QED
    BY <1>3, <2>5, <2>6, <2>7, ValidAfterWrite
<1> QED
  BY <1>1, <1>2, <1>3, StepKinds

\* What has become of the ports that are there.
LEMMA AccountStep ==
  ASSUME ResumeInv, [Next]_vars
  PROVE  Accounted'
<1> USE DEF ResumeInv
<1>1. CASE Start
  <2> SUFFICES ASSUME NEW j \in Known' \cap Present(proto')
               PROVE  <<proto', j>> \in found' \/ j \in misjudged' \cup foreign'
    BY DEF Accounted, Present
  <2>1. /\ Known' = JobsIn(Valid)
        /\ found' = {<<Valid[i].proto, Valid[i].res.job>> : i \in PreFound}
        /\ foreign' = {Valid[i].res.job : i \in Others(proto')}
        /\ misjudged' = misjudged
    BY <1>1, KnownAfterStart DEF Start
  <2>2. PICK i \in DOMAIN Valid : Valid[i].res.job = j
    BY <2>1 DEF JobsIn
  <2>3. CASE Valid[i].proto # proto'
    BY <2>1, <2>2, <2>3 DEF Others
  <2>4. CASE Valid[i].proto = proto'
    <3>1. IsOpen(Valid[i].res) \/ j \in misjudged
      BY <2>2, <2>4 DEF LinesTruthful, Truthful
    <3>2. IsOpen(Valid[i].res) => <<proto', j>> \in found'
      BY <2>1, <2>2, <2>4 DEF PreFound
    <3> QED
      BY <2>1, <3>1, <3>2
  <2> QED
    BY <2>3, <2>4
<1>2. CASE ScanStep \/ Cancel \/ Finish \/ Crash \/ UNCHANGED vars
  <2>1. UNCHANGED <<proto, found, misjudged, foreign, writing, current>>
    BY <1>2 DEF ScanStep, Cancel, Finish, Crash, mainVars, vars
  <2> QED
    BY <1>2, <2>1, KnownElsewhere DEF Accounted, Present
<1>3. ASSUME NEW j \in taken, NEW r \in Answers(j), WriteJSON(r)
      PROVE  Accounted'
  <2>1. Known' = Known \cup {r.job}
    BY <1>3, KnownAfterWrite
  <2>2. /\ ~writing /\ writing' = TRUE /\ current' = r
        /\ UNCHANGED <<proto, found, foreign>>
    BY <1>3 DEF WriteJSON
  <2>3. misjudged \subseteq misjudged' /\ (r.cause # "network" => r.job \in misjudged')
    BY <1>3 DEF WriteJSON
  <2>4. r.job \in Present(proto) => IsOpen(r) \/ r.job \in misjudged'
    BY <2>3, AnswerKnown
  <2> QED
    BY <2>1, <2>2, <2>3, <2>4 DEF Accounted, Present
<1>4. CASE WriteNewline
  <2>1. Known' = Known /\ UNCHANGED <<proto, misjudged, foreign>>
    BY <1>4, KnownElsewhere DEF WriteNewline, Note
  <2>2. found \subseteq found' /\ (IsOpen(current) => <<proto, current.job>> \in found')
    BY <1>4 DEF WriteNewline, Note
  <2> QED
    BY <2>1, <2>2 DEF Accounted, Present
<1> QED
  BY <1>1, <1>2, <1>3, <1>4, StepKinds

\* One element more makes a set larger by one at most.
LEMMA OneMore ==
  ASSUME NEW S, NEW T, NEW x, IsFiniteSet(S), T \subseteq S \cup {x}
  PROVE  /\ IsFiniteSet(T) /\ Cardinality(T) \in Nat /\ Cardinality(S) \in Nat
         /\ Cardinality(T) <= Cardinality(S) + 1
<1>1. /\ IsFiniteSet(S \cup {x})
      /\ Cardinality(S \cup {x}) <= Cardinality(S) + 1
      /\ Cardinality(S) \in Nat
  BY FS_AddElement, FS_CardinalityType
<1>2. /\ IsFiniteSet(T) /\ Cardinality(T) <= Cardinality(S \cup {x})
  BY <1>1, FS_Subset
<1>3. Cardinality(T) \in Nat /\ Cardinality(S \cup {x}) \in Nat
  BY <1>1, <1>2, FS_CardinalityType
<1> QED
  BY <1>1, <1>2, <1>3

\* What an unterminated line may cost was paid for by a failed write, or by
\* the run that left it.
LEMMA BudgetStep ==
  ASSUME ResumeInv, [Next]_vars
  PROVE  Budget'
<1> USE DEF ResumeInv
<1> DEFINE Lost == Known \ JobsIn(Valid)
<1>0. /\ IsFiniteSet(Lost) /\ Cardinality(Lost) \in Nat
      /\ Price \in 0 .. 2 /\ slips \in Nat
      /\ Cardinality(Lost) + Price <= 2 + 2 * slips
  <2>1. Lost \in SUBSET Known
    OBVIOUS
  <2>2. IsFiniteSet(Lost) /\ Cardinality(Lost) \in Nat
    BY <2>1, KnownFinite, FS_Subset, FS_CardinalityType
  <2> QED
    BY <2>2 DEF Price, TypeOK, Budget
<1> HIDE DEF Lost
<1>1. CASE Start
  <2>1. Known' = JobsIn(Valid) /\ Valid' = Valid /\ slips' = 0
    BY <1>1, KnownAfterStart, ValidElsewhere DEF Start
  <2>2. Known' \ JobsIn(Valid') = {}
    BY <2>1
  <2>3. Cardinality(Known' \ JobsIn(Valid')) = 0
    BY <2>2, FS_EmptySet
  <2>4. Price' \in 0 .. 2
    BY DEF Price
  <2>5. (Known \ JobsIn(Valid))' = Known' \ JobsIn(Valid')
    BY DEF JobsIn
  <2>6. Cardinality((Known \ JobsIn(Valid))') = 0
    BY <2>3, <2>5
  <2>7. PICK n \in 0 .. 2 : n = Price'
    BY <2>4
  <2>8. 0 + n <= 2 + 2 * 0
    OBVIOUS
  <2>9. Cardinality((Known \ JobsIn(Valid))') + Price' <= 2 + 2 * slips'
    BY <2>1, <2>6, <2>7, <2>8, Zenon
  <2> QED
    BY <2>9 DEF Budget
<1>2. CASE ScanStep \/ Cancel \/ Finish \/ Crash \/ UNCHANGED vars
  <2>1. UNCHANGED <<slips, writing>>
    BY <1>2 DEF ScanStep, Cancel, Finish, Crash, mainVars, vars
  <2>2. Price' = Price
    BY <1>2, <2>1, ValidElsewhere DEF Price
  <2>3. Valid' = Valid /\ Known' = Known
    BY <1>2, ValidElsewhere, KnownElsewhere
  <2>4. (Known \ JobsIn(Valid))' = Known \ JobsIn(Valid)
    BY <2>3
  <2> QED
    BY <2>1, <2>2, <2>4 DEF Budget
<1>3. CASE WriteNewline
  <2>1. Known' = Known /\ Valid' = Valid /\ writing /\ writing' = FALSE
    BY <1>3, KnownElsewhere, ValidAfterNewline DEF WriteNewline, Note
  <2>2. (Known \ JobsIn(Valid))' = Lost
    BY <2>1 DEF Lost
  <2>3. \/ Price' = 0 /\ slips' = slips
        \/ Price' \in 0 .. 2 /\ slips' = slips + 1
    BY <1>3, ValidAfterNewline DEF Price
  <2>4. Cardinality(Lost) + Price' <= 2 + 2 * slips'
    BY <1>0, <2>1, <2>3
  <2> QED
    BY <2>2, <2>4 DEF Budget
<1>4. ASSUME NEW j \in taken, NEW r \in Answers(j), WriteJSON(r)
      PROVE  Budget'
  <2> DEFINE After == (Known \ JobsIn(Valid))'
  <2>1. Known' = Known \cup {r.job}
    BY <1>4, KnownAfterWrite
  <2>2. Price' = 0 /\ ~writing
    BY <1>4 DEF WriteJSON, Price
  <2>3. lines \in Seq(Lines) /\ Recorded(r) \in Lines /\ Recorded(r).res = r
    BY AnswerKnown DEF TypeOK
  <2>4. After = Known' \ JobsIn(Valid')
    BY DEF JobsIn
  <2>5. CASE Valid' = Valid /\ slips' = slips + 1
    <3>1. After \subseteq Lost \cup {r.job}
      BY <2>1, <2>4, <2>5 DEF Lost
    <3>2. Cardinality(After) <= Cardinality(Lost) + 1 /\ Cardinality(After) \in Nat
      BY <1>0, <3>1, OneMore
    <3> QED
      BY <1>0, <2>2, <2>5, <3>2 DEF Budget
  <2>6. CASE tail = Clean /\ Valid = lines /\ Valid' = Append(lines, Recorded(r)) /\ slips' = slips
    <3>1. JobsIn(Valid') = JobsIn(Valid) \cup {r.job}
      BY <2>3, <2>6, AppendLine
    <3>2. After \subseteq Lost
      BY <2>1, <2>4, <3>1 DEF Lost
    <3>3. Cardinality(After) <= Cardinality(Lost) /\ Cardinality(After) \in Nat
      BY <1>0, <3>2, FS_Subset, FS_CardinalityType
    <3> QED
      BY <1>0, <2>2, <2>6, <3>3 DEF Budget
  <2>7. CASE /\ Valid' = lines /\ Valid = lines
             /\ \/ slips' = slips + 1
                \/ Price >= 1 /\ slips' = slips
    <3>1. After \subseteq Lost \cup {r.job}
      BY <2>1, <2>4, <2>7 DEF Lost
    <3>2. Cardinality(After) <= Cardinality(Lost) + 1 /\ Cardinality(After) \in Nat
      BY <1>0, <3>1, OneMore
    <3> QED
      BY <1>0, <2>2, <2>7, <3>2 DEF Budget
  <2>8. ASSUME NEW l \in Lines, tail = Whole(l), Valid = Append(lines, l), Valid' = lines,
               slips' = slips + 1 \/ slips' = slips
        PROVE  Budget'
    <3>1. JobsIn(Valid) = JobsIn(lines) \cup {l.res.job}
      BY <2>3, <2>8, AppendLine
    <3>2. Price = 2
      BY <2>2, <2>8, TailsDiffer DEF Price
    <3> DEFINE More == Lost \cup {r.job}
    <3>3. After \subseteq More \cup {l.res.job}
      BY <2>1, <2>4, <2>8, <3>1 DEF Lost
    <3>4. More \subseteq Lost \cup {r.job}
      OBVIOUS
    <3> HIDE DEF More, After
    <3>5. IsFiniteSet(More) /\ Cardinality(More) <= Cardinality(Lost) + 1
      BY <1>0, <3>4, OneMore
    <3>6. /\ Cardinality(After) <= Cardinality(More) + 1
          /\ Cardinality(After) \in Nat /\ Cardinality(More) \in Nat
      BY <3>3, <3>5, OneMore
    <3> QED
      BY <1>0, <2>2, <2>8, <3>2, <3>5, <3>6 DEF Budget, After
  <2>9. tail = Debris => Price = 1
    BY <2>2, TailsDiffer DEF Price
  <2>10. \/ tail = Clean /\ Valid = lines
         \/ tail = Debris /\ Valid = lines
         \/ \E l \in Lines : tail = Whole(l) /\ Valid = Append(lines, l)
    BY Tails
  <2>11. \/ Valid' = Valid /\ slips' = slips + 1
         \/ tail = Clean /\ Valid = lines /\ Valid' = Append(lines, Recorded(r)) /\ slips' = slips
         \/ tail # Clean /\ Valid' = lines /\ slips' = slips
         \/ Valid' = lines /\ slips' = slips + 1
    BY <1>4, ValidAfterWrite
  <2> QED
    BY <1>0, <2>5, <2>6, <2>7, <2>8, <2>9, <2>10, <2>11
<1> QED
  BY <1>1, <1>2, <1>3, <1>4, StepKinds

-----------------------------------------------------------------------------
\* The inductive invariant.
LEMMA InvInit == Init => ResumeInv
<1> SUFFICES ASSUME Init PROVE ResumeInv
  OBVIOUS
<1>1. /\ lines = <<>> /\ tail = Clean /\ ckptDone = {} /\ todo = {} /\ taken = {}
      /\ reported = {} /\ ~running /\ ~finished /\ ~writing
      /\ found = {} /\ scanned = 0 /\ openCount = 0 /\ slips = 0
  BY DEF Init
<1>2. Valid = <<>> /\ Known = {}
  BY <1>1 DEF Valid, Clean, Known
<1>3. Placed /\ DistinctLines /\ LinesTruthful
  BY <1>1, <1>2 DEF Placed, DistinctLines, LinesTruthful
<1>4. FileKnown /\ FoundKnown /\ Accounted
  BY <1>1, <1>2 DEF FileKnown, JobsIn, FoundKnown, Accounted
<1>5. Counted
  BY <1>1, <1>2, FS_EmptySet DEF Counted
<1>6. Budget
  <2>1. Known \ JobsIn(Valid) = {}
    BY <1>2
  <2>2. Cardinality(Known \ JobsIn(Valid)) = 0 /\ Price = 0
    BY <1>1, <2>1, FS_EmptySet DEF Price
  <2> QED
    BY <1>1, <2>2 DEF Budget
<1> QED
  BY <1>3, <1>4, <1>5, <1>6, TypeInit DEF ResumeInv

LEMMA InvStep == ResumeInv /\ [Next]_vars => ResumeInv'
<1> SUFFICES ASSUME ResumeInv, [Next]_vars PROVE ResumeInv'
  OBVIOUS
<1>1. TypeOK' /\ Placed' /\ DistinctLines' /\ FileKnown'
  BY TypeStep, PlacedStep, FileStep DEF ResumeInv
<1>2. Counted' /\ FoundKnown' /\ LinesTruthful' /\ Accounted' /\ Budget'
  BY CountStep, TruthStep, AccountStep, BudgetStep
<1> QED
  BY <1>1, <1>2 DEF ResumeInv

\* The variables of the runs keep their types, jobs are in one place, the file
\* knows no more than the run, and an unterminated line is accounted for.
THEOREM ResumeInvariant == Spec => []ResumeInv
BY InvInit, InvStep, PTL DEF Spec

\* resume.go:46 and fastTCPScan.go:609: no port is recorded twice, whatever was
\* lost between the runs, and the progress does not exceed the total.
THEOREM ResumeOneRecordPerJob == Spec => []OneRecordPerJob
<1>1. ResumeInv => OneRecordPerJob
  <2> SUFFICES ASSUME ResumeInv PROVE OneRecordPerJob
    OBVIOUS
  <2>1. Known \in SUBSET Jobs /\ IsFiniteSet(Jobs)
    BY KnownFinite, ResumeAssumption DEF ResumeInv, ResumeAssumption
  <2>2. Cardinality(Known) <= Cardinality(Jobs)
    BY <2>1, FS_Subset
  <2> QED
    BY <2>2 DEF ResumeInv, Counted, DistinctLines, OneRecordPerJob
<1> QED
  BY <1>1, ResumeInvariant, PTL

\* fastTCPScan.go:1231 and 1257: the counter of open ports is their number in
\* the report, those recovered from the file included.
THEOREM ResumeCountsExact == Spec => []CountsExact
<1>1. ResumeInv => CountsExact
  BY DEF ResumeInv, Counted, CountsExact
<1> QED
  BY <1>1, ResumeInvariant, PTL

\* A run nobody cancelled reports every port there is, but for those that were
\* recorded without an answer or with the other protocol.
THEOREM ResumeMissesOnlyMisjudged == Spec => []MissedOnlyIfMisjudged
<1> DEFINE AtEnd == finished => ~running /\ ~writing /\ (cancelled \/ todo \cup taken = {})
<1>1. Init => AtEnd
  BY DEF Init
<1>2. AtEnd /\ [Next]_vars => AtEnd'
  <2> SUFFICES ASSUME AtEnd, [Next]_vars PROVE AtEnd'
    OBVIOUS
  <2>1. CASE Start
    BY <2>1 DEF Start
  <2>2. CASE ScanStep \/ Cancel
    BY <2>2 DEF ScanStep, Scan!Take, Scan!Drop, Cancel, Scan!Cancel
  <2>3. ASSUME NEW j \in taken, NEW r \in Answers(j), WriteJSON(r) PROVE AtEnd'
    BY <2>3 DEF WriteJSON, Scan!Report
  <2>4. CASE WriteNewline
    BY <2>4 DEF WriteNewline, Note, scanVars
  <2>5. CASE Finish
    BY <2>5 DEF Finish, Scan!Finish, mainVars
  <2>6. CASE Crash \/ UNCHANGED vars
    BY <2>6 DEF Crash, scanVars, mainVars, vars
  <2> QED
    BY <2>1, <2>2, <2>3, <2>4, <2>5, <2>6, StepKinds
<1>3. ResumeInv /\ AtEnd => MissedOnlyIfMisjudged
  <2> SUFFICES ASSUME ResumeInv, AtEnd, finished, ~cancelled, NEW j \in Present(proto)
               PROVE  <<proto, j>> \in found \/ j \in misjudged \cup foreign
    BY DEF MissedOnlyIfMisjudged
  <2>1. Known = Jobs
    BY DEF ResumeInv, Placed
  <2>2. j \in Jobs
    BY ResumeAssumption DEF ResumeAssumption, Present
  <2> QED
    BY <2>1, <2>2 DEF ResumeInv, Accounted
<1> QED
  BY <1>1, <1>2, <1>3, ResumeInvariant, PTL DEF Spec

\* resume.go:76: what a run knows and the file does not is two records at most,
\* and two more for each of its writes that failed.
THEOREM ResumeLossBounded == Spec => []LossBounded
<1>1. ResumeInv => LossBounded
  <2> SUFFICES ASSUME ResumeInv PROVE Cardinality(Known \ JobsIn(Valid)) <= 2 + 2 * slips
    BY DEF LossBounded
  <2>1. Known \ JobsIn(Valid) \in SUBSET Known /\ IsFiniteSet(Known)
    BY KnownFinite DEF ResumeInv
  <2>2. Cardinality(Known \ JobsIn(Valid)) \in Nat
    BY <2>1, FS_Subset, FS_CardinalityType
  <2>3. Price \in 0 .. 2 /\ slips \in Nat
    BY DEF Price, ResumeInv, TypeOK
  <2> QED
    BY <2>2, <2>3 DEF ResumeInv, Budget
<1> QED
  BY <1>1, ResumeInvariant, PTL
=============================================================================
