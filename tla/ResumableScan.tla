---------------------------- MODULE ResumableScan ----------------------------
(***************************************************************************)
(* -resume: a command run again and again over one checkpoint file, each   *)
(* run a ScanContract, ended by its completion, by Ctrl+C or the deadline, *)
(* or by a crash of the process at any step.  A run may use another -proto *)
(* than the one before.  main() appends a result in two writes, the JSON   *)
(* text and the newline, and looks at the error of neither (the disk may   *)
(* be full).  A line that is not JSON is skipped when the file is loaded.  *)
(* The network is taken to be steady and lossless, so that whatever goes   *)
(* missing between runs is the program's doing.  The operating system does *)
(* not crash: what was written stays in the file.                          *)
(***************************************************************************)
EXTENDS Integers, Sequences, FiniteSets

CONSTANTS
  Jobs,           \* the host and port pairs of the command
  Listening,      \* those that accept a connection
  Answering,      \* those that answer over UDP
  Protos,         \* the protocols the runs choose from: "tcp", "udp"
  MaxRuns,        \* bound: how often the command is run
  LocalFailures,  \* whether a probe may fail for want of a descriptor
  NoResult        \* no result is being recorded

VARIABLES
  lines,      \* the valid lines of the file, each a result
  tail,       \* what follows the last newline: nothing, a whole result, debris
  proto,      \* -proto of the last run
  running,    \* the process exists
  runs,       \* how often it was started
  ckptDone, todo, taken, reported, cancelled, finished,  \* of this run
  writing,    \* main is between the two writes of recordCheckpoint
  current,    \* the result it records
  found,      \* the open ports of the report so far (preFound included), each
              \* with its protocol
  openCount,  \* main's counter of them
  scanned,    \* main's counter of probes
  slips,      \* how many writes of this run failed
  foreign,    \* jobs this run skips for a line of the other protocol
  misjudged   \* jobs some run recorded without an answer of the network

fileVars == <<lines, tail>>
scanVars == <<ckptDone, todo, taken, reported, cancelled, finished>>
mainVars == <<writing, current, found, openCount, scanned, slips, foreign>>
vars == <<fileVars, proto, running, runs, scanVars, mainVars, misjudged>>

Scan == INSTANCE ScanContract

ResumeAssumption ==
  /\ IsFiniteSet(Jobs)
  /\ Listening \subseteq Jobs /\ Answering \subseteq Jobs
  /\ Protos \subseteq {"tcp", "udp"}
  /\ MaxRuns \in Nat
  /\ LocalFailures \in BOOLEAN
  /\ NoResult \notin Scan!Results

ASSUME ResumeAssumption

\* The state of a result as the report sees it: strings.HasPrefix(State, "open").
IsOpen(r) == r.state \in {"open", "open|filtered"}

\* What can follow the last newline of the file.
Clean == [kind |-> "clean", of |-> NoResult]
Whole(r) == [kind |-> "whole", of |-> r]
Debris == [kind |-> "debris", of |-> NoResult]

\* What a scan with protocol p can find.
Present(p) == IF p = "tcp" THEN Listening ELSE Answering

\* The results a probe comes back with in a steady network; over UDP a port
\* that does not answer may just be silent.
Answers(j) ==
  {r \in [job : {j}, state : {"open", "closed", "open|filtered"}, cause : Scan!Causes] :
     /\ r.cause = "network" => (r.state = "open" <=> j \in Present(proto))
     /\ r.state = "open|filtered" => proto = "udp" /\ r.cause = "network"
     /\ r.cause = "local" => LocalFailures}

\* A line of the file: a result, and the protocol it was found with.
Recorded(r) == [proto |-> proto, res |-> r]

-----------------------------------------------------------------------------
\* What bufio.Scanner and json.Unmarshal make of the file: every valid line,
\* and an unterminated last line too when it is a whole result.
Valid == IF tail.kind = "whole" THEN Append(lines, tail.of) ELSE lines

\* The keys of ckptDone: host and port, without the protocol.
JobsIn(s) == {s[i].res.job : i \in DOMAIN s}

\* Mutant of PreFound: only terminated lines are searched for open ports.
PreFoundTerminated == {i \in DOMAIN lines : IsOpen(lines[i].res)}

\* The open ports loadCheckpoint returns, by their places in the file.
PreFound == {i \in DOMAIN Valid : IsOpen(Valid[i].res)}

\* The lines of the file that were found with another protocol.
Others(p) == {i \in DOMAIN Valid : Valid[i].proto # p}

\* Mutant of OpenAtStart: main forgets what was recovered.
OpenAtStartZero == 0

\* What main's counter of open ports starts from.
OpenAtStart == Cardinality(PreFound)

\* Mutant of ToEmit: generateJobs ignores what the checkpoint holds.
ToEmitAll == Jobs

\* What generateJobs emits in a run that loads the file as it is.
ToEmit == Jobs \ JobsIn(Valid)

Init ==
  /\ lines = <<>> /\ tail = Clean
  /\ proto \in Protos
  /\ running = FALSE /\ runs = 0
  /\ ckptDone = {} /\ todo = {} /\ taken = {} /\ reported = {}
  /\ cancelled = FALSE /\ finished = FALSE
  /\ writing = FALSE /\ current = NoResult
  /\ found = {} /\ openCount = 0 /\ scanned = 0 /\ slips = 0
  /\ foreign = {}
  /\ misjudged = {}

\* main() up to the start of the scan: loadCheckpoint, openCheckpoint, preDone.
Start ==
  /\ ~running /\ runs < MaxRuns
  /\ running' = TRUE /\ runs' = runs + 1
  /\ proto' \in Protos
  /\ ckptDone' = JobsIn(Valid)
  /\ todo' = ToEmit
  /\ taken' = {} /\ reported' = {}
  /\ cancelled' = FALSE /\ finished' = FALSE
  /\ writing' = FALSE /\ current' = NoResult
  /\ found' = {<<Valid[i].proto, Valid[i].res.job>> : i \in PreFound}
  /\ openCount' = OpenAtStart
  /\ scanned' = Cardinality(JobsIn(Valid))
  /\ slips' = 0
  /\ foreign' = {Valid[i].res.job : i \in Others(proto')}
  /\ UNCHANGED <<fileVars, misjudged>>

\* The goroutines of the scan: a job is taken, or dropped after a cancellation.
ScanStep ==
  /\ running
  /\ \E j \in Jobs : Scan!Take(j) \/ Scan!Drop(j)
  /\ UNCHANGED <<fileVars, proto, running, runs, mainVars, misjudged>>

Cancel ==
  /\ running
  /\ Scan!Cancel
  /\ UNCHANGED <<fileVars, proto, running, runs, mainVars, misjudged>>

\* main receives a result, counts it and writes its JSON: whole, or (the
\* process dies inside the write, or the disk is full) a part of it.  After an
\* unterminated line nothing that is appended makes a valid line.
WriteJSON(r) ==
  /\ running /\ ~writing
  /\ Scan!Report(r)
  /\ scanned' = scanned + 1
  /\ current' = r
  /\ \/ tail' = (IF tail = Clean THEN Whole(Recorded(r)) ELSE Debris) /\ UNCHANGED slips
     \/ tail' \in {tail, Debris} /\ slips' = slips + 1
  /\ writing' = TRUE
  /\ misjudged' = IF r.cause = "network" THEN misjudged ELSE misjudged \cup {r.job}
  /\ UNCHANGED <<lines, proto, running, runs, found, openCount, foreign>>

\* What main does once the result is written: the report and its counter.
Note ==
  /\ IF IsOpen(current)
     THEN found' = found \cup {<<proto, current.job>>} /\ openCount' = openCount + 1
     ELSE UNCHANGED <<found, openCount>>
  /\ writing' = FALSE /\ current' = NoResult
  /\ UNCHANGED <<proto, running, runs, scanVars, scanned, foreign, misjudged>>

\* Mutant of WriteNewline: the newline is forgotten.
WriteNoNewline ==
  /\ running /\ writing
  /\ UNCHANGED <<fileVars, slips>>
  /\ Note

\* The newline, or a write that fails; then the rest of main's loop body.
WriteNewline ==
  /\ running /\ writing
  /\ \/ lines' = Valid /\ tail' = Clean /\ UNCHANGED slips
     \/ UNCHANGED fileVars /\ slips' = slips + 1
  /\ Note

\* The results are exhausted: main writes its report and exits.
Finish ==
  /\ running /\ ~writing
  /\ Scan!Finish
  /\ running' = FALSE
  /\ UNCHANGED <<fileVars, proto, runs, mainVars, misjudged>>

\* A panic, a kill or a power cut of the process; its memory is gone.
Crash ==
  /\ running
  /\ running' = FALSE
  /\ UNCHANGED <<fileVars, proto, runs, scanVars, mainVars, misjudged>>

\* The user does not run the command again.
Ended == ~running /\ runs = MaxRuns /\ UNCHANGED vars

Next ==
  \/ Start \/ ScanStep \/ Cancel
  \/ \E j \in taken : \E r \in Answers(j) : WriteJSON(r)
  \/ WriteNewline \/ Finish \/ Crash
  \/ Ended

Spec == Init /\ [][Next]_vars

-----------------------------------------------------------------------------
\* The file never holds two valid results of one host and port, whatever crashes,
\* failed writes and changes of protocol made of its lines: no port is listed
\* twice after a resume, and the progress never exceeds the total.
OneRecordPerJob ==
  /\ scanned <= Cardinality(Jobs)
  /\ \A i, k \in DOMAIN Valid : Valid[i].res.job = Valid[k].res.job => i = k

\* The counter shown as "abiertos" is the number of open ports in the report.
CountsExact == openCount = Cardinality(found)

\* A run that nobody cancelled reports every port there is, also when the runs
\* before it crashed or lost part of the file, unless a run recorded a result
\* for that very port without an answer of the network, or with the other
\* protocol: jobKey does not have it.
MissedOnlyIfMisjudged ==
  finished /\ ~cancelled =>
    \A j \in Present(proto) : <<proto, j>> \in found \/ j \in misjudged \cup foreign

Known == ckptDone \cup {r.job : r \in reported}

\* How much the file may miss of what the run knows: the unterminated result
\* a crash left and the one glued to it, and two for each failed write.
LossBounded ==
  running /\ ~writing => Cardinality(Known \ JobsIn(Valid)) <= 2 + 2 * slips

\* What "re-run the same command to continue where it stopped" promises: a
\* port that listens is in the report of a run that ends undisturbed.
NothingMissed == finished /\ ~cancelled => {proto} \X Present(proto) \subseteq found
=============================================================================
