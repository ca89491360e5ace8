------------------------ MODULE ScanPipeline_proofs ------------------------
(***************************************************************************)
(* The pipeline for every number of jobs and workers, every -threads and   *)
(* every -retries.  PipelineInv is inductive: each of its conjuncts is     *)
(* carried over a step by a lemma of its own, which names the conjuncts it *)
(* needs of the others.  The end-to-end invariants, the refinement of      *)
(* ScanContract and the correct use of the gate follow from it.            *)
(***************************************************************************)
EXTENDS ScanPipeline, FiniteSetTheorems, TLAPS

\* The gate's own theorems, about the gate the workers share.
GateP == INSTANCE AdaptiveGate_proofs

\* PipelineInv together with the invariant of the gate.
FullInv == PipelineInv /\ GateP!GateInv

\* The steps that take a worker along its loop with its job in its hands.
Walk(w) ==
  \/ TakeToken(w) \/ EnterGate(w)
  \/ GiveUp(w) \/ StartDial(w)
  \/ DialSucceeds(w) \/ DialRefused(w) \/ DialWithoutDescriptor(w) \/ DialCut(w)
  \/ ReadUDP(w)
  \/ SynUnsent(w) \/ SendSyn(w) \/ SynCut(w) \/ SynAnswer(w)
  \/ LeaveGate(w)

\* The steps that end a worker.
Leave(w) == StopIdle(w) \/ StopRated(w) \/ StopSending(w)

\* The groups of variables are only abbreviations.
USE DEF GoTo, setup, feeder, workers, gate, sink

-----------------------------------------------------------------------------
\* The kinds of step the lemmas below distinguish.
LEMMA StepKinds ==
  ASSUME [Next]_vars
  PROVE  \/ \E w \in Workers : HandOff(w) \/ Walk(w) \/ Leave(w) \/ Deliver(w)
         \/ CloseJobs \/ CloseOut \/ Record \/ Finish \/ Cancel \/ Tick
         \/ UNCHANGED vars
BY DEF Next, ProgramStep, WorkerStep, Walk, Leave, Ended

\* A worker on its way keeps its job; nobody else and no channel moves.
LEMMA WalkFrame ==
  ASSUME NEW w \in Workers, Walk(w)
  PROVE  UNCHANGED <<setup, feeder, job, cancelled, sink>>
BY DEF Walk, TakeToken, EnterGate, GiveUp, StartDial, DialSucceeds, DialRefused,
       DialWithoutDescriptor, DialCut, DialFails, ReadUDP, SynUnsent, SendSyn,
       SynCut, SynAnswer, LeaveGate, Conclude

\* A worker that leaves lets go of its job; nothing else changes but its own state.
LEMMA LeaveFrame ==
  ASSUME NEW w \in Workers, Leave(w)
  PROVE  /\ Quit(w)
         /\ UNCHANGED <<setup, feeder, gate, token, cancelled, sink>>
         /\ pc[w] = "select" \/ cancelled
         /\ jobsClosed \/ cancelled
BY DEF Leave, StopIdle, StopRated, StopSending

\* A result the pipeline makes is a Result.
LEMMA ConcludeTypes ==
  ASSUME TypeOK, NEW w \in Workers, NEW s \in States, NEW c \in Causes,
         pc[w] \in {"attempt", "dial", "read", "listen"}, Conclude(w, s, c)
  PROVE  TypeOK'
BY PipelineAssumption DEF PipelineAssumption, TypeOK, Conclude, Places, Results

LEMMA DialFailsTypes ==
  ASSUME TypeOK, NEW w \in Workers, NEW c \in Causes,
         pc[w] = "dial", DialFails(w, c)
  PROVE  TypeOK'
<1>1. CASE attempt[w] < Retries
  <2>1. attempt[w] + 1 \in 0 .. Retries
    BY <1>1, PipelineAssumption DEF PipelineAssumption, TypeOK
  <2> QED
    BY <1>1, <2>1 DEF DialFails, TypeOK, Places
<1>2. CASE ~(attempt[w] < Retries)
  BY <1>2, ConcludeTypes DEF DialFails, States
<1> QED
  BY <1>1, <1>2

LEMMA WalkTypes ==
  ASSUME TypeOK, NEW w \in Workers, Walk(w)
  PROVE  TypeOK'
<1> USE DEF States, Causes
<1>1. CASE TakeToken(w) \/ EnterGate(w) \/ StartDial(w) \/ SendSyn(w) \/ LeaveGate(w)
  <2>1. CASE TakeToken(w)
    BY <2>1 DEF TakeToken, TypeOK, Places
  <2>2. CASE EnterGate(w)
    BY <2>2 DEF EnterGate, TypeOK, Places
  <2>3. CASE StartDial(w) \/ SendSyn(w)
    BY <2>3 DEF StartDial, SendSyn, TypeOK, Places
  <2>4. CASE LeaveGate(w)
    BY <2>4 DEF LeaveGate, TypeOK, Places
  <2> QED
    BY <1>1, <2>1, <2>2, <2>3, <2>4
<1>2. CASE GiveUp(w) \/ ReadUDP(w) \/ SynUnsent(w) \/ SynCut(w) \/ SynAnswer(w)
  BY <1>2, ConcludeTypes DEF GiveUp, ReadUDP, SynUnsent, SynCut, SynAnswer
<1>3. CASE DialSucceeds(w)
  <2>1. CASE mode = "tcp" /\ Conclude(w, "open", "network")
    BY <1>3, <2>1, ConcludeTypes DEF DialSucceeds
  <2>2. CASE mode = "udp" /\ GoTo(w, "read")
             /\ UNCHANGED <<setup, feeder, job, attempt, verdict, token, cancelled, sink>>
    BY <1>3, <2>2 DEF DialSucceeds, TypeOK, Places
  <2> QED
    BY <1>3, <2>1, <2>2 DEF DialSucceeds
<1>4. CASE DialRefused(w) \/ DialWithoutDescriptor(w) \/ DialCut(w)
  BY <1>4, DialFailsTypes DEF DialRefused, DialWithoutDescriptor, DialCut
<1> QED
  BY <1>1, <1>2, <1>3, <1>4 DEF Walk

-----------------------------------------------------------------------------
LEMMA TypeInit == Init => TypeOK
<1> SUFFICES ASSUME Init PROVE TypeOK
  OBVIOUS
<1>1. ckptDone \subseteq Jobs /\ todo \subseteq Jobs
  BY DEF Init, ToEmit
<1>2. Cardinality(ckptDone) \in Nat
  BY <1>1, PipelineAssumption, FS_Subset, FS_CardinalityType DEF PipelineAssumption
<1>3. attempt \in [Workers -> 0 .. Retries]
  BY PipelineAssumption DEF PipelineAssumption, Init
<1>4. /\ pc \in [Workers -> Places]
      /\ job \in [Workers -> Jobs \cup {NoJob}]
      /\ verdict \in [Workers -> Results \cup {NoResult}]
  BY DEF Init, Places
<1>5. \A w \in Workers : /\ job[w] = NoJob <=> pc[w] \in {"select", "exit"}
                         /\ verdict[w] = NoResult <=> pc[w] \notin {"release", "send"}
                         /\ verdict[w] # NoResult => verdict[w].job = job[w]
  BY DEF Init
<1>6. scanned \in Nat /\ reported \subseteq Results /\ mainRes \in Results \cup {NoResult}
  BY <1>2 DEF Init
<1> QED
  BY <1>1, <1>3, <1>4, <1>5, <1>6 DEF Init, TypeOK

LEMMA TypeStep == TypeOK /\ [Next]_vars => TypeOK'
<1> SUFFICES ASSUME TypeOK, [Next]_vars PROVE TypeOK'
  OBVIOUS
<1>1. ASSUME NEW w \in Workers, HandOff(w) PROVE TypeOK'
  BY <1>1, PipelineAssumption DEF PipelineAssumption, HandOff, TypeOK, Places
<1>2. ASSUME NEW w \in Workers, Walk(w) PROVE TypeOK'
  BY <1>2, WalkTypes
<1>3. ASSUME NEW w \in Workers, Leave(w) PROVE TypeOK'
  BY <1>3, LeaveFrame, PipelineAssumption DEF PipelineAssumption, Quit, TypeOK, Places
<1>4. ASSUME NEW w \in Workers, Deliver(w) PROVE TypeOK'
  BY <1>4, PipelineAssumption DEF PipelineAssumption, Deliver, TypeOK, Places
<1>5. CASE Record
  BY <1>5 DEF Record, TypeOK
<1>6. CASE CloseJobs
  BY <1>6 DEF CloseJobs, TypeOK
<1>7. CASE CloseOut
  BY <1>7 DEF CloseOut, TypeOK
<1>8. CASE Finish \/ Cancel
  BY <1>8 DEF Finish, Cancel, TypeOK
<1>9. CASE Tick \/ UNCHANGED vars
  BY <1>9 DEF Tick, vars, TypeOK
<1> QED
  BY <1>1, <1>2, <1>3, <1>4, <1>5, <1>6, <1>7, <1>8, <1>9, StepKinds

-----------------------------------------------------------------------------
\* What each kind of step does to the hands a job can be in.
LEMMA HandOffMoves ==
  ASSUME TypeOK, OneOwner, NEW w \in Workers, HandOff(w)
  PROVE  \E j \in todo : /\ todo' = todo \ {j}
                         /\ InHand' = InHand \cup {j}
                         /\ job' = [job EXCEPT ![w] = j]
<1>1. PICK j \in todo : todo' = todo \ {j} /\ job' = [job EXCEPT ![w] = j]
  BY DEF HandOff
<1>2. job[w] = NoJob /\ j # NoJob
  BY PipelineAssumption DEF PipelineAssumption, HandOff, TypeOK
<1>3. InHand' = InHand \cup {j}
  BY <1>1, <1>2 DEF InHand, TypeOK
<1> QED
  BY <1>1, <1>3

\* When a worker lets go of its job, exactly that job leaves the hands.
LEMMA LettingGo ==
  ASSUME TypeOK, OneOwner, NEW w \in Workers, job' = [job EXCEPT ![w] = NoJob]
  PROVE  InHand' = InHand \ {job[w]}
<1>1. job'[w] = NoJob /\ \A v \in Workers : v # w => job'[v] = job[v]
  BY DEF TypeOK
<1>2. \A v \in Workers : v # w /\ job[v] # NoJob => job[v] # job[w]
  BY DEF OneOwner
<1>3. ASSUME NEW x \in InHand' PROVE x \in InHand \ {job[w]}
  BY <1>1, <1>2, <1>3 DEF InHand
<1>4. ASSUME NEW x \in InHand \ {job[w]} PROVE x \in InHand'
  <2>1. PICK v \in Workers : x = job[v] /\ x # NoJob /\ v # w
    BY <1>4 DEF InHand
  <2> QED
    BY <1>1, <2>1 DEF InHand
<1> QED
  BY <1>3, <1>4

LEMMA DeliverMoves ==
  ASSUME TypeOK, OneOwner, NEW w \in Workers, Deliver(w)
  PROVE  /\ InHand' = InHand \ {job[w]}
         /\ AtMain = {} /\ AtMain' = {job[w]}
         /\ job[w] \in InHand
         /\ mainRes' = verdict[w] /\ verdict[w] # NoResult
<1>1. verdict[w] # NoResult /\ verdict[w].job = job[w] /\ job[w] # NoJob
  BY DEF Deliver, TypeOK
<1> QED
  BY <1>1, LettingGo DEF Deliver, AtMain, InHand

LEMMA RecordMoves ==
  ASSUME TypeOK, OneOwner, Record
  PROVE  /\ AtMain = {mainRes.job} /\ AtMain' = {}
         /\ Recorded' = Recorded \cup {mainRes.job}
         /\ mainRes.job \in Jobs
         /\ mainRes.job \notin ckptDone \cup todo \cup InHand \cup Recorded
<1>1. AtMain = {mainRes.job} /\ AtMain' = {}
  BY DEF Record, AtMain
<1>2. Recorded' = Recorded \cup {mainRes.job}
  BY DEF Record, Recorded
<1>3. mainRes.job \in Jobs
  BY DEF Record, TypeOK, Results
<1> QED
  BY <1>1, <1>2, <1>3 DEF OneOwner

-----------------------------------------------------------------------------
LEMMA OwnerInit == Init => OneOwner
<1> SUFFICES ASSUME Init PROVE OneOwner
  OBVIOUS
<1>1. InHand = {} /\ AtMain = {} /\ Recorded = {}
  BY DEF Init, InHand, AtMain, Recorded
<1> QED
  BY <1>1 DEF Init, ToEmit, OneOwner

LEMMA OwnerStep == TypeOK /\ OneOwner /\ [Next]_vars => OneOwner'
<1> SUFFICES ASSUME TypeOK, OneOwner, [Next]_vars PROVE OneOwner'
  OBVIOUS
<1>1. ASSUME NEW w \in Workers, HandOff(w) PROVE OneOwner'
  <2>1. PICK j \in todo : /\ todo' = todo \ {j} /\ InHand' = InHand \cup {j}
                          /\ job' = [job EXCEPT ![w] = j]
    BY <1>1, HandOffMoves
  <2>2. UNCHANGED <<ckptDone, mainRes, reported, AtMain, Recorded>>
    BY <1>1 DEF HandOff, AtMain, Recorded
  <2>3. \A v \in Workers : job[v] # j
    BY <2>1, PipelineAssumption DEF OneOwner, InHand, PipelineAssumption, TypeOK
  <2>4. \A u, v \in Workers : job'[u] = job'[v] => u = v \/ job'[u] = NoJob
    BY <2>1, <2>3 DEF OneOwner, TypeOK
  <2> QED
    BY <2>1, <2>2, <2>4 DEF OneOwner
<1>2. ASSUME NEW w \in Workers, Walk(w) PROVE OneOwner'
  BY <1>2, WalkFrame DEF OneOwner, InHand, AtMain, Recorded
<1>3. ASSUME NEW w \in Workers, Leave(w) PROVE OneOwner'
  <2>1. job' = [job EXCEPT ![w] = NoJob] /\ InHand' = InHand \ {job[w]}
    BY <1>3, LeaveFrame, LettingGo DEF Quit
  <2>2. UNCHANGED <<ckptDone, todo, mainRes, reported, AtMain, Recorded>>
    BY <1>3, LeaveFrame DEF AtMain, Recorded
  <2>3. \A u, v \in Workers : job'[u] = job'[v] => u = v \/ job'[u] = NoJob
    BY <2>1 DEF OneOwner, TypeOK
  <2> QED
    BY <2>1, <2>2, <2>3 DEF OneOwner
<1>4. ASSUME NEW w \in Workers, Deliver(w) PROVE OneOwner'
  <2>1. job' = [job EXCEPT ![w] = NoJob]
    BY <1>4 DEF Deliver
  <2>2. UNCHANGED <<ckptDone, todo, reported, Recorded>>
    BY <1>4 DEF Deliver, Recorded
  <2>3. \A u, v \in Workers : job'[u] = job'[v] => u = v \/ job'[u] = NoJob
    BY <2>1 DEF OneOwner, TypeOK
  <2> QED
    BY <1>4, <2>2, <2>3, DeliverMoves DEF OneOwner
<1>5. CASE Record
  <2>1. UNCHANGED <<ckptDone, todo, job, InHand>> /\ reported' = reported \cup {mainRes}
    BY <1>5 DEF Record, InHand
  <2>2. \A r, s \in reported' : r.job = s.job => r = s
    BY <1>5, <2>1, RecordMoves DEF OneOwner, Recorded
  <2> QED
    BY <1>5, <2>1, <2>2, RecordMoves DEF OneOwner
<1>6. CASE CloseJobs \/ CloseOut \/ Finish \/ Cancel \/ Tick \/ UNCHANGED vars
  BY <1>6 DEF CloseJobs, CloseOut, Finish, Cancel, Tick, vars, OneOwner,
              InHand, AtMain, Recorded
<1> QED
  BY <1>1, <1>2, <1>3, <1>4, <1>5, <1>6, StepKinds

-----------------------------------------------------------------------------
\* A job out of somebody's hands is in somebody else's until a cancellation.
LEMMA NothingForgottenStep ==
  TypeOK /\ OneOwner /\ ClosingOrder /\ NothingForgotten /\ [Next]_vars => NothingForgotten'
<1> SUFFICES ASSUME TypeOK, OneOwner, ClosingOrder, NothingForgotten, [Next]_vars,
                    ~cancelled'
             PROVE  (Jobs = ckptDone \cup todo \cup InHand \cup AtMain \cup Recorded)'
  BY DEF NothingForgotten
<1> DEFINE Seen == ckptDone \cup todo \cup InHand \cup AtMain \cup Recorded
<1>1. ASSUME NEW w \in Workers, HandOff(w) PROVE Jobs = Seen'
  <2>1. UNCHANGED <<ckptDone, AtMain, Recorded, cancelled>>
    BY <1>1 DEF HandOff, AtMain, Recorded
  <2> QED
    BY <1>1, <2>1, HandOffMoves DEF NothingForgotten
<1>2. ASSUME NEW w \in Workers, Walk(w) PROVE Jobs = Seen'
  BY <1>2, WalkFrame DEF NothingForgotten, InHand, AtMain, Recorded
<1>3. ASSUME NEW w \in Workers, Leave(w) PROVE Jobs = Seen'
  <2>1. ~cancelled /\ job[w] = NoJob
    BY <1>3, LeaveFrame DEF TypeOK
  <2>2. InHand' = InHand
    BY <1>3, <2>1, LeaveFrame, LettingGo DEF Quit, InHand
  <2>3. UNCHANGED <<ckptDone, todo, AtMain, Recorded, cancelled>>
    BY <1>3, LeaveFrame DEF AtMain, Recorded
  <2> QED
    BY <2>2, <2>3 DEF NothingForgotten
<1>4. ASSUME NEW w \in Workers, Deliver(w) PROVE Jobs = Seen'
  <2>1. UNCHANGED <<ckptDone, todo, Recorded, cancelled>>
    BY <1>4 DEF Deliver, Recorded
  <2> QED
    BY <1>4, <2>1, DeliverMoves DEF NothingForgotten
<1>5. CASE Record
  <2>1. UNCHANGED <<ckptDone, todo, InHand, cancelled>>
    BY <1>5 DEF Record, InHand
  <2> QED
    BY <1>5, <2>1, RecordMoves DEF NothingForgotten
<1>6. CASE CloseJobs \/ CloseOut \/ Finish \/ Cancel \/ Tick \/ UNCHANGED vars
  BY <1>6 DEF CloseJobs, CloseOut, Finish, Cancel, Tick, vars, NothingForgotten,
              InHand, AtMain, Recorded
<1> QED
  BY <1>1, <1>2, <1>3, <1>4, <1>5, <1>6, StepKinds

\* The channels close one after the other.
LEMMA ClosingOrderStep == TypeOK /\ ClosingOrder /\ [Next]_vars => ClosingOrder'
<1> SUFFICES ASSUME TypeOK, ClosingOrder, [Next]_vars PROVE ClosingOrder'
  OBVIOUS
<1>1. ASSUME NEW w \in Workers, HandOff(w) PROVE ClosingOrder'
  BY <1>1 DEF HandOff, TypeOK, ClosingOrder
<1>2. ASSUME NEW w \in Workers, Walk(w) PROVE ClosingOrder'
  <2>1. pc[w] # "exit"
    BY <1>2 DEF Walk, TakeToken, EnterGate, GiveUp, StartDial, DialSucceeds, DialRefused,
                DialWithoutDescriptor, DialCut, ReadUDP, SynUnsent, SendSyn,
                SynCut, SynAnswer, LeaveGate
  <2>2. \E place \in Places \ {"exit"} : pc' = [pc EXCEPT ![w] = place]
    BY <1>2 DEF Walk, TakeToken, EnterGate, GiveUp, StartDial, DialSucceeds, DialRefused,
                DialWithoutDescriptor, DialCut, DialFails, ReadUDP, SynUnsent, SendSyn,
                SynCut, SynAnswer, LeaveGate, Conclude, Places
  <2> QED
    BY <1>2, <2>1, <2>2, WalkFrame DEF TypeOK, ClosingOrder
<1>3. ASSUME NEW w \in Workers, Leave(w) PROVE ClosingOrder'
  BY <1>3, LeaveFrame DEF Quit, TypeOK, ClosingOrder
<1>4. ASSUME NEW w \in Workers, Deliver(w) PROVE ClosingOrder'
  BY <1>4 DEF Deliver, TypeOK, ClosingOrder
<1>5. CASE Record
  BY <1>5 DEF Record, ClosingOrder
<1>6. CASE CloseJobs \/ CloseOut \/ Finish \/ Cancel \/ Tick \/ UNCHANGED vars
  BY <1>6 DEF CloseJobs, CloseOut, Finish, Cancel, Tick, vars, ClosingOrder
<1> QED
  BY <1>1, <1>2, <1>3, <1>4, <1>5, <1>6, StepKinds

\* The counter goes up by one exactly when a new job is recorded.
LEMMA CountedStep == TypeOK /\ OneOwner /\ Counted /\ [Next]_vars => Counted'
<1> SUFFICES ASSUME TypeOK, OneOwner, Counted, [Next]_vars PROVE Counted'
  OBVIOUS
<1>1. CASE Record
  <2>1. ckptDone \cup Recorded \subseteq Jobs
    BY DEF TypeOK, Recorded, Results
  <2>2. IsFiniteSet(ckptDone \cup Recorded)
    BY <2>1, PipelineAssumption, FS_Subset DEF PipelineAssumption
  <2>3. (ckptDone \cup Recorded)' = (ckptDone \cup Recorded) \cup {mainRes.job}
        /\ mainRes.job \notin ckptDone \cup Recorded
    BY <1>1, RecordMoves DEF Record
  <2>4. Cardinality((ckptDone \cup Recorded) \cup {mainRes.job})
          = Cardinality(ckptDone \cup Recorded) + 1
    BY <2>2, <2>3, FS_AddElement
  <2>5. scanned' = scanned + 1
    BY <1>1 DEF Record
  <2> QED
    BY <2>3, <2>4, <2>5 DEF Counted
<1>2. ASSUME NEW w \in Workers, HandOff(w) \/ Walk(w) \/ Leave(w) \/ Deliver(w)
      PROVE  UNCHANGED <<scanned, ckptDone, reported>>
  BY <1>2, WalkFrame, LeaveFrame DEF HandOff, Deliver
<1>3. CASE CloseJobs \/ CloseOut \/ Finish \/ Cancel \/ Tick \/ UNCHANGED vars
  BY <1>3 DEF CloseJobs, CloseOut, Finish, Cancel, Tick, vars, Counted, Recorded
<1>4. ASSUME UNCHANGED <<scanned, ckptDone, reported>> PROVE Counted'
  BY <1>4 DEF Counted, Recorded
<1> QED
  BY <1>1, <1>2, <1>3, <1>4, StepKinds

-----------------------------------------------------------------------------
\* probe() concludes with an honest result.
LEMMA HonestConclusions ==
  ASSUME TypeOK, NEW w \in Workers, Walk(w)
  PROVE  \/ verdict' = verdict
         \/ \E s \in States, c \in Causes :
              /\ verdict' = [verdict EXCEPT ![w] = [job |-> job[w], state |-> s, cause |-> c]]
              /\ c # "network" => s \in {"closed", "filtered"}
              /\ c = "cancel" => cancelled
<1> USE DEF States, Causes
<1>1. CASE TakeToken(w) \/ EnterGate(w) \/ StartDial(w) \/ SendSyn(w) \/ LeaveGate(w)
  BY <1>1 DEF TakeToken, EnterGate, StartDial, SendSyn, LeaveGate
<1>2. CASE GiveUp(w) \/ SynCut(w) \/ SynUnsent(w)
  BY <1>2 DEF GiveUp, SynCut, SynUnsent, Conclude
<1>3. CASE ReadUDP(w) \/ SynAnswer(w) \/ DialSucceeds(w)
  BY <1>3 DEF ReadUDP, SynAnswer, DialSucceeds, Conclude
<1>4. CASE DialRefused(w) \/ DialWithoutDescriptor(w) \/ DialCut(w)
  BY <1>4 DEF DialRefused, DialWithoutDescriptor, DialCut, DialFails, Conclude
<1> QED
  BY <1>1, <1>2, <1>3, <1>4 DEF Walk

LEMMA HonestStep == TypeOK /\ HonestResults /\ [Next]_vars => HonestResults'
<1> SUFFICES ASSUME TypeOK, HonestResults, [Next]_vars PROVE HonestResults'
  OBVIOUS
<1> USE DEF HonestResults, Contract!Honest
<1>1. cancelled => cancelled'
  <2>1. ASSUME NEW w \in Workers, HandOff(w) \/ Walk(w) \/ Leave(w) \/ Deliver(w)
        PROVE  cancelled' = cancelled
    BY <2>1, WalkFrame, LeaveFrame DEF HandOff, Deliver
  <2>2. CASE CloseJobs \/ CloseOut \/ Record \/ Finish \/ Cancel \/ Tick \/ UNCHANGED vars
    BY <2>2 DEF CloseJobs, CloseOut, Record, Finish, Cancel, Tick, vars
  <2> QED
    BY <2>1, <2>2, StepKinds
<1>2. ASSUME NEW w \in Workers, HandOff(w) PROVE HonestResults'
  BY <1>2 DEF HandOff
<1>3. ASSUME NEW w \in Workers, Walk(w) PROVE HonestResults'
  <2>1. mainRes' = mainRes /\ cancelled' = cancelled
    BY <1>3, WalkFrame
  <2>2. CASE verdict' = verdict
    BY <2>1, <2>2
  <2>3. ASSUME NEW s \in States, NEW c \in Causes,
               verdict' = [verdict EXCEPT ![w] = [job |-> job[w], state |-> s, cause |-> c]],
               c # "network" => s \in {"closed", "filtered"},
               c = "cancel" => cancelled
        PROVE  HonestResults'
    <3>1. \A v \in Workers : v # w => verdict'[v] = verdict[v]
      BY <2>3 DEF TypeOK
    <3>2. verdict'[w] = [job |-> job[w], state |-> s, cause |-> c]
      BY <2>3 DEF TypeOK
    <3> QED
      BY <2>1, <2>3, <3>1, <3>2
  <2> QED
    BY <1>3, <2>2, <2>3, HonestConclusions
<1>4. ASSUME NEW w \in Workers, Leave(w) PROVE HonestResults'
  BY <1>4, LeaveFrame DEF Quit, TypeOK
<1>5. ASSUME NEW w \in Workers, Deliver(w) PROVE HonestResults'
  BY <1>5 DEF Deliver, TypeOK
<1>6. CASE CloseJobs \/ CloseOut \/ Record \/ Finish \/ Tick \/ UNCHANGED vars
  BY <1>6 DEF CloseJobs, CloseOut, Record, Finish, Tick, vars
<1>7. CASE Cancel
  BY <1>7 DEF Cancel
<1> QED
  BY <1>2, <1>3, <1>4, <1>5, <1>6, <1>7, StepKinds

-----------------------------------------------------------------------------
\* A worker's place in its loop and its standing at the gate move together.
LEMMA GateAlignedStep ==
  TypeOK /\ GateP!TypeOK /\ GateAligned /\ [Next]_vars => GateAligned'
<1> SUFFICES ASSUME TypeOK, GateP!TypeOK, GateAligned, [Next]_vars PROVE GateAligned'
  OBVIOUS
<1> USE DEF GateAligned, Probing
<1>1. ASSUME NEW w \in Workers, HandOff(w) \/ Leave(w) \/ Deliver(w) PROVE GateAligned'
  BY <1>1 DEF HandOff, Leave, StopIdle, StopRated, StopSending, Quit, Deliver, TypeOK
<1>2. ASSUME NEW w \in Workers, Walk(w) PROVE GateAligned'
  <2>1. CASE TakeToken(w) \/ StartDial(w) \/ SendSyn(w) \/ GiveUp(w) \/ ReadUDP(w)
             \/ SynUnsent(w) \/ SynCut(w) \/ SynAnswer(w) \/ DialSucceeds(w)
             \/ DialRefused(w) \/ DialCut(w)
    BY <2>1 DEF TakeToken, StartDial, SendSyn, GiveUp, ReadUDP, SynUnsent, SynCut,
                SynAnswer, DialSucceeds, DialRefused, DialCut, DialFails, Conclude, TypeOK
  <2>2. CASE DialWithoutDescriptor(w)
    BY <2>2 DEF DialWithoutDescriptor, DialFails, Conclude, TypeOK, Gate!Shrink
  <2>3. CASE EnterGate(w)
    BY <2>3 DEF EnterGate, TypeOK, GateP!TypeOK, Gate!Acquire, Gate!Recheck, Gate!Admit, Gate!Park
  <2>4. CASE LeaveGate(w)
    BY <2>4 DEF LeaveGate, TypeOK, GateP!TypeOK, Gate!Release,
                Gate!Waiting, Gate!Standing
  <2> QED
    BY <1>2, <2>1, <2>2, <2>3, <2>4 DEF Walk
<1>3. CASE CloseJobs \/ CloseOut \/ Record \/ Finish \/ Cancel \/ Tick \/ UNCHANGED vars
  BY <1>3 DEF CloseJobs, CloseOut, Record, Finish, Cancel, Tick, vars
<1> QED
  BY <1>1, <1>2, <1>3, StepKinds

-----------------------------------------------------------------------------
\* The constants of the pipeline are fit for the gate.
LEMMA GateConstants == GateP!GateAssumption
<1>1. IsFiniteSet(Workers) <=> GateP!IsFiniteSet(Workers)
  BY DEF IsFiniteSet, GateP!IsFiniteSet
<1> QED
  BY <1>1, PipelineAssumption DEF PipelineAssumption, GateP!GateAssumption

\* Each step of the pipeline is one call of the gate, or none.
LEMMA StepUsesGate == [Next]_vars => [Gate!Next]_(Gate!gateVars)
<1> SUFFICES ASSUME [Next]_vars PROVE [Gate!Next]_(Gate!gateVars)
  OBVIOUS
<1> USE DEF Gate!gateVars
<1>1. ASSUME NEW w \in Workers, HandOff(w) \/ Leave(w) \/ Deliver(w)
      PROVE  UNCHANGED Gate!gateVars
  BY <1>1, LeaveFrame DEF HandOff, Deliver
<1>2. ASSUME NEW w \in Workers, Walk(w) PROVE [Gate!Next]_(Gate!gateVars)
  <2>1. CASE TakeToken(w) \/ StartDial(w) \/ SendSyn(w) \/ GiveUp(w) \/ ReadUDP(w)
             \/ SynUnsent(w) \/ SynCut(w) \/ SynAnswer(w) \/ DialSucceeds(w)
             \/ DialRefused(w) \/ DialCut(w)
    BY <2>1 DEF TakeToken, StartDial, SendSyn, GiveUp, ReadUDP, SynUnsent, SynCut,
                SynAnswer, DialSucceeds, DialRefused, DialCut
  <2>2. CASE DialWithoutDescriptor(w)
    BY <2>2 DEF DialWithoutDescriptor, Gate!Next, Gate!GateStep
  <2>3. CASE EnterGate(w)
    BY <2>3 DEF EnterGate, Gate!Next, Gate!GateStep
  <2>4. CASE LeaveGate(w)
    BY <2>4 DEF LeaveGate, Gate!Next, Gate!GateStep
  <2> QED
    BY <1>2, <2>1, <2>2, <2>3, <2>4 DEF Walk
<1>3. CASE CloseJobs \/ CloseOut \/ Record \/ Finish \/ Cancel \/ Tick \/ UNCHANGED vars
  BY <1>3 DEF CloseJobs, CloseOut, Record, Finish, Cancel, Tick, vars
<1> QED
  BY <1>1, <1>2, <1>3, StepKinds

\* GateP and Gate name the same gate.
LEMMA SameGateStep == [Gate!Next]_(Gate!gateVars) => [GateP!Next]_(GateP!gateVars)
BY DEF Gate!Next, GateP!Next, Gate!gateVars, GateP!gateVars, Gate!GateStep, GateP!GateStep,
       Gate!Acquire, GateP!Acquire, Gate!Recheck, GateP!Recheck, Gate!Admit, GateP!Admit,
       Gate!Park, GateP!Park, Gate!Release, GateP!Release, Gate!Waiting, GateP!Waiting,
       Gate!Standing, GateP!Standing, Gate!Shrink, GateP!Shrink, Gate!Shrunk, GateP!Shrunk,
       Gate!Floor, GateP!Floor

-----------------------------------------------------------------------------
LEMMA FullInit == Init => FullInv
<1> SUFFICES ASSUME Init PROVE FullInv
  OBVIOUS
<1>1. TypeOK /\ OneOwner
  BY TypeInit, OwnerInit
<1>2. InHand = {} /\ AtMain = {} /\ Recorded = {}
  BY DEF Init, InHand, AtMain, Recorded
<1>3. NothingForgotten
  BY <1>1, <1>2 DEF NothingForgotten, Init, ToEmit, TypeOK
<1>4. ClosingOrder
  BY DEF ClosingOrder, Init
<1>5. Counted
  BY <1>2 DEF Counted, Init
<1>6. HonestResults
  BY DEF HonestResults, Init
<1>7. GateAligned
  BY DEF GateAligned, Init, Gate!Init, Probing
<1>8. GateP!Init
  BY DEF Init, Gate!Init, GateP!Init
<1>9. GateP!GateInv
  BY <1>8, GateConstants, GateP!GateInit
<1> QED
  BY <1>1, <1>3, <1>4, <1>5, <1>6, <1>7, <1>9 DEF FullInv, PipelineInv

LEMMA FullStep == FullInv /\ [Next]_vars => FullInv'
<1> SUFFICES ASSUME FullInv, [Next]_vars PROVE FullInv'
  OBVIOUS
<1> USE DEF FullInv, PipelineInv
<1>1. TypeOK' /\ OneOwner'
  BY TypeStep, OwnerStep
<1>2. NothingForgotten' /\ ClosingOrder'
  BY NothingForgottenStep, ClosingOrderStep
<1>3. Counted' /\ HonestResults'
  BY CountedStep, HonestStep
<1>4. GateP!TypeOK
  BY DEF GateP!GateInv
<1>5. GateAligned'
  BY <1>4, GateAlignedStep
<1>6. GateP!GateInv'
  BY StepUsesGate, SameGateStep, GateConstants, GateP!GateStepKeeps
<1> QED
  BY <1>1, <1>2, <1>3, <1>5, <1>6

-----------------------------------------------------------------------------
\* Types, and what a worker holds at each place of scan()'s loop.
THEOREM PipelineTypeCorrect == Spec => []TypeOK
<1>1. FullInv => TypeOK
  BY DEF FullInv, PipelineInv
<1> QED
  BY <1>1, FullInit, FullStep, PTL DEF Spec

\* No job is probed, delivered or recorded twice, whatever the interleaving.
THEOREM PipelineOneOwner == Spec => []OneOwner
<1>1. FullInv => OneOwner
  BY DEF FullInv, PipelineInv
<1> QED
  BY <1>1, FullInit, FullStep, PTL DEF Spec

\* The whole strengthening TLC checks on the small instance.
THEOREM PipelineInvariant == Spec => []PipelineInv
<1>1. FullInv => PipelineInv
  BY DEF FullInv
<1> QED
  BY <1>1, FullInit, FullStep, PTL DEF Spec

\* When main leaves its loop nobody has a job any more.
LEMMA NothingLeft ==
  ASSUME FullInv, finished
  PROVE  InHand = {} /\ AtMain = {} /\ (todo = {} \/ cancelled)
<1> USE DEF FullInv, PipelineInv
<1>1. mainRes = NoResult /\ \A w \in Workers : pc[w] = "exit"
  BY DEF ClosingOrder
<1>2. InHand = {}
  BY <1>1 DEF TypeOK, InHand
<1>3. Workers # {}
  BY PipelineAssumption, FS_EmptySet DEF PipelineAssumption
<1> QED
  BY <1>1, <1>2, <1>3 DEF ClosingOrder, AtMain

\* A scan that nobody cancelled has a result for every job it had to probe.
THEOREM PipelineComplete == Spec => []Complete
<1>1. FullInv => Complete
  <2> SUFFICES ASSUME FullInv, finished, ~cancelled PROVE Recorded = Jobs \ ckptDone
    BY DEF Complete
  <2>1. Jobs = ckptDone \cup Recorded
    BY NothingLeft DEF FullInv, PipelineInv, NothingForgotten
  <2>2. ckptDone \cap Recorded = {}
    BY DEF FullInv, PipelineInv, OneOwner
  <2> QED
    BY <2>1, <2>2
<1> QED
  BY <1>1, FullInit, FullStep, PTL DEF Spec

\* The progress never passes 100%, and ends at 100% when nobody interferes.
THEOREM PipelineProgressExact == Spec => []ProgressExact
<1>1. FullInv => ProgressExact
  <2> SUFFICES ASSUME FullInv PROVE ProgressExact
    OBVIOUS
  <2> USE DEF FullInv, PipelineInv
  <2>1. ckptDone \cup Recorded \subseteq Jobs
    BY DEF TypeOK, Recorded, Results
  <2>2. Cardinality(ckptDone \cup Recorded) <= Cardinality(Jobs)
    BY <2>1, PipelineAssumption, FS_Subset DEF PipelineAssumption
  <2>3. finished /\ ~cancelled => ckptDone \cup Recorded = Jobs
    BY NothingLeft DEF NothingForgotten
  <2> QED
    BY <2>2, <2>3 DEF Counted, ProgressExact
<1> QED
  BY <1>1, FullInit, FullStep, PTL DEF Spec

\* On every path through probe() the gate is entered and left properly.
THEOREM PipelineImplementsGate == Spec => ImplementsGate
<1>1. Init => Gate!Init
  BY DEF Init
<1> QED
  BY <1>1, StepUsesGate, PTL DEF Spec, ImplementsGate, Gate!Spec

\* Who starts to probe finds a free slot under the limit as it is then.
THEOREM PipelineRespectsLimit == Spec => NewProbesRespectLimit
<1> DEFINE Starts == \A w \in Workers :
             w \notin Probing /\ w \in Probing' => Cardinality(Probing) < limit
<1>1. FullInv /\ [Next]_vars => [Starts]_vars
  <2> SUFFICES ASSUME FullInv, [Next]_vars, NEW w \in Workers,
                      w \notin Probing, w \in Probing'
               PROVE  Cardinality(Probing) < limit
    OBVIOUS
  <2> USE DEF FullInv, PipelineInv
  <2>1. GateP!Holding = Probing /\ GateP!Cardinality(Probing) = Cardinality(Probing)
    BY DEF GateAligned, GateP!Holding, GateP!Standing, Probing,
           GateP!Cardinality, Cardinality
  <2>2. inflight = Cardinality(Probing)
    BY <2>1 DEF GateP!GateInv, GateP!SlotAccounting
  <2>3. EnterGate(w)
    <3>1. pc[w] # pc'[w] /\ pc[w] \notin {"attempt", "dial", "read", "listen", "release"}
          /\ pc'[w] \in {"attempt", "dial", "read", "listen", "release"}
      BY DEF Probing
    <3>2. ~ UNCHANGED pc
      BY <3>1
    <3>3. PICK v \in Workers : HandOff(v) \/ Walk(v) \/ Leave(v) \/ Deliver(v)
      BY <3>2, StepKinds DEF CloseJobs, CloseOut, Record, Finish, Cancel, Tick, vars
    <3>4. \E place \in Places : pc' = [pc EXCEPT ![v] = place]
      BY <3>3, LeaveFrame
         DEF HandOff, Deliver, Quit, Walk, TakeToken, EnterGate, GiveUp, StartDial,
             DialSucceeds, DialRefused, DialWithoutDescriptor, DialCut, DialFails, ReadUDP,
             SynUnsent, SendSyn, SynCut, SynAnswer, LeaveGate, Conclude, Places
    <3>5. v = w
      BY <3>1, <3>4 DEF TypeOK
    <3>6. ~ (HandOff(w) \/ Leave(w) \/ Deliver(w))
      BY <3>1, LeaveFrame DEF HandOff, Deliver, Quit, TypeOK
    <3>7. Walk(w)
      BY <3>3, <3>5, <3>6
    <3> QED
      BY <3>1, <3>7 DEF Walk, TakeToken, GiveUp, StartDial, DialSucceeds, DialRefused,
         DialWithoutDescriptor, DialCut, ReadUDP, SynUnsent, SendSyn, SynCut, SynAnswer,
         LeaveGate, GoTo, TypeOK
  <2>4. inflight < limit
    BY <2>3 DEF EnterGate, Gate!Acquire, Gate!Recheck, Gate!Admit, Gate!Park,
                Probing, TypeOK, GateP!GateInv, GateP!TypeOK
  <2> QED
    BY <2>2, <2>4
<1> QED
  BY <1>1, FullInit, FullStep, PTL DEF Spec, NewProbesRespectLimit

-----------------------------------------------------------------------------
\* Each step of the pipeline is a step of the contract, or none.
LEMMA StepIsContractStep ==
  FullInv /\ [Next]_vars => [Contract!Next]_(Contract!contractVars)
<1> SUFFICES ASSUME FullInv, [Next]_vars
             PROVE  [Contract!Next]_(Contract!contractVars)
  OBVIOUS
<1> USE DEF FullInv, PipelineInv, Contract!Next, Contract!contractVars
<1>1. ASSUME NEW w \in Workers, HandOff(w) PROVE Contract!Next
  <2>1. PICK j \in todo : todo' = todo \ {j} /\ InHand' = InHand \cup {j}
    BY <1>1, HandOffMoves
  <2>2. UNCHANGED <<ckptDone, AtMain, reported, cancelled, finished>> /\ j \in Jobs
    BY <1>1 DEF HandOff, AtMain, TypeOK
  <2>3. Contract!Take(j)
    BY <2>1, <2>2 DEF Contract!Take
  <2> QED
    BY <2>2, <2>3
<1>2. ASSUME NEW w \in Workers, Walk(w) PROVE UNCHANGED Contract!contractVars
  BY <1>2, WalkFrame DEF InHand, AtMain
<1>3. ASSUME NEW w \in Workers, Leave(w) PROVE [Contract!Next]_(Contract!contractVars)
  <2>1. /\ UNCHANGED <<ckptDone, todo, AtMain, reported, cancelled, finished>>
        /\ InHand' = InHand \ {job[w]}
    BY <1>3, LeaveFrame, LettingGo DEF Quit, AtMain
  <2>2. CASE job[w] = NoJob
    BY <2>1, <2>2 DEF InHand
  <2>3. CASE job[w] # NoJob
    <3>1. cancelled /\ job[w] \in InHand /\ job[w] \in Jobs
      BY <1>3, <2>3, LeaveFrame DEF TypeOK, InHand
    <3>2. job[w] \notin AtMain
      BY <3>1 DEF OneOwner
    <3>3. Contract!Drop(job[w])
      BY <2>1, <3>1, <3>2 DEF Contract!Drop
    <3> QED
      BY <3>1, <3>3
  <2> QED
    BY <2>2, <2>3
<1>4. ASSUME NEW w \in Workers, Deliver(w) PROVE UNCHANGED Contract!contractVars
  <2>1. UNCHANGED <<ckptDone, todo, reported, cancelled, finished>>
    BY <1>4 DEF Deliver
  <2> QED
    BY <1>4, <2>1, DeliverMoves
<1>5. CASE Record
  <2>1. UNCHANGED <<ckptDone, todo, InHand, cancelled, finished>>
        /\ reported' = reported \cup {mainRes}
    BY <1>5 DEF Record, InHand
  <2>2. (InHand \cup AtMain)' = (InHand \cup AtMain) \ {mainRes.job}
        /\ mainRes.job \in InHand \cup AtMain
    BY <1>5, <2>1, RecordMoves
  <2>3. Contract!Honest(mainRes)
    BY <1>5 DEF HonestResults, Record
  <2>4. Contract!Report(mainRes)
    BY <2>1, <2>2, <2>3 DEF Contract!Report
  <2>5. mainRes \in Contract!Results
    BY <1>5 DEF Record, TypeOK, Results, States, Causes,
                Contract!Results, Contract!States, Contract!Causes
  <2> QED
    BY <2>4, <2>5
<1>6. CASE Finish
  <2>1. InHand = {} /\ AtMain = {} /\ (todo = {} \/ cancelled)
    <3>1. \A w \in Workers : pc[w] = "exit"
      BY <1>6 DEF Finish, ClosingOrder
    <3>2. Workers # {}
      BY PipelineAssumption, FS_EmptySet DEF PipelineAssumption
    <3> QED
      BY <1>6, <3>1, <3>2 DEF Finish, ClosingOrder, TypeOK, InHand, AtMain
  <2>2. Contract!Finish
    BY <1>6, <2>1 DEF Finish, Contract!Finish, InHand, AtMain
  <2> QED
    BY <2>2
<1>7. CASE Cancel
  BY <1>7 DEF Cancel, Contract!Cancel, InHand, AtMain
<1>8. CASE CloseJobs \/ CloseOut \/ Tick \/ UNCHANGED vars
  BY <1>8 DEF CloseJobs, CloseOut, Tick, vars, InHand, AtMain
<1> QED
  BY <1>1, <1>2, <1>3, <1>4, <1>5, <1>6, <1>7, <1>8, StepKinds

\* Goroutines, channels, retries, limiter and gate are invisible to main: the
\* pipeline does nothing that the contract of a scan does not allow.
THEOREM PipelineImplementsContract == Spec => ImplementsContract
<1>1. Init => Contract!Init
  BY DEF Init, Contract!Init, ToEmit, InHand, AtMain
<1> QED
  BY <1>1, FullInit, FullStep, StepIsContractStep, PTL
     DEF Spec, ImplementsContract, Contract!Spec
=============================================================================
