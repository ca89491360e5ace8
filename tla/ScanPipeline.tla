---------------------------- MODULE ScanPipeline ----------------------------
(***************************************************************************)
(* One scan, goroutine by goroutine: generateJobs feeds an unbuffered      *)
(* channel, the workers of scan() take a job, a rate token and a slot of   *)
(* the gate, probe, give the slot back and send the result on a second     *)
(* unbuffered channel, and main() counts and records it.  A send and its   *)
(* receive are one step (a rendezvous).  Ctrl+C or the deadline may cancel *)
(* the context before any step; a select with several ready cases takes    *)
(* any of them.  -randomize permutes the targets, so jobs are emitted in   *)
(* any order.                                                              *)
(***************************************************************************)
EXTENDS Integers, FiniteSets

CONSTANTS
  Jobs,      \* the host and port pairs to probe
  Workers,   \* the goroutines scan() starts
  Threads,   \* -threads: the limit of the gate
  FloorMin,  \* newGate's constant floor
  Retries,   \* -retries
  NoJob,     \* a worker without a job
  NoResult   \* a worker, or main, without a result

States == {"open", "open|filtered", "closed", "filtered"}
Causes == {"network", "cancel", "local"}
Results == [job : Jobs, state : States, cause : Causes]

\* scan() starts max(1, -threads) workers, but the gate gets -threads itself.
\* With a negative -retries probe() has no connection to use: see ConnectProbe.
PipelineAssumption ==
  /\ IsFiniteSet(Jobs) /\ IsFiniteSet(Workers)
  /\ Threads \in Int
  /\ Cardinality(Workers) = (IF Threads < 1 THEN 1 ELSE Threads)
  /\ FloorMin \in Nat \ {0}
  /\ Retries \in Nat
  /\ NoJob \notin Jobs
  /\ NoResult \notin Results

ASSUME PipelineAssumption

VARIABLES
  mode,       \* "tcp", "udp" or "syn": -proto and -syn
  limited,    \* whether -rate is set
  ckptDone,   \* jobs an earlier run completed
  todo,       \* jobs generateJobs has yet to emit
  jobsClosed, \* generateJobs has returned and closed its channel
  pc,         \* where each worker is
  job,        \* the job it works on
  attempt,    \* its dial attempts so far
  verdict,    \* the result it is about to send
  limit, inflight, gpc,   \* the gate
  token,      \* the limiter's channel (capacity one) holds a tick
  cancelled,  \* ctx.Done() is closed
  outClosed,  \* the results channel is closed
  mainRes,    \* the result main has received and not yet recorded
  scanned,    \* main's counter, shown as progress
  reported,   \* the results main has recorded
  finished    \* main has left its loop over the results

setup   == <<mode, limited, ckptDone>>
feeder  == <<todo, jobsClosed>>
workers == <<pc, job, attempt, verdict>>
gate    == <<limit, inflight, gpc>>
sink    == <<outClosed, mainRes, scanned, reported, finished>>
vars    == <<setup, feeder, workers, gate, token, cancelled, sink>>

Gate == INSTANCE AdaptiveGate

GoTo(w, place) == pc' = [pc EXCEPT ![w] = place]

\* The worker's goroutine returns; what it held goes with it.
Quit(w) ==
  /\ GoTo(w, "exit")
  /\ job' = [job EXCEPT ![w] = NoJob]
  /\ attempt' = [attempt EXCEPT ![w] = 0]
  /\ verdict' = [verdict EXCEPT ![w] = NoResult]

-----------------------------------------------------------------------------
\* Mutant of ToEmit: generateJobs does not skip what the checkpoint holds.
ToEmitAll == Jobs

\* What generateJobs has to emit.
ToEmit == Jobs \ ckptDone

Init ==
  /\ mode \in {"tcp", "udp", "syn"}
  /\ limited \in BOOLEAN
  /\ ckptDone \in SUBSET Jobs
  /\ todo = ToEmit
  /\ jobsClosed = FALSE
  /\ pc = [w \in Workers |-> "select"]
  /\ job = [w \in Workers |-> NoJob]
  /\ attempt = [w \in Workers |-> 0]
  /\ verdict = [w \in Workers |-> NoResult]
  /\ Gate!Init
  /\ token = FALSE
  /\ cancelled = FALSE
  /\ outClosed = FALSE
  /\ mainRes = NoResult
  /\ scanned = Cardinality(ckptDone)
  /\ reported = {}
  /\ finished = FALSE

-----------------------------------------------------------------------------
(* generateJobs, and the select at the top of the worker's loop            *)

HandOff(w) ==
  /\ ~jobsClosed
  /\ pc[w] = "select"
  /\ \E j \in todo :
       /\ todo' = todo \ {j}
       /\ job' = [job EXCEPT ![w] = j]
  /\ GoTo(w, IF limited THEN "rate" ELSE "gate")
  /\ UNCHANGED <<setup, jobsClosed, attempt, verdict, gate, token, cancelled, sink>>

CloseJobs ==
  /\ ~jobsClosed
  /\ todo = {} \/ cancelled
  /\ jobsClosed' = TRUE
  /\ UNCHANGED <<setup, todo, workers, gate, token, cancelled, sink>>

\* Mutant of StopIdle: the `ok' of the receive is ignored.
StopIdleOnlyWhenDone(w) ==
  /\ pc[w] = "select"
  /\ cancelled
  /\ Quit(w)
  /\ UNCHANGED <<setup, feeder, gate, token, cancelled, sink>>

\* The jobs channel is closed, or the worker's select chose <-done.
StopIdle(w) ==
  /\ pc[w] = "select"
  /\ jobsClosed \/ cancelled
  /\ Quit(w)
  /\ UNCHANGED <<setup, feeder, gate, token, cancelled, sink>>

-----------------------------------------------------------------------------
(* Before the probe: the rate limiter and the gate                         *)

TakeToken(w) ==
  /\ pc[w] = "rate"
  /\ token
  /\ token' = FALSE
  /\ GoTo(w, "gate")
  /\ UNCHANGED <<setup, feeder, job, attempt, verdict, gate, cancelled, sink>>

\* Cancelled while it waited for a tick: the job is forgotten.
StopRated(w) ==
  /\ pc[w] = "rate"
  /\ cancelled
  /\ Quit(w)
  /\ UNCHANGED <<setup, feeder, gate, token, cancelled, sink>>

\* gate.acquire() does not look at the context.
EnterGate(w) ==
  /\ pc[w] = "gate"
  /\ Gate!Acquire(w) \/ Gate!Recheck(w)
  /\ GoTo(w, IF gpc'[w] = "holding" THEN "attempt" ELSE "gate")
  /\ UNCHANGED <<setup, feeder, job, attempt, verdict, token, cancelled, sink>>

-----------------------------------------------------------------------------
(* probe()                                                                 *)

\* probe() returns to the worker, which next calls gate.release().
Conclude(w, state, cause) ==
  /\ verdict' = [verdict EXCEPT ![w] =
                   [job |-> job[w], state |-> state, cause |-> cause]]
  /\ GoTo(w, "release")
  /\ UNCHANGED <<setup, feeder, job, attempt, token, cancelled, sink>>

\* The top of the retry loop, the context already cancelled.
GiveUp(w) ==
  /\ mode # "syn"
  /\ pc[w] = "attempt"
  /\ cancelled
  /\ Conclude(w, "closed", "cancel")
  /\ UNCHANGED gate

StartDial(w) ==
  /\ mode # "syn"
  /\ pc[w] = "attempt"
  /\ ~cancelled
  /\ GoTo(w, "dial")
  /\ UNCHANGED <<setup, feeder, job, attempt, verdict, gate, token, cancelled, sink>>

\* A TCP handshake is the verdict; a UDP dial has only made a socket.
DialSucceeds(w) ==
  /\ pc[w] = "dial"
  /\ UNCHANGED gate
  /\ \/ mode = "tcp" /\ Conclude(w, "open", "network")
     \/ /\ mode = "udp"
        /\ GoTo(w, "read")
        /\ UNCHANGED <<setup, feeder, job, attempt, verdict, token, cancelled, sink>>

\* Mutant of DialFails: one attempt too many.
DialFailsOnceMore(w, cause) ==
  IF attempt[w] <= Retries
  THEN /\ attempt' = [attempt EXCEPT ![w] = @ + 1]
       /\ GoTo(w, "attempt")
       /\ UNCHANGED <<setup, feeder, job, verdict, token, cancelled, sink>>
  ELSE Conclude(w, "closed", cause)

\* An error with attempts left goes round the loop, the last one is a result.
DialFails(w, cause) ==
  IF attempt[w] < Retries
  THEN /\ attempt' = [attempt EXCEPT ![w] = @ + 1]
       /\ GoTo(w, "attempt")
       /\ UNCHANGED <<setup, feeder, job, verdict, token, cancelled, sink>>
  ELSE Conclude(w, "closed", cause)

\* Refused, unreachable or silent for the whole -timeout; or there is no such
\* name, or the proxy does not play along, which says nothing about the port.
DialRefused(w) ==
  /\ pc[w] = "dial"
  /\ \E cause \in {"network", "local"} : DialFails(w, cause)
  /\ UNCHANGED gate

DialWithoutDescriptor(w) ==
  /\ pc[w] = "dial"
  /\ DialFails(w, "local")
  /\ Gate!Shrink(w)

\* DialContext notices the cancellation.
DialCut(w) ==
  /\ pc[w] = "dial"
  /\ cancelled
  /\ DialFails(w, "cancel")
  /\ UNCHANGED gate

\* The UDP read is bounded by its own deadline and ignores the context.
ReadUDP(w) ==
  /\ pc[w] = "read"
  /\ \E state \in {"open", "open|filtered", "closed"} : Conclude(w, state, "network")
  /\ UNCHANGED gate

\* synProbe() before it listens: no address, no raw socket or nothing sent.
SynUnsent(w) ==
  /\ mode = "syn"
  /\ pc[w] = "attempt"
  /\ \E state \in {"closed", "filtered"} : Conclude(w, state, "local")
  /\ UNCHANGED gate

SendSyn(w) ==
  /\ mode = "syn"
  /\ pc[w] = "attempt"
  /\ ~cancelled
  /\ GoTo(w, "listen")
  /\ UNCHANGED <<setup, feeder, job, attempt, verdict, gate, token, cancelled, sink>>

\* The listening loop looks at the context before each packet, the first
\* time just after the SYN left.
SynCut(w) ==
  /\ mode = "syn"
  /\ pc[w] \in {"attempt", "listen"}
  /\ cancelled
  /\ Conclude(w, "filtered", "cancel")
  /\ UNCHANGED gate

SynAnswer(w) ==
  /\ pc[w] = "listen"
  /\ \E state \in {"open", "closed", "filtered"} : Conclude(w, state, "network")
  /\ UNCHANGED gate

-----------------------------------------------------------------------------
(* After the probe                                                         *)

\* Mutant of LeaveGate: the counter is decremented, nobody is woken.
LeaveGateByHand(w) ==
  /\ pc[w] = "release"
  /\ inflight' = inflight - 1
  /\ gpc' = [gpc EXCEPT ![w] = "outside"]
  /\ GoTo(w, "send")
  /\ UNCHANGED <<setup, feeder, job, attempt, verdict, limit, token, cancelled, sink>>

LeaveGate(w) ==
  /\ pc[w] = "release"
  /\ Gate!Release(w)
  /\ GoTo(w, "send")
  /\ UNCHANGED <<setup, feeder, job, attempt, verdict, token, cancelled, sink>>

\* Mutant of Deliver: the worker sends its result again.
DeliverTwice(w) ==
  /\ pc[w] = "send"
  /\ mainRes = NoResult
  /\ mainRes' = verdict[w]
  /\ UNCHANGED <<setup, feeder, workers, gate, token, cancelled, outClosed, scanned, reported, finished>>

Deliver(w) ==
  /\ pc[w] = "send"
  /\ mainRes = NoResult
  /\ mainRes' = verdict[w]
  /\ GoTo(w, "select")
  /\ job' = [job EXCEPT ![w] = NoJob]
  /\ attempt' = [attempt EXCEPT ![w] = 0]
  /\ verdict' = [verdict EXCEPT ![w] = NoResult]
  /\ UNCHANGED <<setup, feeder, gate, token, cancelled, outClosed, scanned, reported, finished>>

\* Mutant of StopSending: the select has a default case, taken when main is
\* busy with another result.
StopSendingWhenBusy(w) ==
  /\ pc[w] = "send"
  /\ cancelled \/ mainRes # NoResult
  /\ Quit(w)
  /\ UNCHANGED <<setup, feeder, gate, token, cancelled, sink>>

\* Cancelled while it waited for main: the result is thrown away.
StopSending(w) ==
  /\ pc[w] = "send"
  /\ cancelled
  /\ Quit(w)
  /\ UNCHANGED <<setup, feeder, gate, token, cancelled, sink>>

\* Mutant of CloseOut: wg.Done() before the last result is sent.
CloseOutEarly ==
  /\ ~outClosed
  /\ \A w \in Workers : pc[w] \in {"send", "exit"}
  /\ outClosed' = TRUE
  /\ UNCHANGED <<setup, feeder, workers, gate, token, cancelled, mainRes, scanned, reported, finished>>

\* The goroutine behind wg.Wait().
CloseOut ==
  /\ ~outClosed
  /\ \A w \in Workers : pc[w] = "exit"
  /\ outClosed' = TRUE
  /\ UNCHANGED <<setup, feeder, workers, gate, token, cancelled, mainRes, scanned, reported, finished>>

-----------------------------------------------------------------------------
(* main()                                                                  *)

\* The body of the loop over the results.
Record ==
  /\ mainRes # NoResult
  /\ scanned' = scanned + 1
  /\ reported' = reported \cup {mainRes}
  /\ mainRes' = NoResult
  /\ UNCHANGED <<setup, feeder, workers, gate, token, cancelled, outClosed, finished>>

Finish ==
  /\ ~finished
  /\ outClosed /\ mainRes = NoResult
  /\ finished' = TRUE
  /\ UNCHANGED <<setup, feeder, workers, gate, token, cancelled, outClosed, mainRes, scanned, reported>>

\* The signal goroutine or the deadline timer.
Cancel ==
  /\ ~cancelled /\ ~finished
  /\ cancelled' = TRUE
  /\ UNCHANGED <<setup, feeder, workers, gate, token, sink>>

\* time.Tick: a tick is dropped while the previous one was not taken.
Tick ==
  /\ limited /\ ~token /\ ~finished
  /\ token' = TRUE
  /\ UNCHANGED <<setup, feeder, workers, gate, cancelled, sink>>

\* The program has ended; what is left of its goroutines goes with it.
Ended == finished /\ UNCHANGED vars

-----------------------------------------------------------------------------
WorkerStep(w) ==
  \/ HandOff(w) \/ StopIdle(w)
  \/ TakeToken(w) \/ StopRated(w) \/ EnterGate(w)
  \/ GiveUp(w) \/ StartDial(w)
  \/ DialSucceeds(w) \/ DialRefused(w) \/ DialWithoutDescriptor(w) \/ DialCut(w)
  \/ ReadUDP(w)
  \/ SynUnsent(w) \/ SendSyn(w) \/ SynCut(w) \/ SynAnswer(w)
  \/ LeaveGate(w) \/ Deliver(w) \/ StopSending(w)

ProgramStep ==
  /\ ~finished
  /\ (\E w \in Workers : WorkerStep(w)) \/ CloseJobs \/ CloseOut \/ Record \/ Finish

Next == ProgramStep \/ Cancel \/ Tick \/ Ended

Spec == Init /\ [][Next]_vars

\* The Go scheduler runs some runnable goroutine, dials and reads end within
\* their timeouts, and the ticker ticks.  Nobody has to press Ctrl+C.
Fairness == WF_vars(ProgramStep) /\ WF_vars(Tick)

FairSpec == Spec /\ Fairness

-----------------------------------------------------------------------------
InHand == {job[w] : w \in Workers} \ {NoJob}
AtMain == IF mainRes = NoResult THEN {} ELSE {mainRes.job}
Recorded == {r.job : r \in reported}

Places == {"select", "rate", "gate", "attempt", "dial", "read", "listen",
           "release", "send", "exit"}
Probing == {w \in Workers : pc[w] \in {"attempt", "dial", "read", "listen", "release"}}

\* What main() sees of the pipeline: a job is taken while a worker or main has it.
Contract == INSTANCE ScanContract WITH taken <- InHand \cup AtMain

\* Types, and what a worker holds at each place of its loop.
TypeOK ==
  /\ mode \in {"tcp", "udp", "syn"} /\ limited \in BOOLEAN
  /\ ckptDone \subseteq Jobs /\ todo \subseteq Jobs
  /\ jobsClosed \in BOOLEAN
  /\ pc \in [Workers -> Places]
  /\ job \in [Workers -> Jobs \cup {NoJob}]
  /\ attempt \in [Workers -> 0 .. Retries]
  /\ verdict \in [Workers -> Results \cup {NoResult}]
  /\ \A w \in Workers :
       /\ job[w] = NoJob <=> pc[w] \in {"select", "exit"}
       /\ verdict[w] = NoResult <=> pc[w] \notin {"release", "send"}
       /\ verdict[w] # NoResult => verdict[w].job = job[w]
  /\ token \in BOOLEAN /\ cancelled \in BOOLEAN
  /\ outClosed \in BOOLEAN /\ finished \in BOOLEAN
  /\ mainRes \in Results \cup {NoResult}
  /\ scanned \in Nat
  /\ reported \subseteq Results

\* A job is in one place: skipped, waiting, in one worker's hands, with main,
\* or recorded, and recorded once.  Nothing is probed or counted twice.
OneOwner ==
  /\ \A v, w \in Workers : job[v] = job[w] => v = w \/ job[v] = NoJob
  /\ \A r, s \in reported : r.job = s.job => r = s
  /\ todo \cap (ckptDone \cup InHand \cup AtMain \cup Recorded) = {}
  /\ InHand \cap (ckptDone \cup AtMain \cup Recorded) = {}
  /\ AtMain \cap (ckptDone \cup Recorded) = {}
  /\ ckptDone \cap Recorded = {}

\* Until somebody cancels, no job is out of everybody's sight.
NothingForgotten ==
  ~cancelled => Jobs = ckptDone \cup todo \cup InHand \cup AtMain \cup Recorded

\* The channels close in the order of the pipeline, each after its last sender.
ClosingOrder ==
  /\ jobsClosed => todo = {} \/ cancelled
  /\ \A w \in Workers : pc[w] = "exit" => jobsClosed \/ cancelled
  /\ outClosed => \A w \in Workers : pc[w] = "exit"
  /\ finished => outClosed /\ mainRes = NoResult

\* main's counter is what the checkpoint brought plus what main recorded.
Counted == scanned = Cardinality(ckptDone \cup Recorded)

\* What is on its way to main says nothing it does not know.
HonestResults ==
  \A r \in {mainRes} \cup {verdict[w] : w \in Workers} :
    r # NoResult => Contract!Honest(r)

\* A worker holds a slot exactly while it probes, and waits only at the gate.
GateAligned ==
  \A w \in Workers : /\ gpc[w] = "holding" <=> w \in Probing
                     /\ gpc[w] \in {"waiting", "woken"} => pc[w] = "gate"

\* All that an observer of the goroutines between two steps can rely on; the
\* end-to-end invariants below follow from it, and it carries itself from
\* step to step.
PipelineInv ==
  /\ TypeOK /\ OneOwner /\ NothingForgotten /\ ClosingOrder
  /\ Counted /\ HonestResults /\ GateAligned

\* A scan nobody cancelled reports every job that the checkpoint did not
\* already hold: no result is lost in the channels, and the results channel
\* is not closed under a worker that still has one.
Complete == finished /\ ~cancelled => Recorded = Jobs \ ckptDone

\* The progress line never shows more than the total, and shows exactly the
\* total when an undisturbed scan ends, whatever a checkpoint brought in.
ProgressExact ==
  /\ scanned <= Cardinality(Jobs)
  /\ finished /\ ~cancelled => scanned = Cardinality(Jobs)

\* A worker that starts to probe finds fewer probes running than the limit
\* as it is then: after a shrink no socket is opened until enough are closed.
NewProbesRespectLimit ==
  [][\A w \in Workers :
       w \notin Probing /\ w \in Probing' => Cardinality(Probing) < limit]_vars

\* The workers use the gate as it is meant to be used: on every path through
\* probe() one acquire is followed by one release, shrink comes in between.
ImplementsGate == Gate!Spec

\* The pipeline is a ScanContract: goroutines, channels, retries and the gate
\* are invisible in what main() receives.
ImplementsContract == Contract!Spec

\* The scan ends: cancelled or not, main leaves its loop.
Termination == <>finished

\* Ctrl+C and the deadline end the scan.
CancelEndsScan == cancelled ~> finished
=============================================================================
