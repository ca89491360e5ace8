---------------------------- MODULE HostDiscovery ----------------------------
(***************************************************************************)
(* discoverHosts (-discover): a feeder, a pool of workers and main, which  *)
(* collects.  A worker dials the discovery ports of a host one after the   *)
(* other until one answers.  Unlike in scan(), a worker that has a verdict *)
(* sends it whether or not the context is cancelled, and only the feeder   *)
(* selects on ctx.Done().  Neither the gate nor the limiter is used.       *)
(***************************************************************************)
EXTENDS Integers, FiniteSets

CONSTANTS
  Hosts,     \* the targets
  Workers,   \* the goroutines: min(-threads, number of targets), at least one
  NPorts,    \* how many ports are tried: eight in the code
  NoHost     \* a worker without a host

DiscoveryAssumption ==
  /\ IsFiniteSet(Hosts) /\ IsFiniteSet(Workers) /\ Workers # {}
  /\ NPorts \in Nat \ {0}
  /\ NoHost \notin Hosts

ASSUME DiscoveryAssumption

VARIABLES
  answers,    \* the host and port pairs that accept a connection
  toAsk,      \* hosts the feeder has not handed out
  inClosed,   \* the feeder has returned and closed `in'
  pc, host, port, alive,   \* each worker: place, host, port, verdict
  outClosed,  \* `out' is closed
  collected,  \* main's list
  cancelled,  \* ctx.Done() is closed
  finished    \* discoverHosts has returned

workers == <<pc, host, port, alive>>
discoveryVars == <<answers, toAsk, inClosed, workers, outClosed, collected, cancelled, finished>>

GoTo(w, place) == pc' = [pc EXCEPT ![w] = place]

DiscoveryInit ==
  /\ answers \in SUBSET (Hosts \X (1 .. NPorts))
  /\ toAsk = Hosts
  /\ inClosed = FALSE
  /\ pc = [w \in Workers |-> "receive"]
  /\ host = [w \in Workers |-> NoHost]
  /\ port = [w \in Workers |-> 1]
  /\ alive = [w \in Workers |-> FALSE]
  /\ outClosed = FALSE
  /\ collected = {}
  /\ cancelled = FALSE
  /\ finished = FALSE

Feed(w) ==
  /\ ~inClosed /\ pc[w] = "receive"
  /\ \E h \in toAsk : toAsk' = toAsk \ {h} /\ host' = [host EXCEPT ![w] = h]
  /\ port' = [port EXCEPT ![w] = 1]
  /\ alive' = [alive EXCEPT ![w] = FALSE]
  /\ GoTo(w, "check")
  /\ UNCHANGED <<answers, inClosed, outClosed, collected, cancelled, finished>>

\* Mutant of CloseIn: `in' is closed when the context is done, not when the
\* hosts are exhausted.
CloseInOnCancel ==
  /\ ~inClosed
  /\ cancelled
  /\ inClosed' = TRUE
  /\ UNCHANGED <<answers, toAsk, workers, outClosed, collected, cancelled, finished>>

CloseIn ==
  /\ ~inClosed
  /\ toAsk = {} \/ cancelled
  /\ inClosed' = TRUE
  /\ UNCHANGED <<answers, toAsk, workers, outClosed, collected, cancelled, finished>>

Leave(w) ==
  /\ pc[w] = "receive" /\ inClosed
  /\ GoTo(w, "exit")
  /\ UNCHANGED <<answers, toAsk, inClosed, host, port, alive, outClosed, collected, cancelled, finished>>

-----------------------------------------------------------------------------
(* hostAlive                                                               *)

\* The top of its loop: a cancelled context makes the host look dead.
CheckContext(w) ==
  /\ pc[w] = "check"
  /\ GoTo(w, IF cancelled THEN "send" ELSE "dial")
  /\ UNCHANGED <<answers, toAsk, inClosed, host, port, alive, outClosed, collected, cancelled, finished>>

DialAnswered(w) ==
  /\ pc[w] = "dial"
  /\ <<host[w], port[w]>> \in answers
  /\ alive' = [alive EXCEPT ![w] = TRUE]
  /\ GoTo(w, "send")
  /\ UNCHANGED <<answers, toAsk, inClosed, host, port, outClosed, collected, cancelled, finished>>

\* Mutant of DialSilent: only the first port is tried.
DialSilentOnce(w) ==
  /\ pc[w] = "dial"
  /\ <<host[w], port[w]>> \notin answers \/ cancelled
  /\ GoTo(w, "send")
  /\ UNCHANGED <<answers, toAsk, inClosed, host, port, alive, outClosed, collected, cancelled, finished>>

\* Refused, timed out, or cut by the cancellation: on to the next port.
DialSilent(w) ==
  /\ pc[w] = "dial"
  /\ <<host[w], port[w]>> \notin answers \/ cancelled
  /\ IF port[w] < NPorts
     THEN port' = [port EXCEPT ![w] = @ + 1] /\ GoTo(w, "check")
     ELSE GoTo(w, "send") /\ UNCHANGED port
  /\ UNCHANGED <<answers, toAsk, inClosed, host, alive, outClosed, collected, cancelled, finished>>

-----------------------------------------------------------------------------
\* The rendezvous with main, which only appends.
Collect(w) ==
  /\ pc[w] = "send" /\ ~finished
  /\ collected' = IF alive[w] THEN collected \cup {host[w]} ELSE collected
  /\ host' = [host EXCEPT ![w] = NoHost]
  /\ GoTo(w, "receive")
  /\ UNCHANGED <<answers, toAsk, inClosed, port, alive, outClosed, cancelled, finished>>

\* Mutant of CloseOut: `out' is closed once `in' is, without wg.Wait().
CloseOutEarly ==
  /\ ~outClosed /\ inClosed
  /\ outClosed' = TRUE
  /\ UNCHANGED <<answers, toAsk, inClosed, workers, collected, cancelled, finished>>

CloseOut ==
  /\ ~outClosed
  /\ \A w \in Workers : pc[w] = "exit"
  /\ outClosed' = TRUE
  /\ UNCHANGED <<answers, toAsk, inClosed, workers, collected, cancelled, finished>>

Finish ==
  /\ outClosed /\ ~finished
  /\ finished' = TRUE
  /\ UNCHANGED <<answers, toAsk, inClosed, workers, outClosed, collected, cancelled>>

Cancel ==
  /\ ~cancelled /\ ~finished
  /\ cancelled' = TRUE
  /\ UNCHANGED <<answers, toAsk, inClosed, workers, outClosed, collected, finished>>

DiscoveryEnded == finished /\ UNCHANGED discoveryVars

ProgramStep ==
  \/ \E w \in Workers : \/ Feed(w) \/ Leave(w) \/ CheckContext(w) \/ DialAnswered(w)
                        \/ DialSilent(w) \/ Collect(w)
  \/ CloseIn \/ CloseOut \/ Finish

DiscoveryNext == ProgramStep \/ Cancel \/ DiscoveryEnded

DiscoverySpec == DiscoveryInit /\ [][DiscoveryNext]_discoveryVars

\* The scheduler runs some runnable goroutine and a dial ends by its timeout.
FairDiscovery == DiscoverySpec /\ WF_discoveryVars(ProgramStep)

-----------------------------------------------------------------------------
Responding == {h \in Hosts : \E p \in 1 .. NPorts : <<h, p>> \in answers}

\* What the scan goes on with: only hosts that answered, and all of them when
\* nobody cancelled.  (When somebody did, a host that was never asked is
\* dropped like a dead one.)
DiscoveryExact ==
  /\ collected \subseteq Responding
  /\ finished /\ ~cancelled => collected = Responding

\* When main goes on, the feeder and the workers are gone: none is left
\* blocked on a channel that nobody serves any more.
NobodyLeftBehind ==
  finished => inClosed /\ \A w \in Workers : pc[w] = "exit"

\* Discovery ends, cancelled or not.
DiscoveryEnds == <>finished
=============================================================================
