----------------------------- MODULE ReverseDNS -----------------------------
(***************************************************************************)
(* resolveRDNS (-rdns): the feeder goroutine ranges over the map `uniq'    *)
(* while main stores the names that come back into the same map, with no   *)
(* lock.  The Go runtime notices the overlap when an iteration step meets  *)
(* a store in progress, and then ends the process (fatal error: concurrent *)
(* map iteration and map write); it may also miss it, and since every key  *)
(* exists already the iteration goes on.  Both outcomes are here.          *)
(***************************************************************************)
EXTENDS Integers, FiniteSets

CONSTANTS
  Hosts,     \* the hosts results may be about
  Named,     \* those the resolver has a name for
  Workers,   \* the goroutines: at most 20, and no more than there are hosts
  NoHost,    \* no host
  NoName     \* the empty name

\* Assumed where the constants get their values: in ReportOutput.
RDNSAssumption ==
  /\ IsFiniteSet(Hosts) /\ IsFiniteSet(Workers) /\ Workers # {}
  /\ Named \subseteq Hosts
  /\ NoHost \notin Hosts /\ NoName \notin Hosts

VARIABLES
  uniq,       \* the map from the hosts of the results; the name of h is h itself
  yielded,    \* keys the feeder's range has produced
  offered,    \* the key it is sending, or NoHost
  inClosed,
  pc, host, name,   \* each worker
  outClosed,
  mpc,        \* main: "receive", "store" or "done"
  kv,         \* the pair main is storing: <<host, name>>
  rdns,       \* the field of the results, per host
  cancelled,
  fatal       \* the runtime ended the process

feeder == <<yielded, offered, inClosed>>
workers == <<pc, host, name>>
main == <<uniq, mpc, kv, rdns>>
vars == <<feeder, workers, main, outClosed, cancelled, fatal>>

MinOf(a, b) == IF a < b THEN a ELSE b
NoPair == <<NoHost, NoName>>

Keys == DOMAIN uniq

\* With no results there is nothing to do; with fewer hosts than workers the
\* others are not started.
Init ==
  /\ \E keys \in SUBSET Hosts : uniq = [h \in keys |-> NoName]
  /\ yielded = {} /\ offered = NoHost /\ inClosed = FALSE
  /\ \E started \in SUBSET Workers :
       /\ Cardinality(started) = MinOf(Cardinality(Workers), Cardinality(Keys))
       /\ pc = [w \in Workers |-> IF w \in started THEN "receive" ELSE "exit"]
  /\ host = [w \in Workers |-> NoHost]
  /\ name = [w \in Workers |-> NoName]
  /\ outClosed = FALSE
  /\ mpc = (IF Keys = {} THEN "done" ELSE "receive") /\ kv = NoPair
  /\ rdns = [h \in Hosts |-> NoName]
  /\ cancelled \in BOOLEAN
  /\ fatal = FALSE

-----------------------------------------------------------------------------
\* One step of the range over uniq.
Iterate ==
  /\ offered = NoHost
  /\ \E h \in Keys \ yielded : offered' = h /\ yielded' = yielded \cup {h}
  /\ UNCHANGED <<inClosed, workers, main, outClosed, cancelled, fatal>>

\* The same step while main is inside the assignment to uniq.
Collide ==
  /\ offered = NoHost /\ ~inClosed
  /\ mpc = "store"
  /\ fatal' = TRUE
  /\ UNCHANGED <<feeder, workers, main, outClosed, cancelled>>

HandOff(w) ==
  /\ offered # NoHost /\ pc[w] = "receive"
  /\ host' = [host EXCEPT ![w] = offered]
  /\ offered' = NoHost
  /\ pc' = [pc EXCEPT ![w] = "lookup"]
  /\ UNCHANGED <<yielded, inClosed, name, main, outClosed, cancelled, fatal>>

\* Mutant of CloseIn: close(in) is forgotten (only an empty map closes it).
CloseInForgotten ==
  /\ ~inClosed /\ Keys = {}
  /\ inClosed' = TRUE
  /\ UNCHANGED <<yielded, offered, workers, main, outClosed, cancelled, fatal>>

CloseIn ==
  /\ ~inClosed /\ offered = NoHost /\ yielded = Keys
  /\ inClosed' = TRUE
  /\ UNCHANGED <<yielded, offered, workers, main, outClosed, cancelled, fatal>>

-----------------------------------------------------------------------------
\* LookupAddr fails for a host without a name, and once the context is done.
Lookup(w) ==
  /\ pc[w] = "lookup"
  /\ name' = [name EXCEPT ![w] =
                IF host[w] \in Named /\ ~cancelled THEN host[w] ELSE NoName]
  /\ pc' = [pc EXCEPT ![w] = "send"]
  /\ UNCHANGED <<feeder, host, main, outClosed, cancelled, fatal>>

Leave(w) ==
  /\ pc[w] = "receive" /\ inClosed
  /\ pc' = [pc EXCEPT ![w] = "exit"]
  /\ UNCHANGED <<feeder, host, name, main, outClosed, cancelled, fatal>>

\* Mutant of CloseOut: `out' is closed as soon as every host was handed out.
CloseOutEarly ==
  /\ ~outClosed /\ inClosed
  /\ outClosed' = TRUE
  /\ UNCHANGED <<feeder, workers, main, cancelled, fatal>>

CloseOut ==
  /\ ~outClosed /\ \A w \in Workers : pc[w] = "exit"
  /\ outClosed' = TRUE
  /\ UNCHANGED <<feeder, workers, main, cancelled, fatal>>

-----------------------------------------------------------------------------
\* main receives a pair and enters the assignment uniq[r.host] = r.name.
BeginStore(w) ==
  /\ pc[w] = "send" /\ mpc = "receive" /\ ~outClosed
  /\ kv' = <<host[w], name[w]>>
  /\ mpc' = "store"
  /\ pc' = [pc EXCEPT ![w] = "receive"]
  /\ UNCHANGED <<feeder, host, name, uniq, rdns, outClosed, cancelled, fatal>>

EndStore ==
  /\ mpc = "store"
  /\ uniq' = [uniq EXCEPT ![kv[1]] = kv[2]]
  /\ kv' = NoPair
  /\ mpc' = "receive"
  /\ UNCHANGED <<feeder, workers, rdns, outClosed, cancelled, fatal>>

Fill ==
  /\ mpc = "receive" /\ outClosed
  /\ rdns' = [h \in Hosts |-> IF h \in Keys THEN uniq[h] ELSE NoName]
  /\ mpc' = "done"
  /\ UNCHANGED <<feeder, workers, uniq, kv, outClosed, cancelled, fatal>>

\* The deadline or Ctrl+C while names are being looked up.
Cancel ==
  /\ ~cancelled /\ mpc # "done"
  /\ cancelled' = TRUE
  /\ UNCHANGED <<feeder, workers, main, outClosed, fatal>>

Stopped == fatal \/ mpc = "done"
Ended == Stopped /\ UNCHANGED vars

ProgramStep ==
  /\ ~Stopped
  /\ \/ Iterate \/ Collide \/ CloseIn \/ CloseOut \/ EndStore \/ Fill
     \/ \E w \in Workers : HandOff(w) \/ Lookup(w) \/ Leave(w) \/ BeginStore(w)

Next == ProgramStep \/ (~fatal /\ Cancel) \/ Ended

Spec == Init /\ [][Next]_vars

\* Some runnable goroutine runs; the resolver answers or gives up.
FairSpec == Spec /\ WF_vars(ProgramStep)

-----------------------------------------------------------------------------
\* A result carries the name of its own host, and when nobody cancelled every
\* host that has a name got it: main does not fill in the fields before the
\* last worker has been heard.  On the way nobody sends on a closed channel.
NamesExact ==
  /\ offered # NoHost => ~inClosed
  /\ \A w \in Workers : pc[w] \in {"lookup", "send"} => ~outClosed
  /\ \A h \in Hosts : rdns[h] \in {NoName, h}
  /\ mpc = "done" /\ ~cancelled => \A h \in Named \cap Keys : rdns[h] = h

\* The scan's results are written in the end.
ResultsSurvive == <>(mpc = "done")
=============================================================================
