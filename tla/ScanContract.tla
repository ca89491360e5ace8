---------------------------- MODULE ScanContract ----------------------------
(***************************************************************************)
(* What one scan promises to main() and to whoever reads the checkpoint,   *)
(* with the goroutines, the channels, the gate and the limiter left out.   *)
(* A job is taken once, then reported once or, after a cancellation only,  *)
(* dropped.  A result carries the reason it says what it says: the network *)
(* answered (or stayed silent for the whole timeout), the scan was         *)
(* cancelled, or the probe never got to the port (no descriptor, no raw    *)
(* socket, no address, no proxy).  The program does not record the reason. *)
(***************************************************************************)
EXTENDS Integers, FiniteSets

CONSTANT Jobs   \* the host and port pairs of this scan

States == {"open", "open|filtered", "closed", "filtered"}
Causes == {"network", "cancel", "local"}
Results == [job : Jobs, state : States, cause : Causes]

VARIABLES
  ckptDone,   \* jobs an earlier run completed: skipped
  todo,       \* jobs not handed to anybody yet
  taken,      \* jobs being probed or on their way to main
  reported,   \* the results main has consumed
  cancelled,  \* Ctrl+C, SIGTERM or the -deadline
  finished    \* main has left its loop over the results

contractVars == <<ckptDone, todo, taken, reported, cancelled, finished>>

Init ==
  /\ ckptDone \in SUBSET Jobs
  /\ todo = Jobs \ ckptDone
  /\ taken = {}
  /\ reported = {}
  /\ cancelled = FALSE
  /\ finished = FALSE

Take(j) ==
  /\ j \in todo
  /\ todo' = todo \ {j}
  /\ taken' = taken \cup {j}
  /\ UNCHANGED <<ckptDone, reported, cancelled, finished>>

\* Nothing is called open that did not answer, and only a cancelled scan
\* reports jobs it gave up.
Honest(r) ==
  /\ r.cause # "network" => r.state \in {"closed", "filtered"}
  /\ r.cause = "cancel" => cancelled

Report(r) ==
  /\ r.job \in taken
  /\ Honest(r)
  /\ taken' = taken \ {r.job}
  /\ reported' = reported \cup {r}
  /\ UNCHANGED <<ckptDone, todo, cancelled, finished>>

Drop(j) ==
  /\ cancelled
  /\ j \in taken
  /\ taken' = taken \ {j}
  /\ UNCHANGED <<ckptDone, todo, reported, cancelled, finished>>

Cancel ==
  /\ ~finished
  /\ cancelled' = TRUE
  /\ UNCHANGED <<ckptDone, todo, taken, reported, finished>>

Finish ==
  /\ taken = {}
  /\ todo = {} \/ cancelled
  /\ finished' = TRUE
  /\ UNCHANGED <<ckptDone, todo, taken, reported, cancelled>>

Next ==
  \/ \E j \in Jobs : Take(j) \/ Drop(j)
  \/ \E r \in Results : Report(r)
  \/ Cancel
  \/ Finish

Spec == Init /\ [][Next]_contractVars
=============================================================================
