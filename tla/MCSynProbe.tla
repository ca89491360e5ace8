------------------------------ MODULE MCSynProbe ------------------------------
(***************************************************************************)
(* Two ports of this machine probed at the same time, each of which may be *)
(* the other's random source port, next to one connection of another       *)
(* program to the first of them, for which the machine was given by name.  *)
(***************************************************************************)
EXTENDS SynProbe

CONSTANT a

MCJobs == {[host |-> a, port |-> 5], [host |-> a, port |-> 6]}

MCNamed == {[host |-> a, port |-> 5]}

MCTraffic == {Segment(a, 5, 5, "RST")}
=============================================================================
