---------------------------- MODULE MCReportOutput ----------------------------
(***************************************************************************)
(* Reports of no, one and four lines: three hosts for two workers of       *)
(* resolveRDNS, ports in the wrong order, and one port that is open over   *)
(* TCP and over UDP.                                                       *)
(***************************************************************************)
EXTENDS ReportOutput

LineOf(h, p, proto) == [host |-> h, port |-> p, proto |-> proto]

MCLists ==
  {<<>>, <<LineOf(2, 1, "tcp")>>,
   <<LineOf(3, 1, "tcp"), LineOf(1, 2, "tcp"), LineOf(2, 1, "tcp"), LineOf(1, 1, "tcp")>>,
   <<LineOf(1, 2, "udp"), LineOf(2, 1, "tcp"), LineOf(1, 2, "tcp")>>}
=============================================================================
