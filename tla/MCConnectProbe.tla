---------------------------- MODULE MCConnectProbe ----------------------------
(***************************************************************************)
(* A probe with and without a proxy, with every combination of what is     *)
(* done with the connection; with no, one and (by mistake) minus one       *)
(* retry; and with a -timeout of zero and, by mistake, less.               *)
(***************************************************************************)
EXTENDS ConnectProbe

CONSTANT job

Plain == [via |-> "direct", timeout |-> 3, retries |-> 0, overlong |-> FALSE,
          read |-> FALSE, http |-> FALSE, tls |-> FALSE]

MCSettings ==
  {[Plain EXCEPT !.via = v, !.read = r, !.http = h, !.tls = t] :
     v \in {"direct", "proxy"}, r, h, t \in BOOLEAN}
  \cup {[Plain EXCEPT !.via = v, !.retries = n, !.read = TRUE] :
          v \in {"direct", "proxy", "udp"}, n \in {-1, 0, 1}}
  \cup {[Plain EXCEPT !.via = v, !.timeout = ticks, !.read = r, !.tls = ~r] :
          v \in {"direct", "proxy", "udp"}, ticks \in {-1, 0}, r \in BOOLEAN}
  \cup {[Plain EXCEPT !.via = "proxy", !.overlong = TRUE]}
=============================================================================
