------------------------------ MODULE MCStartup ------------------------------
(***************************************************************************)
(* Command lines for Startup: every host argument of one or two parts over *)
(* eight addresses and an alias, every port argument of one or two blocks over ports    *)
(* 0 to 4 (0 and 4 being out of range), each with every one-part exclusion *)
(* and without, combinations of settings from the three sources, of -host  *)
(* with -iL, and up to three other options at once, with and without root  *)
(* and with a limit on descriptors below and above the margin, and too     *)
(* large for an int.                                                       *)
(***************************************************************************)
EXTENDS Startup, TLC

UpToTwo(S) == {<<x>> : x \in S} \cup {<<x, y>> : x, y \in S}

MCDefaults ==
  [o \in {"host", "iL", "range", "top", "exclude", "exclude-ports", "threads", "rate", "proto",
          "format", "json", "q", "v", "proxy", "syn", "stream"} |->
     CASE o = "host" -> <<[text |-> Address(5)]>>
       [] o = "range" -> <<[lo |-> 1, hi |-> MaxPort]>>
       [] o \in {"top", "rate"} -> 0
       [] o = "threads" -> 5
       [] o = "proto" -> "tcp" [] o = "format" -> "text" [] o = "proxy" -> "none"
       [] o \in {"json", "q", "v", "syn", "stream"} -> FALSE
       [] OTHER -> <<>>]

MCTopPorts == <<3, 1>>

Nothing == <<>>

\* A prefix is given by its network address.
NetworkParts == TextParts \cup {part \in CIDRParts : Network(part) = part.addr}

HostLines == {("host" :> h) @@ ("exclude" :> x) : h \in UpToTwo(NetworkParts),
                                                  x \in {<<>>} \cup {<<p>> : p \in HostParts}}
PortLines == {("range" :> r) @@ ("exclude-ports" :> x) : r \in UpToTwo(Blocks),
                                                         x \in {<<>>} \cup {<<b>> : b \in Blocks}}

Ranges == {<<[lo |-> 2, hi |-> 2]>>, <<[lo |-> 3, hi |-> 2]>>}
RangeSettings == {Nothing} \cup {"range" :> r : r \in Ranges}
TopSettings == {Nothing} \cup {"top" :> n : n \in {-1, 0, 1, 3}}
Sources == {r @@ t : r \in RangeSettings, t \in TopSettings}
ProfileSettings == {Nothing, "top" :> 1, "range" :> <<[lo |-> 1, hi |-> 2]>>}

\* -host and -iL (perhaps an empty file), each on the command line, in the
\* config file or nowhere.
Someone == {<<[text |-> Address(2)]>>, <<[addr |-> Address(4), ones |-> 1]>>}
HostSettings == {Nothing} \cup {"host" :> h : h \in Someone}
FileSettings == {Nothing} \cup {"iL" :> h : h \in Someone \cup {<<>>}}
Targets == {h @@ f : h \in HostSettings, f \in FileSettings}

\* Other options.
OptionSettings ==
  {"proto" :> p : p \in {"TCP", "udp", "sctp"}} \cup {"format" :> f : f \in {"XML", "pdf"}}
  \cup {"proxy" :> p : p \in {"well-formed", "malformed"}}
  \cup {o :> TRUE : o \in {"json", "q", "v", "syn", "stream"}}
  \cup {"rate" :> n : n \in {-1, 3, 5}} \cup {"threads" :> n : n \in {0, 1, 2}}
OneTarget ==
  ("host" :> <<[text |-> Address(2)]>>) @@ ("range" :> <<[lo |-> 1, hi |-> 1]>>)
OptionLines == {OneTarget @@ x @@ y @@ z : x, y, z \in OptionSettings}

MCInvocations ==
  [cli : HostLines \cup PortLines, profile : {Nothing}, config : {Nothing},
   limit : {NoLimit}, root : {FALSE}]
  \cup [cli : Targets, profile : {Nothing}, config : Targets, limit : {NoLimit}, root : {FALSE}]
  \cup [cli : Sources, profile : ProfileSettings,
        config : Sources \cup {s @@ ("unknown" :> 0) : s \in RangeSettings},
        limit : {NoLimit}, root : {FALSE}]
  \cup [cli : OptionLines, profile : {Nothing}, config : {Nothing},
        limit : {NoLimit}, root : BOOLEAN]
  \cup [cli : {OneTarget}, profile : OptionSettings, config : OptionSettings,
        limit : {1, 3, 4, 6, Word - 1}, root : {TRUE}]
=============================================================================
