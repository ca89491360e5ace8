------------------------------- MODULE Startup -------------------------------
(***************************************************************************)
(* main() from flag.Parse() to the list of jobs: profile and config file   *)
(* are laid under the command line, options that contradict each other are *)
(* refused, -threads is fitted to the descriptors, hosts and ports are     *)
(* expanded, the exclusions are filtered out, and -rate becomes an         *)
(* interval.  applyExclusions filters a slice in place (filtered :=        *)
(* hosts[:0]), so a round of its loop may overwrite the very array the     *)
(* loop reads: each round is a step here.  Options that decide none of     *)
(* this are left out; they go through the same code.  The value of -iL is  *)
(* what its file holds, which may be nothing; -exclude and -exclude-ports  *)
(* that were not given are <<>>.  An option "unknown" stands for a name    *)
(* that does not exist and for a value flag.Set rejects.  -randomize,      *)
(* which permutes the lists afterwards, is left out.                       *)
(***************************************************************************)
EXTENDS TargetSyntax

CONSTANTS
  Invocations,  \* bound: the command lines, profiles and config files tried
  Defaults,     \* the default value of every option
  Second,       \* time.Second, in units of the clock: 10^9
  Margin,       \* descriptors kept for other uses: 64
  Word,         \* how many values an int has: 2^64
  NoLimit       \* Getrlimit fails

\* What the flag package makes of the options of one source, a function from
\* some of the options to values.
Parsed(settings) ==
  /\ \A o \in {"top", "threads", "rate"} \cap DOMAIN settings : settings[o] \in Int
  /\ \A o \in {"json", "q", "v", "syn", "stream"} \cap DOMAIN settings : settings[o] \in BOOLEAN
  /\ \A o \in {"host", "iL", "exclude"} \cap DOMAIN settings : settings[o] \in Seq(HostParts)
  /\ \A o \in {"range", "exclude-ports"} \cap DOMAIN settings : settings[o] \in Seq(Blocks)
  /\ "proxy" \in DOMAIN settings => settings["proxy"] \in {"none", "well-formed", "malformed"}

StartupAssumption ==
  /\ DOMAIN Defaults =
       {"host", "iL", "range", "top", "exclude", "exclude-ports", "threads", "rate", "proto",
        "format", "json", "q", "v", "proxy", "syn", "stream"}
  /\ Parsed(Defaults)
  /\ Defaults["iL"] = <<>> /\ Defaults["exclude"] = <<>>
  /\ ToSet(Defaults["host"]) \subseteq TextParts
  /\ \A i \in Invocations :
       /\ DOMAIN i.cli \subseteq DOMAIN Defaults
       /\ Parsed(i.cli) /\ Parsed(i.profile) /\ Parsed(i.config)
       /\ i.limit \in Nat \cup {NoLimit} /\ i.root \in BOOLEAN
  /\ Second \in Nat \ {0}
  /\ Word \in Nat \ {0} /\ Word % 2 = 0 /\ Margin \in 0 .. Word \div 2

ASSUME StartupAssumption

VARIABLES
  cli, profile, config,  \* what the user wrote, and what -profile stands for
  limit, root,           \* RLIMIT_NOFILE, and whether this is root
  flags,     \* the value of every flag
  stage,     \* how far main() is
  kind,      \* the list being filtered, "hosts" or "ports"
  lists,     \* the two lists
  drop,      \* the set of excluded items
  read, write,  \* the loop's index and the length of `filtered'
  interval      \* between two probes; zero: the limiter is off

inputs == <<cli, profile, config, limit, root>>
vars == <<inputs, flags, stage, kind, lists, drop, read, write, interval>>

ExclusionOf == [hosts |-> "exclude", ports |-> "exclude-ports"]
Expand(k, arg) == IF k = "hosts" THEN expandHosts(arg) ELSE expandPorts(arg)

\* Some source sets the option (flag.Set makes it an explicit flag as well).
Given(o) == o \in DOMAIN cli \cup DOMAIN profile \cup DOMAIN config

\* gatherHosts: beside a file, -host counts only if it was given.
HostSources(f) ==
  IF ~Given("iL") \/ Given("host") THEN f["host"] \o f["iL"] ELSE f["iL"]

\* main() chooses between -top and -range.
Listed(f) ==
  [hosts |-> expandHosts(HostSources(f)),
   ports |-> IF f["top"] > 0 THEN topPortsN(f["top"]) ELSE expandPorts(f["range"])]

-----------------------------------------------------------------------------
\* One source laid over another.
Over(f, g) ==
  [o \in DOMAIN f \cup DOMAIN g |-> IF o \in DOMAIN f THEN f[o] ELSE g[o]]

Init ==
  /\ \E i \in Invocations : /\ cli = i.cli /\ profile = i.profile /\ config = i.config
                             /\ limit = i.limit /\ root = i.root
  /\ flags = Over(cli, Defaults)
  /\ stage = "settings" /\ kind = "hosts"
  /\ lists = [hosts |-> <<>>, ports |-> <<>>]
  /\ drop = {} /\ read = 1 /\ write = 0 /\ interval = 0

Unknown(kv) == DOMAIN kv \ (DOMAIN cli \cup DOMAIN Defaults) # {}

\* applyKV: what the command line sets explicitly is skipped.
ApplyKV(f, kv) == [o \in DOMAIN f |-> IF o \in DOMAIN kv \ DOMAIN cli THEN kv[o] ELSE f[o]]

\* Mutant of Settle: the profile is laid over the config file.
SettleProfileLast(f) == ApplyKV(ApplyKV(f, config), profile)

Settle(f) == ApplyKV(ApplyKV(f, profile), config)

\* applySettings; an error ends the program.
ApplySettings ==
  /\ stage = "settings"
  /\ flags' = Settle(flags)
  /\ stage' = IF Unknown(profile) \/ Unknown(config) THEN "fatal" ELSE "options"
  /\ UNCHANGED <<inputs, kind, lists, drop, read, write, interval>>

\* strings.ToLower, as far as an option needs it.
Lowered(text) == CASE text = "TCP" -> "tcp" [] text = "XML" -> "xml" [] OTHER -> text

\* Mutant of Normalised: -format is not looked at again after -json.
NormalisedFormat(f) ==
  [f EXCEPT !["proto"] = Lowered(@), !["format"] = Lowered(@)]

Normalised(f) ==
  [f EXCEPT !["proto"] = Lowered(@), !["format"] = IF f["json"] THEN "json" ELSE Lowered(@)]

\* What main() refuses.
Contradictory(f) ==
  \/ f["proto"] \notin {"tcp", "udp"}
  \/ f["top"] < 0 \/ f["rate"] < 0
  \/ f["format"] \notin {"text", "json", "csv", "grep", "xml", "html"}
  \/ f["q"] /\ f["v"]
  \/ f["proxy"] # "none" /\ (f["proto"] = "udp" \/ f["proxy"] = "malformed")
  \/ f["syn"] /\ (f["proto"] # "tcp" \/ f["proxy"] # "none" \/ ~root)
  \/ f["stream"] /\ f["format"] # "text"

\* The descriptors left as an int: int(rl.Cur) - margin wraps around, and
\* RLIM_INFINITY, the largest limit, is -1 before the subtraction.
Spare ==
  LET left == (limit - Margin) % Word IN IF left < Word \div 2 THEN left ELSE left - Word

\* Mutant of Fitting: a limit below the margin is not caught.
FittingUnsafe(threads) ==
  IF limit # NoLimit /\ threads > Spare THEN Spare ELSE threads

\* checkFDLimit
Fitting(threads) ==
  LET safe == IF Spare < 1 THEN 1 ELSE Spare
  IN  IF limit # NoLimit /\ threads > safe THEN safe ELSE threads

\* From the options to checkFDLimit.
CheckOptions ==
  /\ stage = "options"
  /\ flags' = [Normalised(flags) EXCEPT !["threads"] = Fitting(@)]
  /\ stage' = IF Contradictory(Normalised(flags)) THEN "fatal" ELSE "targets"
  /\ UNCHANGED <<inputs, kind, lists, drop, read, write, interval>>

ExpandTargets ==
  /\ stage = "targets"
  /\ lists' = Listed(flags)
  /\ stage' = IF lists'.hosts = <<>> \/ lists'.ports = <<>> THEN "fatal" ELSE "exclude"
  /\ UNCHANGED <<inputs, flags, kind, drop, read, write, interval>>

\* Hosts come first, then ports, then the check that something is left.
NextList ==
  /\ kind' = "ports"
  /\ stage' = IF kind = "hosts" THEN "exclude" ELSE "check"

SkipExclusion ==
  /\ stage = "exclude"
  /\ flags[ExclusionOf[kind]] = <<>>
  /\ NextList
  /\ UNCHANGED <<inputs, flags, lists, drop, read, write, interval>>

BeginExclusion ==
  /\ stage = "exclude"
  /\ flags[ExclusionOf[kind]] # <<>>
  /\ LET excluded == Expand(kind, flags[ExclusionOf[kind]])
     IN  stage' = (IF excluded = <<>> THEN "fatal" ELSE "filter") /\ drop' = ToSet(excluded)
  /\ read' = 1 /\ write' = 0
  /\ UNCHANGED <<inputs, flags, kind, lists, interval>>

\* Mutant of FilterRound: the item is counted but not moved.
FilterRoundUnmoved ==
  /\ stage = "filter" /\ read <= Len(lists[kind])
  /\ write' = IF lists[kind][read] \in drop THEN write ELSE write + 1
  /\ read' = read + 1
  /\ UNCHANGED <<inputs, flags, stage, kind, lists, drop, interval>>

FilterRound ==
  /\ stage = "filter" /\ read <= Len(lists[kind])
  /\ IF lists[kind][read] \in drop
     THEN UNCHANGED <<lists, write>>
     ELSE /\ lists' = [lists EXCEPT ![kind][write + 1] = lists[kind][read]]
          /\ write' = write + 1
  /\ read' = read + 1
  /\ UNCHANGED <<inputs, flags, stage, kind, drop, interval>>

EndExclusion ==
  /\ stage = "filter" /\ read > Len(lists[kind])
  /\ lists' = [lists EXCEPT ![kind] = SubSeq(@, 1, write)]
  /\ NextList
  /\ drop' = {} /\ read' = 1 /\ write' = 0
  /\ UNCHANGED <<inputs, flags, interval>>

\* Then main() sets the pace: time.Tick of a duration of zero is nil.
Check ==
  /\ stage = "check"
  /\ stage' = IF lists.hosts = <<>> \/ lists.ports = <<>> THEN "fatal" ELSE "ready"
  /\ interval' = IF flags["rate"] > 0 THEN Second \div flags["rate"] ELSE 0
  /\ UNCHANGED <<inputs, flags, kind, lists, drop, read, write>>

Ended == stage \in {"ready", "fatal"} /\ UNCHANGED vars

Next ==
  \/ ApplySettings \/ CheckOptions \/ ExpandTargets
  \/ SkipExclusion \/ BeginExclusion \/ FilterRound \/ EndExclusion
  \/ Check \/ Ended

Spec == Init /\ [][Next]_vars

-----------------------------------------------------------------------------
(* The same in terms of sets, without lists, digits and loops.             *)

AskedPorts(blocks) ==
  {p \in 1 .. MaxPort : \E b \in ToSet(blocks) : p \in (b.lo .. b.hi) \cup (b.hi .. b.lo)}

\* The part of an argument stands for a text; the text is the network or the
\* broadcast address of the prefix.
Size(part) == Pow2[Bits - part.ones]
Includes(part, text) ==
  \/ part \in TextParts /\ text = part.text
  \/ /\ part \in CIDRParts /\ text \in Addresses
     /\ Number(text) \div Size(part) = Number(part.addr) \div Size(part)
Edge(part, text) ==
  part \in CIDRParts /\ Size(part) > 2 /\ Number(text) % Size(part) \in {0, Size(part) - 1}

AskedHosts(parts) ==
  {text \in Texts : \E part \in ToSet(parts) : Includes(part, text) /\ ~Edge(part, text)}

\* The hosts somebody named; the default host when nobody named any.
NamedHosts ==
  IF Given("host") \/ Given("iL")
  THEN UNION {AskedHosts(flags[o]) : o \in {"host", "iL"} \cap {q \in DOMAIN flags : Given(q)}}
  ELSE AskedHosts(Defaults["host"])

\* -exclude takes out what it includes, except at the edges: it leaves the
\* network and the broadcast address of an excluded prefix in a larger target.
Spared(text) ==
  \A part \in ToSet(flags["exclude"]) : Includes(part, text) => Edge(part, text)

NamedPorts ==
  IF flags["top"] > 0
  THEN {TopPorts[i] : i \in {n \in DOMAIN TopPorts : n <= flags["top"]}}
  ELSE AskedPorts(flags["range"])

Wanted(k) ==
  IF k = "hosts" THEN {text \in NamedHosts : Spared(text)}
  ELSE NamedPorts \ AskedPorts(flags["exclude-ports"])

BadPorts(blocks) == \E b \in ToSet(blocks) : {b.lo, b.hi} \cap (1 .. MaxPort) # {b.lo, b.hi}
BadHosts(parts) ==
  \E part \in ToSet(parts) : part \in CIDRParts /\ Bits - part.ones > MaxHostBits

\* The value the user gave an option, from whichever source.
Settings == Over(cli, Over(config, Over(profile, Defaults)))
Setting(o) == Settings[o]
Format == IF Setting("json") THEN "json" ELSE Lowered(Setting("format"))

\* What the probes, the proxy, the raw sockets and the output can work with.
Workable ==
  /\ Lowered(Setting("proto")) = "tcp" \/ (Setting("proto") = "udp" /\ ~Setting("syn"))
  /\ Setting("proxy") # "none" =>
       Setting("proxy") = "well-formed" /\ Lowered(Setting("proto")) = "tcp"
  /\ Setting("syn") => root /\ Setting("proxy") = "none"
  /\ Format \in {"text", "json", "csv", "grep", "xml", "html"}
  /\ Setting("stream") => Format = "text"
  /\ ~(Setting("q") /\ Setting("v"))
  /\ Setting("top") >= 0 /\ Setting("rate") >= 0

\* Why main() may refuse to scan.
Refusable ==
  \/ (DOMAIN profile \cup DOMAIN config) \ (DOMAIN cli \cup DOMAIN flags) # {}
  \/ ~Workable
  \/ \E o \in {"host", "iL", "exclude"} : Given(o) /\ BadHosts(flags[o])
  \/ flags["top"] = 0 /\ BadPorts(flags["range"])
  \/ BadPorts(flags["exclude-ports"])
  \/ \E k \in {"hosts", "ports"} : Wanted(k) = {}

\* The first n items of a list without the excluded ones.
Kept(s, excluded) ==
  LET upTo[n \in 0 .. Len(s)] ==
        IF n = 0 THEN <<>>
        ELSE IF s[n] \in excluded THEN upTo[n - 1] ELSE Append(upTo[n - 1], s[n])
  IN  upTo

\* Filtering in place: what the loop has yet to read is as it was, and what
\* it wrote is the part already read without the excluded items.
FilterInPlace ==
  stage = "filter" =>
    write < read /\
    LET before == Listed(flags)[kind]
        now == lists[kind]
    IN  /\ SubSeq(now, read, Len(now)) = SubSeq(before, read, Len(before))
        /\ SubSeq(now, 1, write) = Kept(before, drop)[read - 1]

\* The jobs of the scan are exactly what was asked for less what was
\* excluded, and nothing is listed twice, up to two things that the code does
\* and that its comments and README.md do not say of it.  The network and the
\* broadcast address of an excluded prefix are not excluded: 10.0.0.0/23 less
\* 10.0.0.0/24 still has 10.0.0.255 (see Spared).  And hosts are told apart by
\* their spelling: an alias is listed beside the address it stands for, and
\* no exclusion that spells it otherwise takes it out (see Includes).
TargetsExact ==
  stage = "ready" =>
    \A k \in {"hosts", "ports"} : IsInjective(lists[k]) /\ ToSet(lists[k]) = Wanted(k)

\* The program refuses to scan if and only if it has a reason to.
RefusalsExact ==
  /\ stage = "fatal" => Refusable
  /\ stage = "ready" => ~Refusable

\* "linea de comandos > -config > -profile > valores por defecto", each
\* option by itself, before the options are looked at and, but for -threads,
\* when the scan starts.  Not the options together: -top hides -range, so a top
\* of the config file or of a profile hides a -range of the command line; and
\* -json hides -format (see Format), so json=true of a config file overrides
\* a -format of the command line.
Precedence ==
  /\ stage = "options" => flags = Settings
  /\ stage = "ready" =>
       /\ \A o \in DOMAIN cli : o \notin {"threads", "proto", "format"} => flags[o] = cli[o]
       /\ flags["proto"] = Lowered(Setting("proto")) /\ flags["format"] = Format

\* What the scan starts with leaves it room to work: a -threads that was
\* positive still is, is no more than asked for and than the descriptors allow,
\* and is lowered only as far as they demand, unless the limit does not fit an
\* int (without a limit, RLIM_INFINITY, one thread is left); and a -rate is
\* kept, except one so high that its interval is zero, which takes the limit
\* off.  (A -threads that is zero or negative passes.)
LimitsUsable ==
  stage = "ready" =>
    /\ Setting("threads") >= 1 =>
         /\ flags["threads"] \in 1 .. Setting("threads")
         /\ limit = NoLimit => flags["threads"] = Setting("threads")
         /\ limit # NoLimit /\ flags["threads"] > 1 => flags["threads"] + Margin <= limit
         /\ flags["threads"] < Setting("threads") /\ limit < Word \div 2 =>
              flags["threads"] = 1 \/ flags["threads"] + Margin = limit
    /\ Setting("threads") < 1 => flags["threads"] = Setting("threads")
    /\ interval = 0 <=> Setting("rate") \notin 1 .. Second
    /\ interval > 0 => interval * Setting("rate") <= Second
=============================================================================
