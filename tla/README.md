# fastTCPScan in TLA+

fastTCPScan is a concurrent port scanner in Go. This directory specifies how it works, from the
command line to the report: TLA+ modules translated from the source, TLC configurations that check
them on small instances, and proofs, checked by TLAPS, that hold for any number of workers, jobs, runs,
retries and bytes, and for every command line.
Line numbers below are those of `fastTCPScan.go` unless another file is named.

## 1. The system

| part | state it keeps | operations | talks to |
| --- | --- | --- | --- |
| settings (`config.go`, 1013-1086) | the flags | `applySettings`, `applyKV`, the checks of options | everything after it |
| descriptor limit (`sys_unix.go`) | `-threads` | `checkFDLimit`, `isTooManyFiles` | gate, workers |
| targets (241-373, 462-507, 561-598) | the lists of hosts and ports | `expandHosts`, `expandCIDR`, `expandPorts`, `topPortsN`, `applyExclusions` | discovery, `generateJobs` |
| host discovery (376-450) | `in` and `out` channels, list of live hosts | `discoverHosts`, `hostAlive` | main, the context |
| scan pipeline (600-755, 1208-1275) | two unbuffered channels, the workers' locals, main's counters and list | `generateJobs`, `scan`, `probe`, main's loop | gate, limiter, context, checkpoint |
| adaptive gate (148-196) | `limit`, `inflight`, the waiters of `cond` | `acquire`, `release`, `shrink` | workers |
| rate limiter (645-651, 1148-1151) | a channel of capacity one filled by `time.Tick` | receive | workers |
| cancellation (1168-1186) | the context | Ctrl+C, SIGTERM, `-deadline` | every goroutine that selects on it |
| connect and UDP probe (676-830, `version.go`) | attempts, one or two connections, their deadlines | `probe`, `dialContext`, `grabBanner`, `detectVersion`, `grabTLS` | the network, the proxy |
| SOCKS5 (`proxy.go`) | a connection in its handshake | `dial`, `handshake`, `authUserPass` | `probe`, the proxy |
| SYN probe (`syn_linux.go`) | a raw socket, a source port, two deadlines | `synProbe`, `buildSYN`, `tcpChecksum` | the network, every packet that comes in |
| checkpoint (`resume.go`) | a file that outlives the process, `ckptDone` | `loadCheckpoint`, `recordCheckpoint` | `generateJobs`, main |
| report and diff (`diff.go`, 1253-1292) | `found`, `prevScan` | main's loop, `closedSince` | the next `-diff` |
| reverse DNS (509-559) | the map `uniq` | `resolveRDNS` | main |
| report output (`output.go`, 903-945, 1155-1166, 1294-1328) | the `-o` file | sorting, `groupByHost`, `writeResults` | main |
| hints, UDP payloads, progress line, completion | none beyond a call | text in, text out | `probe`, main |

What is hard here: some thousand goroutines that meet on two unbuffered channels, a hand-made
semaphore with a condition variable whose capacity drops while it is in use, a cancellation that
races every send and every receive, raw sockets that all see the same packets, a proxy that may stop
in the middle of a reply, and a file that says which work is done and is written while the work is
being abandoned. What must hold: each job is probed and reported once; nothing is lost unless the
scan is cancelled; the limit on open sockets is respected and every descriptor comes back; the scan
ends, and no probe holds a worker for longer than its timeouts say; and a report or a checkpoint says
no more than the scan found out. `PROJECT.json` lists the hazards line by line.

## 2. The modules

```
SlotPool <--refines-- AdaptiveGate <--uses, refines-- ScanPipeline --refines--> ScanContract
                                                                                     ^
       SynProbe --refines------------------------------------------------------------+
       Socks5 <-- ConnectProbe --refines---------------------------------------------+
       ResumableScan --several runs of-----------------------------------------------+
       ScanReport --one run of-------------------------------------------------------+

TargetSyntax <-- Startup        HostDiscovery        ReverseDNS <--part of-- ReportOutput
```

* **SlotPool**: what the gate promises. Occupants enter while fewer than `cap` are inside; the
  capacity only goes down, never under a floor, and only while somebody is inside.
* **AdaptiveGate**: `adaptiveGate`. A mutex section is one step; `cond.Wait` splits `acquire` into
  parking (`Park`), being signalled (part of `Release`) and testing again (`Recheck`). `Signal`
  wakes any one waiter; a newcomer may come first.
* **ScanContract**: one scan as main and the reader of a checkpoint see it. A job is taken, then
  reported, or dropped after a cancellation. A result carries a *cause* (the network, the
  cancellation, a local failure), which the program does not record: it is there to say when a
  result is not knowledge.
* **ScanPipeline**: `generateJobs`, `scan`, `probe`, main's loop, the limiter's channel and the
  cancellation. Each worker has a place (`pc`), the job, the number of attempts and the verdict it
  carries. A send and its receive on an unbuffered channel are one step. The gate is an instance of
  AdaptiveGate over three of the variables. The mode (TCP, UDP, SYN), whether `-rate` is set and
  what the checkpoint holds are chosen initially. Inside a probe there is only what the rest can
  see: an attempt, a dial, a read, a verdict. The next two modules open it up.
* **ConnectProbe** with **Socks5**: one call of `probe` over TCP or UDP. The dial goes to the port or
  to a proxy; `handshake` is one step per read, over a byte stream in which the proxy's replies and
  the service's first words follow each other; then the reads of a banner, and the second
  connection of `-tls`. The other end is free to answer, to stop inside a reply, to close or to say
  nothing. `left` counts down the deadline that is set on the connection, `fds` the descriptors held.
  Nothing checks `-timeout`: with zero a dial has the operating system's own limit (`SystemTime`,
  external) and what runs under a deadline has no time at all, and below zero no dial begins.
  **Socks5** has the bytes of the replies and how many of them the client takes for what.
* **SynProbe**: some calls of `synProbe` at once. Each raw socket has an `inbox` that gets a copy of
  every packet; each probe chooses its source port without asking anybody. A host given by a name is
  looked up first, and `net.LookupIP` (`syn_linux.go:105`) heeds neither `-timeout` nor the context:
  `Resolver`, external, is when the resolver itself gives up. `age` and `waited` are the clocks of the
  loop's deadline and of the blocking call, and `late` that of the cancellation. The checksum is computed with words below
  `WordBase` (2^16 in the code), and the receiver's test (`Verifies`) is stated without carries.
* **ResumableScan**: several runs over one checkpoint file, each a ScanContract with a protocol of
  its own. `recordCheckpoint` writes the text and the newline separately, so the file is a list of
  valid lines and a `tail`: what follows the last newline, either nothing, one whole record, or
  debris. A crash may come at any step, and any write may fail without notice.
* **ScanReport**: main's loop body with `-all`, `-stream`, `-resume` and `-diff`, then `closedSince`,
  over a ScanContract. A report is a bag of lines, so that a line written twice shows.
* **ReverseDNS**: `resolveRDNS`. The assignment to the shared map takes two steps, so that an
  iteration step of the feeder can fall inside it; the runtime then ends the process or misses it.
* **ReportOutput**: main from `os.Create` to the summary, with ReverseDNS as a part of it. What is
  written is a function from places to elements, each a name and some lines with their places in the
  list: one element per line in text, json, csv and grep, one per host in xml and html. A failed write
  restricts it: to the elements before some point where the error is returned (`Cut`), to any of them
  where it is not. After the summary the deferred `f.Close` (`Close`) may fail and take written
  elements with it, unnoticed.
* **HostDiscovery**: `discoverHosts` and `hostAlive`. Unlike in the pipeline, its workers do not
  select on the context when they send. Its specification is `DiscoverySpec`, and so on, so that one
  module can speak of it and of Startup.
* **TargetSyntax** and **Startup**: the parsing of targets as operators, and main from the flags to
  the list of jobs: the three sources of settings, the options that exclude each other,
  `checkFDLimit` with its conversion to an int, the interval of `-rate`. A part of a host argument is a
  prefix or a text without a slash, which `expandHosts` keeps as it was written: the text of an
  address as Go prints it is that address, any other, a host name or a different spelling, is one of
  the `Aliases`. `applyExclusions` filters a slice in place, so each round
  of its loop is a step. The file of `-iL` may be empty. The loops of the parsing are recursive
  functions (`Leading`, `Mentions`, `Kept`), which the provers can reason about.
* **MCStartup**, **MCConnectProbe**, **MCSynProbe**, **MCReportOutput**: the command lines, the
  settings of a probe, the packets and the lists that TLC tries.
* **AdaptiveGate_proofs**, **ScanPipeline_proofs**, **SynProbe_proofs**, **ConnectProbe_proofs**,
  **ResumableScan_proofs**, **ScanReport_proofs**, **ReportOutput_proofs**: the theorems about the
  module each is named after. **BeforeScan_proofs**: those about Startup and HostDiscovery, two
  machines without a common variable.

A definition named "Mutant of X" is X with a plausible mistake. It is used in no specification; with
it in place of X the property it is listed with in `PROJECT.json` is violated.

## 3. The runs

| run | instance | what it shows |
| --- | --- | --- |
| `gate` | 7 goroutines, limit 7 -> 5 -> 4, floor 4 | `SlotAccounting`, `NoLostWakeup` (free slots are promised to woken goroutines while anybody is parked), `NoIdleSlot` (a free slot is taken in the end), refinement of SlotPool |
| `pipeline` | 2 workers, 2 jobs, any checkpoint, 1 retry, floor 1 | `OneOwner`, `Complete`, `ProgressExact`, the inductive invariant `PipelineInv`, `NewProbesRespectLimit`, `Termination`, use of the gate, refinement of ScanContract |
| `connect` | 1 job, 45 invocations: direct, proxy or UDP, -1 to 1 retries, a `-timeout` of 3, 0 and -1, with and without banner, HTTP and `-tls` | `StreamAligned` (what is taken for the banner is the service's words from the first on), `DescriptorsBalanced`, `WaitsBounded` (of the whole probe, and after a cancellation), refinement of ScanContract |
| `syn` | 2 probes of this very machine, one given by a name, 2 source ports that are also the probed ports, 1 foreign packet, words below 8 | `VerdictExact`, `WaitsBounded`, `SynsWellFormed`, refinement of ScanContract |
| `resume` | 3 jobs, 2 listening over TCP and 1 answering over UDP, 3 runs | `OneRecordPerJob`, `CountsExact`, `LossBounded`, `MissedOnlyIfMisjudged` |
| `report` | 2 jobs, 1 port only in the previous report | `OneLinePerPort`, `ReportExact`, `BaselineExact` (a report with closed lines can be the next `-diff`) |
| `output` | lists of 0 to 4 lines over 3 hosts, 2 lookup workers, one format of each kind, failing writes and closes | `OutputExact` (the file is the report, in order, a host in one piece), `LossAnnounced`, `NamesExact`, `OutputEnds` |
| `discovery` | 3 hosts, 2 workers, 2 ports | `DiscoveryExact`, `NobodyLeftBehind`, `DiscoveryEnds` |
| `startup` | 8 addresses and an alias, 3 ports, one or two parts per argument, up to 3 other options | `TargetsExact`, `FilterInPlace`, `RefusalsExact`, `Precedence`, `LimitsUsable` |

Three more runs state what the documentation says and find the code doing something else:

| run | statement | what happens |
| --- | --- | --- |
| `pipeline_zero` | `CancelEndsScan` ("clean Ctrl+C cancellation") | `-threads 0`: one worker, a gate of capacity 0, and `acquire` does not look at the context |
| `resume_cancel` | `NothingMissed` ("continue where it stopped") | a probe given up by the cancellation is recorded as closed and skipped for good |
| `rdns_race` | `ResultsSurvive` | the map is stored into while it is iterated over; the process may end before the report |

Other things a user may not expect are written into the properties, as what the code does:

* `ReportExact`: a cancelled `-diff` scan marks ports as closed that it never reached (README.md:209
  promises new and closed ports; `closedSince` takes absence for closed).
* `Precedence`: each option of the command line wins by itself, but a `top` of the config file or of
  `-profile fast` hides an explicit `-range` (1109-1112), and a `json=true` of the config file overrides
  an explicit `-format` (1033).
* `TargetsExact`: README.md:211 and the comment at 462 say that `-exclude` removes the hosts or the CIDR it
  names. The code expands it like a target, without network and broadcast address, so that
  `10.0.0.0/23` less `10.0.0.0/24` still has 10.0.0.255 (`Spared`). Hosts are compared as text (291,
  311-313, 475): two spellings of one address are two targets, and an exclusion takes out its own
  spelling only (`Includes`).
* `MissedOnlyIfMisjudged`: a UDP scan over the checkpoint of a TCP scan skips its jobs, because
  `jobKey` has no protocol; a name that did not resolve is recorded like a port that refused.
* `WaitsBounded`: a SYN probe may last nearly twice `-timeout` from its SYN on, and before that the lookup
  of a host name takes as long as the resolver pleases, after Ctrl+C too; with `-timeout 0` a dial lasts
  as long as the operating system tries; a probe through a proxy twice
  `-timeout` for each attempt; after Ctrl+C a worker may stay in a handshake and its reads, or in the
  TLS handshake or the UDP exchange, for another `-timeout`.
* `VerdictExact`: a SYN probe may take the reset of somebody else's connection for its answer if it
  happened to choose that connection's port as its source.
* `LossAnnounced`: text and grep lose lines on a full disk and still report them as saved, and so does
  every format when the error comes with the closing of the file (1163).
* `DescriptorsBalanced`: negative `-retries` end in a call on a connection that was never made, and
  with `-tls` a worker holds two descriptors.
* `LimitsUsable`: a `-rate` above 10^9 takes the limit off; `-threads` below 1 passes all checks; without
  a limit on descriptors `int(rl.Cur)` is -1 (RLIM_INFINITY) and one thread is left (`sys_unix.go:19`).

**Bounds.** `gate`: seven goroutines are the fewest for which the limit shrinks twice, the second
time stopped by the floor, with parked goroutines on both sides. `pipeline`: two workers and two
jobs give every race there is between two workers, main, the feeder and the cancellation; with a
limit of two, one shrink leaves more probes inside than the limit, and one retry gives a first and
a last attempt. More workers or jobs repeat these situations, and the safety properties are proved
for all numbers. `connect`: a timeout of three ticks and reads of one, and four until the system gives
a dial up, so that a deadline can pass
between two reads of one handshake and two reads are not as long as the timeout; two bytes of
service, so that there is a rest to be read; names
of no and of three bytes. `syn`: with two ports that are also the two source ports each probe can
collide with the other; a timeout of two ticks lets a foreign packet come in the middle of it, and three
for the resolver make a lookup the longer wait; one packet per inbox gives dropped packets; sums of words below eight need their second carry. `resume`:
three runs make a crash, a run that appends to the damaged line, and a run that reads the result;
three jobs are needed for `LossBounded` to be able to fail (two records lost without a failed write
is the most that is allowed). `discovery` and `output`: more hosts than workers, so that a worker
comes back for more, and several ports, so that the loop of `hostAlive` goes round and a host's lines
must be put in order; one port is open over TCP and over UDP, which the sorting cannot tell apart.
`startup`: three one-bit digits, so that carries ripple and a prefix of four addresses has a network
and a broadcast address, and an alias is beside the addresses in every place; ports 0 and 4 are out of
range; four units to the second and a margin of two descriptors leave room above and below, and an int
has sixteen values, so that one limit does not fit. Symmetry is not used.

**Fairness.** The pipeline, discovery and the output assume weak fairness of one action, "some
goroutine takes a step" (`ProgramStep`), which is all that the Go scheduler is needed for: every
step of a scan uses up a job, an attempt or a place in a loop. It holds because a blocked system call
ends: dials and reads have timeouts, a dial under `-timeout 0` the operating system's, a lookup the
resolver's (`WaitsBounded` says when, with time in ticks that advance only while the program waits). Where `-rate` is set the ticker ticks (`WF(Tick)`).
Nobody is obliged to press Ctrl+C. The gate by itself assumes more: each woken goroutine runs and
each probe ends, since goroutines that come and go could otherwise starve the others for ever. The
random choice of a `select` is not assumed to be fair.

Deadlock is checked in every run but `pipeline_zero`, where the program does stop for good; the
end of a run is an explicit stuttering step (`Ended`), except in the gate, which never ends.

## 4. What is proved

For every value of the constants that the assumptions allow (`GateAssumption`, `PipelineAssumption`,
`StartupAssumption` with `SyntaxAssumption`, `DiscoveryAssumption`, `SynAssumption`,
`ConnectAssumption` with `SocksAssumption`, `ResumeAssumption`, `ReportAssumption`, `OutputAssumption`
with `NamesAssumption`, which TLC evaluates on every run): every finite set of workers, jobs or hosts,
every `-threads` (also zero and negative), `-retries` (negative ones in ConnectProbe, where their panic
is; the pipeline assumes a natural number), floor, number of ports, `-timeout` of any sign, limit of
the resolver and of the system's own dial, number of runs, length of a name or a banner, every packet of other programs, every list of lines, every command
line, profile and config file with lists of any length, and addresses of any number of digits of any
width. What `StartupAssumption` asks of the settings is what `flag.Set` lets through (`Parsed`) and
which defaults the flags have: no `-iL`, no `-exclude`, no prefix for `-host`; and of an int that it has
an even number of values and room for the margin.

* `AdaptiveGate_proofs`: `GateTypeCorrect`, `GateCountsSlots`, `GateLosesNoWakeup` and
  `GateImplementsSlotPool`. The inductive invariant is the conjunction of `TypeOK`,
  `SlotAccounting` and `NoLostWakeup`. Types need the counter to be exact (a decrement must not
  leave the naturals), and the step that matters is `Release`: the slot it frees is promised to the
  goroutine it wakes, so the sum of occupied and promised slots does not drop below the limit. The
  cardinality of `Holding` changes by one at each entry and exit (two lemmas on finite sets).
* `ScanPipeline_proofs`: `PipelineTypeCorrect`, `PipelineOneOwner`, `PipelineInvariant`,
  `PipelineComplete`, `PipelineProgressExact`, `PipelineImplementsGate`,
  `PipelineRespectsLimit`, `PipelineImplementsContract`. `Complete` and
  `ProgressExact` are not inductive. `PipelineInv` carries what they need: where each
  job is (`OneOwner`, `NothingForgotten`), that the channels close after their last sender
  (`ClosingOrder`), what main has counted (`Counted`), what results say (`HonestResults`) and which
  worker holds a slot (`GateAligned`). It is preserved by each of the actions, one lemma per
  conjunct or group of conjuncts. `NewProbesRespectLimit` follows from `GateAligned` and the gate's
  own invariant, carried over from the gate's proof through `PipelineImplementsGate`.
* `BeforeScan_proofs`, on discovery: `DiscoveryIsExact`, `DiscoveryLeavesNobody`. At the end of a
  discovery nothing tells whether a host was passed over, so the invariant (`DiscoveryInvariant`)
  follows each host that answers: as long as nobody cancelled it has not been handed out, has been
  collected, or is with a worker that knows of its answer or has yet to try a port that answers
  (`NobodyForgotten`, `InHand`). `ClosingOrder` says that at the end no worker has one any more.
* `BeforeScan_proofs`, on the way to the jobs: `TargetsAreExact`, `FilterIsInPlace`,
  `RefusalsAreExact`, `PrecedenceIsKept`, `LimitsAreUsable`, from `StartupIsInductive`. The invariant
  says stage by stage which flags are settled (`Settling`), which lists are as expanded, half filtered or
  filtered (`ListsSound`, `Filtering`) and what interval `-rate` has become (`Pacing`). Under it lie
  three groups of lemmas:
  * Recursion. A set of numbers that holds each number all of whose predecessors it holds, holds all
    (`UpTo`, by a least element, as in SynProbe_proofs), hence a function given by its next step exists
    (`Recursion`), and what `FirstMentions`, `Kept` and the flattened lists contain, in which order and
    how often, follows from their equations (`FirstMentionsItems`, `KeptItems`, `FlattenItems`).
  * Addresses. The digits of an address and its number determine each other (`AddressOfNumber`,
    `NumberOfAddress`); `inc`, whose carry ripples from digit to digit, adds one (`IncAddsOne`); so the
    loop of `expandCIDR` runs through the numbers of the prefix and leaves it after the last
    (`RunStep`, `RunEnd`, `FromIsRun`). The check of `maxCIDRHosts` is what lets it leave: a prefix that
    is all the addresses there are has no number after its last. `HostsExpanded` and `PortsExpanded`
    state what the two functions return. A part without a slash adds its own text (`PartExpanded`), and
    what `-exclude` lists is what it includes but for the edges of a prefix (`WantedFact`).
  * The int of `checkFDLimit`. What is left of the limit changes by a multiple of `Word`, so what stays
    positive has not grown, and a limit that fits is left as it is (`SpareFact`).
  * Filtering in place. What a round has kept is never longer than what it has read
    (`HalfFiltered`), so a round writes nothing that is still to be read (`FilterStep`), and the list
    left at the end is the one a filter into a fresh slice would give (`FilterEnd`).
* `SynProbe_proofs`: `SynVerdictExact`, `SynWaitsBounded`, `SynImplementsContract`, from
  `SynInvariant`. A verdict is worth what the packet it rests on is worth, so the invariant is about
  packets: each one on the wire and in each raw socket is `Truthful` of every port it may be taken
  to come from. That is kept because a source port, once chosen, stays (`PortsStay`), and because a
  SYN-ACK on the wire is the answer to a probe, so that the reset of it names that probe's two
  ports, which is the second disjunct of `Mistakable`. The bound on a wait is the relation of the
  clocks: `Recvfrom` is called before the deadline and lasts at most `-timeout`; after a cancellation
  nobody calls it, so a probe that was looking up its host's name when the cancellation came does not
  wait for an answer as well.

  `SynsVerify`: every SYN carries a checksum the receiver accepts. `fold` is recursive. That a function
  satisfies its equation is shown with the remainder modulo `WordBase - 1` as the witness; that every
  such function ends in a word with the remainder of the sum is an induction, done without the
  library's induction theorems (whose operator parameter the provers cannot instantiate): the sums it
  is wrong for would have a least one (`LeastNat`, from the theorem `WFMin` on well-founded sets), and
  a round of the folding makes the sum smaller (`Round`).
* `ConnectProbe_proofs`: `Descriptors`, `Aligned`, `Waits`, `ConnectImplementsContract`, from
  `Invariant`. `Placed` says which place goes with which connection. Time is a budget for every place
  (`OnTime`): what the attempts so far may have taken, and the deadline set on the connection; `LetGo`
  is the same from the cancellation on, where no dial begins any more. `StreamAligned` needs `InStep`:
  at each place of the handshake the unread bytes are the rest of a reply whose length the client will
  compute in the same way as the proxy, or the beginning of one that will never be complete, and the
  service's words come only after it.
* `ResumableScan_proofs`: `ResumeOneRecordPerJob`, `ResumeCountsExact`, `ResumeMissesOnlyMisjudged`,
  `ResumeLossBounded`, from `ResumeInvariant`. The bound on lost records is not inductive: an
  unterminated line has not cost anything yet, and costs itself and the record glued to it in the next
  run, so it is entered in advance (`Price`, `Budget`). What a run misses is followed through the
  file: each line tells the truth about its port or nobody looked (`LinesTruthful`), and each port a
  run knows of is in its list, was misjudged, or belongs to the other protocol (`Accounted`).
* `ScanReport_proofs`: `ReportOneLinePerPort`, `ReportIsExact`, `ReportIsBaseline`, from
  `ReportInvariant`: the two bags are sets (`Content` gives them, as what was recovered, shown and
  missed), so that no line is there twice, and the jobs of these sets are disjoint (`Placed`).
* `ReportOutput_proofs`: `OutputNamesExact`, `OutputIsExact`, `OutputLossAnnounced`, from
  `OutputInvariant`. As long as nobody cancels, the name of a host is with the feeder, a worker, main or
  the map (`Underway`), and the order in which the channels close leaves only the map at the end. That
  the unstable sort keeps the lines different is a fact about finite sets (`SortKeeps`: a surjection
  between sets of equal size is injective). What a file with missing elements still is follows from
  where it comes from: it is the document restricted to some elements (`Output`).

The proofs corrected the model in two places. `WaitsBounded` of ConnectProbe was stated with a bound
that left out the TLS handshake and the UDP exchange after a cancellation. With a timeout of exactly two
reads, as the run then had it, it held by coincidence; the proof failed, and so does TLC with three
ticks. The statement and the run are those of the corrected bound. And Startup had no
empty `-iL` file: for lists of any length the proof needs the case without a single line, in which
`readTargetsFile` returns no error, the default `-host` stays out, and `expandHosts` finds nothing and
ends the program.

Only model-checked: the liveness properties (`NoIdleSlot`, `Termination`, `DiscoveryEnds`, `OutputEnds`),
since fairness and ENABLED are outside what the prover handles; and the three runs that end in a
counterexample, which nothing has to be proved about. Every safety and action property of the passing
runs is proved.

## 5. Not modelled, and why

* The text of banners, versions, hints, formats, the progress line and the completion scripts, the
  fields of a certificate: functions of the bytes of one call, without state. ConnectProbe says which
  bytes they are given, and when.
* The parsing of text into options, addresses and ports (`readConfig`, `readTargetsFile`,
  `flag.Set`): Startup begins with what was parsed. Text that does not parse is represented by a port out of range and a prefix that
  is too large, which end the same way. `-randomize` permutes lists whose order matters to nobody.
* The order of bytes and the offsets of header fields in `buildSYN` and `synProbe`: a packet is a
  record. On a machine that probes itself its own SYN comes back as well; like every packet that is
  passed over it restarts the wait, which the foreign packet of the `syn` run does too.
* Payloads of UDP probes: constants.
* A dial that is cut by the cancellation may also report a refused or silent port; the pipeline
  allows both. Results of the pipeline are any state with any cause the code can reach.
* The 500 and 750 ms deadline of the request that `grabBanner` and `detectVersion` write: a write of
  a few bytes does not block.
* In ResumableScan the hosts and ports stay the same and the network is steady, so that a difference
  between runs is the program's own; the operating system does not lose what was written, and no
  line is longer than the megabyte the reader allows (texts in a record are cut to 80 characters).
* In ScanReport a port recovered from the checkpoint is plainly `open`. ReportOutput starts from a
  list that is given: ScanReport's.

## 6. Plan

Done: all components that keep state are modelled, and every safety property the runs check is proved
for all values of the constants, with the refinement of SlotPool by the gate, and of ScanContract by
the pipeline, the SYN probe and the connect probe. What is left:

1. `LeastNat` and the lemmas on cardinality that several proofs state for themselves, in one module.
2. `-randomize`: that the shuffled lists are permutations of the sorted ones.

## 7. Running it

`tlc -config ScanPipeline.cfg ScanPipeline`, and likewise for the other configurations; those of
Startup, ConnectProbe, SynProbe and ReportOutput go with the module of the same name with MC in front.
`tlapm ScanPipeline_proofs.tla`. The longest run takes about two minutes on two cores.
