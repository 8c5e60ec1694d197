# TLA+ models of NIDS

TLA+ models of the network intrusion detector in `src/src/`, the TLC runs that check them on small
instances, and TLAPS proofs about the flow table, the locality buffer, the capture ring, the engine,
the parser, reporting and the way from the kernel to both detectors. Every definition is
translated from the Rust source; the documents of the repository are used only as claims to compare
the code with.

    tlc -config FlowTable.cfg MCFlowTable       # any run of PROJECT.json
    tlapm FlowTable_proofs.tla                  # the proofs

## 1. The system

One process; the capture thread is the only sender of packets, everything else runs on tokio.

    kernel ring --> capture thread --try_send--> packet channel --> processor task --> flow table
    (capture.rs)    | locality buffer            (10 000, lossy)    (flow_parser.rs)   ^ (mutex)
                    | parse_packet                                       |             | every 10 s
                    v                                                    v burst     cleanup task
                detection engine --alert channel--> alert loop      log_burst task     |
                (engine.rs, rules)  (unbounded)     | Logger (mutex) <---+-------------+
                                                    v                    v
                                              TCP / UDP forwarder      log file

| Component | State | Operations | Hard because | Correct when |
|---|---|---|---|---|
| Flow table (`flow_table.rs`) | a ring of 100 packets per 4-tuple, with four redundant views of it; at most 10 000 flows | `process_packet` (evict, insert, add, report a burst), `cleanup_inactive_flows` | wrap of the ring; ties in the eviction scan; restart of a removed flow; the boundary of the window | rings agree with themselves, hold their own flow, the table is bounded, a burst is a full ring within 60 s, only idle or least recent flows are lost |
| Packet channel, processor, cleanup (`main.rs`) | the channel, the clock | `try_send`, `recv`, the cleanup interval | three activities and a clock interleave; the channel drops; packets are stamped when sent and filed later | order of time is kept; nothing waits for ever; idle flows leave |
| Detection engine (`engine.rs`) | access points, clients, TCP directions, two rate trackers per rule and sender | `process_packet`: expire, track, count, alert | two kinds of pruning, a periodic cleanup and the reset after an alert act on the same counters; timestamps out of order | no threshold is passed unreported, no event counts for two alerts, memory is bounded by time, the connection table is not stale |
| Rule matching (`engine.rs`) | none | `matches_rule`, `resolve_*` | many conditions; the table is read after the packet has changed it | as used by the engine |
| Startup: rule loading, interface addresses, command line (`engine.rs`, `main.rs`) | constants after startup | `StatefulDetectionEngine::new`, `resolve_iface_ips`, the argument loop, `detect_link_type` | options that end the line or take one another as values | as used by the rest |
| Capture ring (`capture.rs`) | the socket and its mapping, 64 blocks shared with the kernel, index of the next block, one guard | `new`, `next_block`, `PacketIterator`, `recycle_block` in `Drop` | six system calls that may fail while the kernel already fills the ring; raw pointers into memory the kernel writes; no shared index | nothing leaks, kernel and thread stay in step, no pointer outlives its block, every retired block goes back |
| Locality buffer (`locality.rs`) | two arrays of references, counters for 65 536 ports, active ports | `clear`, `add_packet`, `group_packets`, `get_bucket_slice` | counters are cleared incrementally, one array never | a stable grouping by port of this batch, whatever earlier batches left |
| Frame parser (`parser.rs`) | none | `parse_packet` and a function per protocol: Ethernet to UDP, radiotap, 802.11, EAPOL, TCP options, ICMP, DNS, DHCP | every length comes from the packet; fields aligned behind chained words; names that point at names | slices stay within the frame, loops end, what was written is read |
| Flow key parser (`flow_parser.rs`) | none | `parse_flow_key` | a second reading of the same bytes, with or without an Ethernet header | agrees with `parse_packet` |
| Alert loop and forwarder (`main.rs`) | alert channel, TCP stream or UDP socket | `recv`, `Logger::log`, `AlertForwarder::send`; the program ends with the loop | a connection dies in the middle of a message | each alert once and in order; the fallback loses nothing that the receiver could not notice |
| Log file (`main.rs`, `pcap_logger.rs`) | the file, the Logger's mutex | `Logger::log`, `log_burst` | burst tasks write beside the mutex, each write to the file may fail and is ignored, a failing `println!` panics | lines stay apart and bursts in order; what fails spoils its own line, or ends its own task |
| Alert messages (`alert.rs`) | data types | - | - | - |

What is hard to test, line by line, is the list `hazards` of PROJECT.json; the properties below are
aimed at it.

## 2. The modules

| Module | Models | State and actions |
|---|---|---|
| `FlowTable` | `flow_table.rs`, and of `main.rs` the channel, the processor and the cleanup | `table`, `queue`, `now`, `burst`; `Capture` (try_send), `SkipUnparsed`, `Process` (recv and process_packet), `Cleanup`, `Tick`. A call under the table's mutex is one step |
| `FlowWindow` | its abstract specification | for each flow a sequence of its last `Slots` packets |
| `FlowHistory` | `FlowTable` beside a perfect observer | the history variable `heard` forgets nothing, `evicted` has the flows that lost their ring to another; a prompt and a lagging processor |
| `RuleMatch` | `matches_rule` and the `resolve_*` helpers | operators only |
| `Engine` | `StatefulDetectionEngine::process_packet` | one action, `ProcessPacket`, with the five tables, the cleanup time and the alerts; `latest` is the latest timestamp given so far, and the next may be up to `Skew` older (`Stamps`) |
| `EngineHistory` | `Engine` beside a perfect observer | `seenPackets`, `seenConns`, `control` |
| `EngineClaims` | | what a script and a comment say and the code does not do |
| `LocalityBuffer` | `locality.rs` | operators on a record of its arrays |
| `CaptureRing` | the capture thread and `capture.rs`, with the kernel | `SetUp`, `GiveUp` (one system call each); `Receive`, `Retire` (kernel); `NextBlock`, `Fill`, `Group`, `Drain`, `Recycle` (thread) |
| `PortFifo` | its abstract specification | a lossy channel that is in order per port |
| `Pipeline` | `CaptureRing` composed with `FlowTable` | shares the variables of both; `HandOn` is `Drain` and `Capture` in one step; `received` remembers the header and the kernel's time of each packet. A header is what the two parsers make of a packet, which need not agree: `PortKey` is from `parse_packet`, `Key` from `parse_flow_key` |
| `Detector` | `Pipeline` composed with `EngineHistory`: the program from the kernel's ring to the alerts | `DHandOn` is `HandOn` and `HProcessPacket` in one step, the engine's time being the packet's kernel timestamp |
| `Startup` | command line, rule loading, interface addresses | operators whose results are the constants of other modules |
| `Frames` | the frame being read; Ethernet (with VLAN tags), IPv4, IPv6, ARP, TCP, UDP; `parse_flow_key`, `detect_link_type` | one layer, tag or extension header per step; `off`, `end` are the slice the next function gets, `next` and `mark` what it is told, `pkt` what has been read |
| `Wireless` | radiotap, 802.11 headers, information elements, RSN, EAPOL | one header or element per step |
| `Applications` | TCP options, ICMP, DNS, DHCP | one option, question, answer or list element per step |
| `ParsePacket` | `parse_packet`: the three together | `Next`, the properties; `meant` is what the sender encoded, which no step reads |
| `Reporting` | alert loop, Logger, forwarder, burst tasks | `stage` says what each user of the Logger does next, and each write is a step: `PrintLine` (println!, which may panic), `LockFile`, `WriteText`, `WriteNewline`, `UnlockFile`, `SpawnBurst`, `WriteBurst`, `SendTcp`, `FallBack`, `SendUdp`. `Exit` ends the program after a panic of the alert loop. The history variable `failed` has the lines of which a write failed |
| `FlowTable_proofs`, `FlowHistory_proofs` | | theorems about the flow table, alone and beside its observer |
| `LocalityBuffer_proofs`, `CaptureRing_proofs` | | theorems about the grouping of a batch and the capture thread |
| `Pipeline_proofs` | | theorems about the composition; uses the invariants of both halves |
| `Engine_proofs` | | theorems about the engine, alone and beside its observer |
| `ParsePacket_proofs`, `Reporting_proofs` | | theorems about the parsers and about what is written and sent |
| `MC*` | small instances | model values, packets, rules, encoders of frames. `MCEngine` takes its rules, address and interface through `Startup`, and compares `ReadArgs` with a second definition on all lines of up to four arguments (`ArgsRead`) |

Abstractions. An IP address, MAC or 4-tuple is a name. `f64` seconds are integers. A `Vec` of
timestamps, which the engine only filters and counts, is a bag. A rule is a record of the fields
`matches_rule` reads. The order of a `HashMap` iteration is a choice (eviction among ties,
numbering of the alerts of one packet). A packet's payload is what selects its flow. In the parser
bytes are bytes, because what is checked is arithmetic on them.

Definitions marked *Variant* are what the code would be with a plausible mistake: a missing wrap, a
comparison the wrong way round, a reset forgotten. No specification uses them. PROJECT.json pairs
each with the property that must notice it, so that a property that no mistake could violate does
not stay unnoticed.

## 3. The runs

| Run | Shows |
|---|---|
| `flow_table` | Type, ring, segregation and table invariants, `BurstSound`, `LosesOnlyIdleOrLeastRecent`, the refinement to `FlowWindow`; with a processor and a cleanup that keep going, silent flows leave (`IdleFlowsLeave`) and waiting packets are taken (`OldPacketsTaken`) |
| `flow_history` | With a prompt processor, a burst is reported exactly when a perfect observer sees one, except that a flow once evicted may miss bursts: the cleanup may forget a flow, but only one whose packets could not be part of a burst |
| `flow_lagging` | *Violated.* With a processor that lags, the cleanup removes flows that have recent packets in the channel, and logs them as inactive |
| `engine_rates` | Two rules with different windows and thresholds count the SYNs and data of one host, timestamps up to one unit out of order, against a perfect observer: `NoUnreportedWindow`, `AlertsJustified`, `ConnsAmongPackets` |
| `engine_conns` | A TCP connection in every order of its segments, with expiry of either direction, beside a beacon and an ARP request: a known direction has the state its last control segment gave it (`StateOfLastControl`), nothing outlives its time (`NothingStale`), and a rule on established connections counts none (`EstablishedRulesCountNone`) |
| `claim_slow_rule`, `claim_non_ipv4` | *Violated*, see section 6 |
| `capture_ring` | From the first system call on, each of which may fail: `NothingLeaks`, `InStep`, `RefsAlive`, `StableGrouping`, `BlockFullyTaken`, the refinement to `PortFifo`, and that every retired block goes back (`RetiredBlocksReturn`) |
| `pipeline` | The whole of `Detector`. `KernelOrderKept`: both directions of a conversation reach the engine, and the packets of a flow that the parsers agree about its ring, in the order the kernel received them. `ConnsInKernelOrder`: the connection table has what the last control segment said, by the kernel's order and not by the engine's. `ImplementsEngine`: the engine is called as `Engine` takes it to be, with timestamps that go back by no more than `Skew` |
| `frames` | Frames with right and wrong lengths, cut at many places, through every parser function: `SlicesInFrame`, `ReadingEnds`; the two parsers agree on the flow (`SameFlow`, `RawKeyed`); radiotap fields, lists of elements and options, and DNS names are read as they were written (`RadiotapRead`, `ListsRead`, `NamesRead`) |
| `reporting_log` | `LinesIntact`, `BurstsFollowLines` with two burst tasks, the processor's and the cleanup's lines, failing writes and panics. A failed write (text in part or not at all, newline missing) spoils its own line and the row on which the next begins; no other line is cut, or mixed with another of the Logger |
| `reporting_forward` | `StreamComplete`, `OnlyTailTorn`, `ForwardedOnce` with a peer that leaves at any time. `AllReported`: failures of the log file and of the peer stop no alert and no burst task; when standard output fails, the alert loop ends and the program with it, or the processor before it has spawned the burst's task |

### Bounds

- `FlowTable.cfg`: rings of two slots wrap after two packets and a second wrap meets every
  alignment of head and oldest; two of three flows fit, so eviction happens with and without ties;
  a window of 2 and a clock up to 3 have packets inside, on and beyond the boundary; a channel of 2
  fills up. What holds for all sizes is proved (section 5). `FlowHistory.cfg` has
  three flows and room for two, so that a flow is evicted while others must not miss a burst, and a
  clock up to 5, so that a flow idles out and starts again; the flows are symmetric.
  `FlowLagging.cfg` has two flows with rings of three slots.
- `Engine*.cfg`: windows of 2 and 3, retention of 3 or 4, expiry of 3 or 4 and cleanup every 2, in
  the order that 1 s, 60 s and 300 s have where it matters (rule windows within the retention, the
  retention within the expiry); the cleanup period equals the window of the packet rate, where the
  code has 5 s and 1 s, so that more cleanups fit in a behaviour. Six packets (four
  for the connection) in a few instants cover two alerts for the same sender with a cleanup
  between, a connection that is opened, answered, closed and reopened, and an entry that outlives
  its time.
- `CaptureRing.cfg`: two blocks of four packets and batches of three: the ring wraps, is full, and
  a batch overflows while the leftovers of the one before are in `sorted_refs`; seven packets.
- `Pipeline.cfg`: a ring of two blocks, three packets of a SYN, its answer, a FIN, a fragment that only
  `parse_flow_key` takes for part of the flow, and a RST behind a VLAN tag, which only `parse_packet`
  reads, in any order and number; a batch of three, so that the fragment overtakes segments of its
  block; a channel and a table of one, which lose and evict; two units of time against a retire
  time of one, so that blocks can be further apart than the bound. Three packets are the fewest that
  open, answer and close a connection. Batches that overflow and the
  setup are left to `CaptureRing.cfg`, alerts and expiry to `Engine*.cfg`; that they are the same in
  the composition is proved (`HalvesImplemented`, `EngineImplemented`).
- `Frames.cfg`: families of frames, one per walk: each is built from well-formed frames of every
  protocol and then cut short, or has one of its length, offset or type bytes changed. Names have up
  to three labels and pointers forward, backward and to themselves; lists have up to three elements.
  `MaxVisited`, the bound on the turns through a name, is 12 where the code has 128: the names that
  end need four turns, and one that leads back to itself goes round six times before the bound ends it.
- `Reporting*.cfg`: two bursts with one packet each (header, packet, rule) beside a line of the
  cleanup, so that a line that failed has lines of others before and after it; two alerts for the forwarder, so that one is torn and the other falls back, beside a
  burst that contends for the Logger.
- Each clock and each count of packets, alerts and bursts has its bound in the guard of an action
  (`MaxTime`, `MaxPackets`, `MaxAlerts`, `MaxBursts`, `MaxCleanups`). A behaviour that has used
  them up stops, and so does a program with nothing to read; `CHECK_DEADLOCK FALSE` is for that.
  `FlowTable` can always clean up, and its runs check for deadlock.

### Fairness

- `FlowTable`: weak fairness of the processor loop and of the cleanup. Both are tokio tasks that
  wait for a channel and an interval and hold the mutex for one call. They last as long as standard
  output takes the lines they log: a `println!` that fails ends the task for good (`PrintLine` of
  `Reporting`), and then nothing is filed, or idle flows stay. Nothing is assumed of frames
  or the clock.
- `CaptureRing`: weak fairness of the thread as a whole: its setup ends, well or not, and then it
  loops without an exit (nothing clears `is_running`). Nothing
  is assumed of the kernel, so a block that is not retired need not come back.
- `Reporting`: weak fairness of each task until it panics or the program ends (a write to standard
  output ends, well or in an error), weak fairness of the program's end, since the runtime waits only
  for what is running, and strong fairness of getting the Logger's mutex, which is
  released again and again (std's mutex does not promise it, but threads that print and write a
  line between two acquisitions do not starve others in practice), and a TCP write that ends. A
  peer that stays connected and never reads would block the alert loop for ever; the code sets no
  write timeout.
- `ParsePacket`: weak fairness of the reading, a sequential function.
- `Pipeline` and `Detector` state no fairness; their kernel retires a block before `RetireAfter` has passed since the
  block's first packet, as the timer of TPACKET_V3 does with `tp_retire_blk_tov`.

## 4. What the history runs mean

`FlowHistory` and `EngineHistory` compare a component that forgets with an observer that does not.
The flow table forgets idle flows after 60 s and calls a burst 100 packets in less than 60 s before
the next: since a flow goes only when its last packet is more than 60 s old, none of the packets it
loses can belong to a later burst, and `ReportsEveryBurst` says so. Only eviction by a full table
costs bursts, and only those of the flow evicted (`evicted`); no burst is ever invented. The property
needs the processor to be prompt, since the cleanup compares the present with a time from before the
channel: `flow_lagging` shows a flow with a packet captured a moment ago being removed.

The engine keeps timestamps for 60 s, prunes at every match and at every cleanup and drops both
counters of a sender after an alert. `NoUnreportedWindow` says that no window of a rule fills up
with events since the last alert without an alert; `AlertsJustified` that each alert has a full
window of events that no earlier alert has used, up to the disorder of timestamps. The first needs
`interval + Skew <= TrackWindow`, which the code does not check (`claim_slow_rule`).

## 5. Proofs

Each theorem holds for every value of the constants that the assumptions below allow. Where the
table names a property, a run checks it on a small instance.

| Module | Theorem | States |
|---|---|---|
| `FlowTable_proofs` | `TypeCorrect` | `TypeOK` |
| | `RingsCorrect` | `RingsAgree`: the views of a ring agree |
| | `FlowsSegregated` | `Segregated`: no packet of another flow in a ring |
| | `TableBounded` | `TableBound` |
| | `QueueOrdered` | `QueueInOrder` |
| | `BurstsAreSound` | `BurstSound` |
| | `KeepsRecentFlows` | `LosesOnlyIdleOrLeastRecent`, an action property |
| | `FlowWindowImplemented` | `ImplementsFlowWindow`, the refinement |
| `FlowHistory_proofs` | `RingsAreRecentPast` | `RingIsRecentPast`, whatever the pace of the processor |
| | `EveryBurstReported` | `ReportsEveryBurst`, with a prompt processor |
| `LocalityBuffer_proofs` | `GroupingIsStable` | what `group_packets` hands out is the batch, port by port, in order, for every batch and whatever earlier batches left in the arrays |
| `CaptureRing_proofs` | `CaptureTypes` | types: no index leaves the ring, a block or the buffer |
| | `KernelAndThreadInStep` | `InStep` |
| | `ReferencesAlive` | `RefsAlive` |
| | `SetupUndone` | `NothingLeaks`, whichever system call fails |
| | `BlocksGrouped` | `StableGrouping` |
| | `BlocksTaken` | `BlockFullyTaken`, an action property |
| | `PortFifoImplemented` | `ImplementsPortFifo`, the refinement |
| `Pipeline_proofs` | `KernelOrderHolds` | `KernelOrderKept`, for packets that the two parsers agree about |
| | `SkewHolds` | `SkewBounded` |
| | `HalvesImplemented` | the pipeline implements `CaptureRing` and `FlowTable`, so that their theorems hold of it |
| | `PipelineImplemented` | `Detector` implements `Pipeline` |
| | `EngineImplemented` | `ImplementsEngine`: in `Detector` the engine is `Engine` with its observer, for `Skew` the retire time |
| | `ConnsFollowWire` | `ConnsInKernelOrder` |
| | `ProgramDetects` | `NoUnreportedWindow`, `AlertsJustified` and `NothingStale`, of the engine in `Detector` |
| `Engine_proofs` | `EngineTypes` | types of tables, trackers and alerts |
| | `ConnectionsWerePackets` | `ConnsAmongPackets` |
| | `EstablishedRulesCount` | `EstablishedRulesCountNone` |
| | `MemoryBoundedByTime` | `NothingStale` |
| | `TableTellsLastControl` | `StateOfLastControl` |
| | `ThresholdsReported` | `NoUnreportedWindow` |
| | `AlertsDeserved` | `AlertsJustified`, an action property |
| `ParsePacket_proofs` | `SlicesStayInFrame` | `SlicesInFrame`, for frames of any length and content |
| | `OneFlowTwoParsers` | `SameFlow` |
| | `RawPacketsKeyed` | `RawKeyed`, whatever the length of the header and the size of the packet |
| | `EveryStepLeadsOn` | every step calls a function further down or takes something off the list it walks, so the reading ends |
| `Reporting_proofs` | `ReportingTypes` | types |
| | `LinesStayApart` | `LinesIntact`: a line of which no write failed is whole |
| | `PacketsAfterLine` | `BurstsFollowLines` |
| | `StreamIsAllSoFar` | `StreamComplete`: all alerts so far, each whole and terminated by a newline |
| | `TornAtTheEnd` | `OnlyTailTorn` |
| | `EachForwardedOnce` | `ForwardedOnce` |

### Assumptions

| Assumption | Says | Because |
|---|---|---|
| `FlowKeyAssumption` | the flow key parser is a function of the frame that gives a key or rejects | `parse_flow_key` keeps no state |
| `SizeAssumption`, `FlowAssumption` | sizes are natural numbers, rings and table not empty | `main.rs` has 100 slots and 10 000 flows |
| `NoneAssumption` | an empty slot is not a packet | `Option` |
| `RingAssumption` | at least one block, with room for a packet | 64 blocks of 1 MiB |
| `BatchAssumption` | a batch fits into the array and has at most 65 535 packets | the counters of `locality.rs` are `u16` and wrap beyond; it takes 4 096 |
| `HeaderAssumption` | the port key of a header is one of the ports | `port_key` is a `u16` |
| `RetireAssumption` | the retire time is a natural number | `tp_retire_blk_tov` |
| `RuleAssumption`, `LimitAssumption` | finitely many rules with ids of their own; limits are natural numbers or left out | `rules.json`; `u32` |
| `TimeAssumption` | periods are positive | 1 s, 5 s, 60 s, 300 s |
| `SkewAssumption` | the disorder of timestamps is small against the times things are kept | 10 ms against 60 s |
| `EngineAssumption` | the same for the engine in `Detector`, with the retire time of a block for `Skew` | that the disorder is within the retire time is proved, not assumed (`EngineImplemented`) |
| `IpAssumption` | a packet with ports has an IP header | `parse_packet` looks for TCP and UDP behind IPv4 and IPv6 only |
| `ReportingAssumption` | options are Booleans, numbers natural | |
| `FramesAssumption` | a frame is a finite slice of bytes | `&[u8]` |
| `RawAssumption` | a frame meant as a raw packet is one: version 4, a header of 5 to 15 words with the addresses at bytes 12 and 16, the ports of TCP or UDP right behind it | what a raw packet is (RFC 791, 793, 768); it says nothing of other frames |
| `VisitedAssumption` | the bound on the turns through a DNS name is a natural number | 128 |

### Inductive invariants

None of the interesting invariants is inductive as it stands.

- Flow table: `IInv` is the conjunction of the invariants of the run and the finiteness of the
  table. That a ring is in order of time after a packet needs the packet to be no older than the
  ring's last, which is `QueueInOrder`; that a burst lies within the window needs `oldest_ts` to be
  the time of the slot read first, which is `RingsAgree`; `TableBound` needs the cardinality of a
  finite domain. The argument about one ring is in lemmas about the operators: `OrderAfterAdd`
  (where the entries are after the head has moved), `RingAfterAdd`, `EntriesAfterAdd` and
  `PushedAfterAdd` (the ring read in order is the sequence of the abstract specification, pushed).
- Flow table beside its observer: `HInv` adds what the observer knows. `PromptInv` adds `Forgotten`:
  of a flow never evicted the ring lacks only packets that are older than the window. A cleanup
  keeps that because it removes a flow only when its last packet is older; a packet keeps it because
  a full ring drops one that a ring of the last packets may drop.
- Locality buffer: the loops of `group_packets` are folds and recursive functions, and each has an
  invariant on how far it has come: the counters are the numbers of packets per port, the offsets
  their running sums, and the section of a port holds the packets placed so far. Counters of ports
  that are not active are zero, which is what an incomplete `clear` would break.
- Capture ring: `IInv` has six parts: the types; `SocketInv` (what is open follows from how far the
  setup is); `RingInv` (the thread's blocks are those from the oldest up to the kernel's, though no
  variable says which is the oldest; from it follows `InStep`); `BatchInv` (the buffer has the
  packets read, in the order of the block); `DrainInv` (what is handed on is a permutation of it
  that keeps each port's order, and what was handed on is in `taken`); `OrderInv` (packets not yet
  handed on were received in the order of the ring). The refinement needs all six.
- Pipeline: `PInv` is `IInv` of both halves with `ArrivalInv` (stamps grow), `BlockInv` (a block spans
  no more than the retire time), `ChannelInv` (what was taken came before what waits of its port, and
  not much later than anything that waits) and `FlowInv` (channel and rings keep the order of
  the packets of one port key, which two packets of a flow share when the parsers agree about them,
  `AgreedPortKey`). `KernelOrderKept` and `SkewBounded` are read off the last two.
- Detector: to `PInv` comes `ClockInv`, that the engine's `latest` is the timestamp of a packet that was
  taken; then `ChannelInv` bounds how far the next one lies behind it, and `TakenOnce` (packets are
  taken once, so there are no more than came) the number of calls. `ToldInv` says of what the observer
  remembers of a direction that the last packet by number that told of it told it: the next teller has the
  same two ends, so the same port key, and `ChannelInv` has it after all of them. With `ControlInv` of
  the engine, which holds by the refinement, `ConnsInKernelOrder` follows.
- Engine: `ConnsCounted` is `ConnsAmongPackets` copy by copy. `AgesBounded` measures ages from the
  last cleanup, which is what the cleanup establishes; `NothingStale` follows with the bound on the
  time since. `ControlInv` bounds the observer's and the engine's tables. `MemoryInv` says that
  a tracker holds nothing that was not seen and, of the last `TrackWindow`, everything: then what the
  engine counts is what the observer counts in any window within it. `NoUnreportedWindow` is preserved
  for the counters a packet does not touch, and for the others the engine has just compared the
  count with the limit.
- Parser: `FrameInv` is `SlicesInFrame` with the ranges of the positions and the frame's own bytes.
  The step through a DNS name needs an induction over its turns (`OneMoreTurn`, `TurnEnds`): every
  reading starts and ends within the message, whichever pointers it follows. `KeyInv` says, layer
  by layer, what `parse_packet` knows of an IPv4 frame in the terms of `parse_flow_key`. `RawInv` keeps what is
  known of a raw packet at the start, where its header is then found (`RawAtStart`). `EveryStepLeadsOn`
  orders the steps by function and then by the bytes or records left; `CountInv` says that records
  are counted down as natural numbers.
- Reporting: `ControlInv` is the control state (the channel holds the last alerts, in order; the
  processor's line is about a burst without a task). `LineInv` adds who holds the mutex (`LockInv`)
  and that whoever has a newline to write has written its text, with no piece of the Logger behind it
  (`TextInv`). So when the next text is written every piece before it is in a whole line or of a
  failed one. `FollowInv` adds that a
  task has written only steps it has behind it. `StreamInv` relates stream and datagrams to the
  number of alerts done with, from which all three properties of the forwarder follow.

In most modules one lemma per action says that it preserves the invariant, except where the invariant is a
conjunction of parts that different steps disturb: there it is one lemma per part. Induction over
data has to do without operators as parameters. The claim is put into a set (`Induction`, in
`LocalityBuffer_proofs`), recursive functions are unfolded by a lemma of their own
(`Recursion`, `NamesAreRead`), and both rest on the least element of a set of naturals (`LeastNat`).

### Only model-checked

- Liveness, since TLAPS has no rule for fairness here: `IdleFlowsLeave`, `OldPacketsTaken`,
  `RetiredBlocksReturn`, `AllReported`, `ReadingEnds`. Of the last, all but the fairness is
  `EveryStepLeadsOn`.
- `RadiotapRead`, `ListsRead` and `NamesRead`: they compare what was read with what the encoders of
  `MCFrames` meant, and there is nothing to compare with in an arbitrary frame. (What `RawKeyed` compares
  with is the header itself, which `RawAssumption` describes.)
- The claims of section 6, which are refuted, and the `ASSUME`s of `MCEngine` about the command line.

## 6. Where documents and code differ

| Run | Said | Done |
|---|---|---|
| `flow_lagging` | the log line "Removed {} inactive flow(s) (inactive >60s)" (`main.rs:119`) | flows with packets in the channel are removed too |
| `claim_slow_rule` | "60 s as safe upper bound" (`engine.rs:544`) | not for a rule with a longer interval |
| `claim_non_ipv4` | "Gracefully skip non-IPv4" (`main.rs:169`) | a frame whose first address starts with the digit 4 is read as IPv4 |

Other differences show in the definitions themselves and have no run. The specification named here
is `src/docs/AUTOMOTIVE_NIDS_TECHNICAL_SPECIFICATION.md`:

- "every ARP packet from a src_ip is counted" (`simulation.sh:150`): rule 5 is an ingress rule, so
  only requests for the sensor's own address are (`DirectionMatches`).
- "on the given interface" (`capture.rs:208`): the socket listens on all interfaces until it is
  bound, after the ring is there, so the first blocks may hold packets of others (`RingThere`).
- "as well as raw IPv4 headers" (`flow_parser.rs:27`): not those from 8.0.x.x, whose bytes 12 and 13
  are the IPv4 ether type; `RawKeyed` leaves them out and says so.
- "-ip <ip[:port]>" with "-p" (`main.rs:346`): an IPv6 address contains colons and never gets the
  port (`TargetAddr`).
- Without `--interface` the socket is on all interfaces (`capture.rs:301`) but the engine takes itself
  to be on wlan0 (`main.rs:202`, `EngineIface`): its addresses and directions are those of wlan0.
- The guard on DNS pointers (`parser.rs:1917`) stops a pointer to a pointer from looping, not a
  label followed by a pointer to itself; the bound on the labels and pointers followed does (`MaxVisited`).
- "SYN-ACK (or data ACK) seen" (`engine.rs:26`, specification line 262): an ACK alone leaves a
  direction New (`TrackConn`).
- "Purged after 300s or Reused" (line 264): closed connections go at the next cleanup (`Conns`).
- "unconditionally reclaimed" (line 218): only when a packet comes, since `expire_states` is called
  by `process_packet` alone (`ProcessPacket`).
- "Alerts if vehicle hotspot shifts from WPA2/WPA3 to Open encryption" (line 302): the new security
  overwrites the old (`TrackAccessPoint`).
- "in chronological order" (`flow_table.rs:92`): by the time of handing on. A fragment without ports for
  `parse_packet` is grouped with port 0 and overtakes packets of its flow within a block; which
  packets keep the kernel's order says `KernelOrderKept`.
- "'none' to disable" (line 412): without a log file bursts go to `nids.log` (`WriteBurst`).

## 7. Not modelled

- `alert.rs` (types), `hex_dump`, the help text, wording of lines, signal strengths and channels.
- What serde accepts as `rules.json`; a file is a set of rules or nothing.
- `Drop for MmapCapture`, which never runs, since nothing clears `is_running`.
- Parser fields that neither the engine nor a property reads: they are part of a step whose
  definition says which bytes it needs, and their values are left out.
- Three readings the encoders of `MCFrames` leave out, none of which a rule looks at: an RSN element
  cut in the middle of an AKM suite, whose last two bytes become its capabilities (`parser.rs:1235`);
  a frame check sequence after 802.11 elements, which is read as an element because the radiotap
  Flags are not looked at (`parser.rs:658`); and DNS over TCP, whose length prefix is read as the id
  (`parser.rs:1763`).
- A wall clock that is set back. The engine compares kernel timestamps, and until the clock has
  caught up nothing is expired; `Engine` lets time go back by `Skew` only.
- Lines that are logged before the alert loop begins (`main.rs:266`) or by a capture thread without a
  socket (`log_err`); a signal that ends the program in the middle of a line; how long standard output
  may block (`println!` then holds up every task that logs).
- How long the capture thread may be held up. Packets get the flow table's time when they are handed
  on, so a backlog looks like a burst; with no bound in the code there is no property to check.

## 8. Plan

Done: the flow table, the engine with its observer, the capture ring with its setup and the locality
buffer, their composition from the kernel to the flow table and the alerts, the whole parser, reporting,
startup. Every invariant and action property of these runs that does not compare a frame with its
encoder is proved.

Next:
1. Parser: that every byte a step reads lies within its slice, not only the slices within the frame;
   that the radiotap fields lie within the header and on their alignment in every frame.
2. Rule matching: which rules cannot match the same packet.
