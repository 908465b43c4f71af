# FalconWall: TLA+ models, checks and proofs

FalconWall is two programs in one repository. `wall/` is an XDP firewall: an
eBPF program that decides about every received frame, and a command line tool
that loads it, changes its rules and runs detectors. `benchmark/` measures
three ways to get packets into a process, behind one interface (`PacketIO`).

The models here follow the source line by line where control is concerned and
abstract the data. Every definition is tied to its source lines in
`PROJECT.json` (`map`).

## 1. Inventory

| Component | State | Operations | Talks to |
|---|---|---|---|
| Data plane, `wall/fw_prog.c` | per-CPU counters; per-source statistics (`fw_ip_stats`) | `fw_prog`, run by every CPU for every frame | reads block list, ranges, configuration; deletes expired blocks |
| Maps | block list (LRU hash), ranges (LPM trie), statistics (LRU hash), configuration, counters | lookup, update, delete | shared by the data plane, every command and `watch`, without locks |
| Commands, `wall/fw.cpp` | none: each is a process that makes one map call | `block unblock range unrange ratelimit enable disable stats` | maps, through their pinned files |
| `watch`, `wall/fw.cpp` + `detector.cpp` | key of the walk, a copy of one source's statistics, `running` | walk the statistics, run the detectors, ban | statistics, block list |
| Daemon, `cmd_start` | attached program, pinned maps, `running` | load, attach, pin, enable, wait, detach, unpin | kernel objects that outlive it |
| `AfXdpBackend` | UMEM chunks, fill and rx ring, `recycle_addrs_`, what the constructor acquired | constructor, destructor, `recvImpl` | the driver, through shared rings |
| `AfPacketBackend` | ring of blocks, cursor, `release_block_` | the same | the kernel, through block status words |
| `SocketBackend` | `kBATCH` buffer slots | the same | a UDP socket |
| Packet filters: `falcon_xdp_redirect`, the cBPF program of `AfPacketBackend` | none | accept or reject a frame | the two backends behind them |
| `falcon-rxbench-mq` | forked children, pipes, one XDP hook for all of them | fork, receive, report, collect | `AfXdpBackend` in every child |
| Other benchmarks and validator | counters, sequence numbers, histograms | loops around `recv` | the backends |
| Parsers | none | header views | frames |

What is hard in this code: `fw_ip_stats` is updated through a pointer by all
CPUs with plain loads and stores, while its elements are recycled by the LRU,
and so are those of the block list between its lookup and the test of the expiry;
a frame consults the rules one after the other while commands change them;
`watch` decides on copies, and so does the line of totals; the daemon's kernel objects outlive it and are
addressed by name; the receive rings pass ownership of memory back and forth
with the kernel; the children of the multi-queue benchmark replace and remove
each other's program. `PROJECT.json` (`hazards`) lists each of these at its line.

What makes the components correct:
* data plane: a rule in force drops, nothing else does unless an element of the
  block list changes hands under the frame, verdicts are counted, the limiter
  lets through what it promises;
* `watch`: bans only on numbers the source has reached, bans a silent source
  once, and, unless evictions keep throwing its walk back, does ban and stops;
* statistics: a printed line is one that the counters justify;
* daemon: while it serves, hook and pins are its own and mitigation comes on;
  when it stops nothing stays;
* backends: frames in order, once, unmodified until the next `recv`, no
  memory of a ring lost and nothing that the constructor of `AfXdpBackend` acquired, no wait that nobody ends; AF_PACKET and AF_XDP take the same traffic;
* multi-queue benchmark: a true report of every child that did not fail, no program left, no wait for the dead.

## 2. Modules

`FwMaps` <- `FwProg` <- `FwCtl` <- { `FwVerdict`, `FwRate`, `FwWatch`, `FwStats` };
`FwWatch` instantiates `FwWalk`, which it implements;
`FwDaemon` and `RxBenchMq` stand alone; `AfXdp`, `AfPacket` and `SocketRx` each
instantiate `PacketIO`, and `AfPacket` extends `RxFilter`. An `MC*` module
supplies constants that a configuration cannot write down; where all are plain
values the configuration names the module itself. The
theorems are in `FwProofs` (the firewall itself), `FwObserverProofs` (`FwVerdict`,
`FwStats` and `FwRate`), `FwWatchProofs`, `FwDaemonProofs`, `RxBenchMqProofs`,
`AfXdpProofs`, `AfPacketProofs` and `SocketRxProofs`.

**FwMaps** — the maps as values: `parse_cidr` (host bits cleared), LPM lookup,
the 64-bit expiry, whether a block is in effect.

**FwProg** — `fw_prog`. `cpu[c]` is what CPU c has in registers; an action is
an access to a shared map or element together with the local computation
around it. `x++` on the shared statistics is a load and, in a later action, a
store; the load is taken in the step that ends the access before. `elem` says
which LRU element holds a source's statistics, `stats` what each element
contains, and `blockElem` and `blockExp` say the same of the block list, so a
pointer into either map can outlive its key. The rollover of the window is four
actions (shift, clear the count, clear the protocol counts, start), as another
CPU or a copy can see it half done.

**FwCtl** — the commands, the clock, the whole firewall (`Spec`), the type
invariant and the balance of the counters.

**FwVerdict** — `FwCtl` with a history: for the frame in flight on each CPU the
rules in force ever since it arrived (`held`) and at some moment since (`seen`).
A rule that the frame's own steps remove still counts as held, so that fw_prog
cannot excuse a verdict by deleting the rule first. `seen` also records that
the element which the lookup found came to hold a block of another source
before its expiry was read.

**FwRate** — `FwCtl` with the times at which a source's frames arrived and
passed; the limiter is judged from those and not from its own counters.

**FwWatch** — `cmd_watch` beside `FwCtl`: a pass of one action per system call
(two for the copy of the statistics, which the kernel takes without a lock and
through a pointer that the LRU may give to another source meanwhile), the
registry of detectors, the signal handler. `during` counts the frames that were
in flight at some moment of the copy under way.

**FwWalk** — what the walk promises while traffic never ends. Only the keys of
the two maps are left, so that the state is finite without a bound on frames and
keys can evict each other for ever; whether a copy matches is any answer.
`ImplementsWalk` of `FwWatch` is its specification under the mapping to the keys
of `elem` and `blockElem`.

**FwStats** — `print_stats` and the loop of `cmd_start` beside `FwCtl`: the words
of the per-CPU counters are copied one by one, from the first field to the last,
and added up.

**FwDaemon** — `cmd_start` on one interface. Each invocation owns one set of
maps; `hook` is the attached program, `pin` whose map each pinned file is.

**PacketIO** — the contract of `recv`: frames come in the order of acceptance,
once, at most as many as the caller's array holds, and their bytes stay until
the next `recv`; the kernel may drop before it accepts. **AfXdp**, **AfPacket**
and **SocketRx** are the three `recvImpl` against a model of the kernel's side;
`Implements` is `IO!IOSpec` under the refinement mapping in each module
(`lent` is what the memory behind the caller's Frames contains now).

**RxFilter** — which frames get that far: the C program for AF_XDP as a predicate,
the cBPF program of AF_PACKET as its thirteen instructions with a small machine
that runs them. `Loaded` is what the machine loads, or that the frame is too short
for it, and `Execute` its run from an instruction on; the answer is "all" of the
frame or "none".

**RxBenchMq** — `run_multi` and `run_queue` in the xdp modes. `hook` is the child
whose program is attached; attaching replaces it and detaching removes it,
whoever's it is. `writers` says which process holds the write end of which pipe:
`fork` copies them, exiting closes them, and a read ends when there is none. A
child fails in the attach, in the rest of the constructor, or in `kernelDrops`
after its last `recv`; there it unwinds, detaches and writes no result.

Definitions named `X_Something` are faults: a changed form of `X` that a
property has to detect. They are used by no specification.

## 3. Runs

| Run | Instance | Shows |
|---|---|---|
| `verdict` | 2 CPUs, 1 counted frame each (IPv4, not IPv4, truncated; runts besides), 2 addresses of 2 bits, block list and statistics of 1 element, blocks of 0 and 1 s, one /1 range, limit 1, 3 clock readings | Every command at any point of two frames in flight, evictions and expiries included. The other address is only blocked, and its block may take the element that a frame's lookup has found. `NoPassWhileHeld`, `NoDropWithoutCause`, `CountersBalance` |
| `rate` | 1 CPU, 5 frames, window of 4 ticks in 2 slots, limit 2, 10 clock readings | Three windows begin, also after a window without frames, whose predecessor then counts as the previous one. `SlidingQuota`: at most limit x (1 + j/FRAC) frames pass in a window's length that ends in slot j. `CompliantNeverDropped`: half the limit is always safe. `SlotInRange` |
| `watch` | 2 CPUs, 2 frames each, 1 source, window of 1 tick | `BanIsEarned` under lost updates, torn rollovers and torn copies |
| `watch_live` | 1 CPU, 2 sources, SYN, UDP, ICMP and other frames, statistics of 1 element | The key vanishes under the walk, and the element is handed on in the middle of a copy. `TornShareBounded`: a protocol count of a copy exceeds its packet count by no more than the frames that were in flight meanwhile. `BannedOnce`: an expired ban of a silent source stays on the list and keeps `watch` from banning it again. `ImplementsWalk`: what `FwWalk` says of the walk is about `cmd_watch` |
| `walk` | 4 sources, statistics of 3 elements, block list of 2, frames without end | `OffenderBanned`, `SignalStopsWatch`: both hold unless the walk is thrown back to the first key again and again, because the keys it stands on are evicted |
| `daemon` | 2 invocations one after the other, 5 maps | Kill, signal and pin failure at every step. `ServingIsConsistent`, `StopLeavesNothing`, `SignalStopsDaemon`, `AttachedGetsEnabled` |
| `xdp` | 3 chunks, array of 2, 6 frames | The driver runs out of chunks, frames stay behind for the next call, chunks are reused. `ChunksConserved`, `NothingLeaks`, `DriverWoken`, `FramesDelivered`, `Implements` |
| `packet` | 3 blocks of 2 frames, array of 2, 9 frames | The ring wraps and fills; blocks handed over full and by the timer. `ReadableIsOurs`, `FramesDelivered`, `Implements`. `FiltersAgree`: for every length up to 64 bytes and every combination of the fields that are read, the two filters agree, except for IPv4 options and for UDP headers cut off behind the port |
| `socket` | 2 slots, array of 2, queue of 3, 6 datagrams | `Implements`, `FramesDelivered` |
| `stats` | 2 CPUs, 2 frames each, block and unblock, any number of lines | `PrintedBetween`: no number of a line is one that the counter did not have during the read. `OneUnaccounted`: at most a frame for each CPU is received and neither dropped nor passed, thanks to the order of the fields |
| `mq` | 3 children, 2 frames each, expected 2 | Every order of attaching, failing, receiving and detaching. `ReportIsTrue`: the row of a child that wrote its result is what the kernel gave it, and that of any other child is zero, also if it failed in `kernelDrops` after counting. `NoProgramLeft`, `StartedEnds`, `NotHeldUp` |

Bounds. Two CPUs are enough for the races, which are between one CPU's step and
one other actor. One element in the LRU maps makes every insertion an eviction.
In `watch_live` the block list has more room than there are sources, because an
update of a full LRU map may evict another key, even if its own is in it.
`walk` has no bound on frames: its state is finite as it is. Three elements let
one source stay while the walk meets two others that are evicted and come back,
and a fourth that evicts them.
Windows are scaled from 2^30 ns in 1024 slots to a few ticks in one, two or four
slots: the code only compares `now - window_start` with the window and divides
it by the slot. `WordMod` stands for 2^64 and is small where wrapping around is
the question. `MaxRx`, `MaxTime` and `MaxFrames` are bounds of the instances.

One run ends in a violation: a comment promises what the code does not do.
`PROJECT.json` (`findings`) quotes the line.

| Run | Property | What happens |
|---|---|---|
| `ctl_expire` | `PermanentSticks` | `fw_prog` deletes a block that was renewed after it had looked the expired one up |

Fifteen more configurations are kept beside it for the same kind of question.
They are not part of the list of runs; each ends in a counterexample, too.

| Configuration | Property | What happens | Promise |
|---|---|---|---|
| `MCFwCtlEvict` | `PermanentSticks` | a full LRU block list evicts a permanent block | `wall/fw_prog.c:33` "0 = permanent block" |
| `MCFwCtlWrap` | `BlockTakesEffect` | the expiry wraps around in 64 bits | `wall/fw.cpp:139` "for `sec` seconds" |
| `MCFwVerdictRecycle` | `DropIsOwn` | between the lookup of an expired block and the test of its expiry the element goes to a permanent block of another source: the frame is dropped although nothing blocks its own | `README.md:190` "drop if present and unexpired" |
| `MCFwRateSlot` | `SlotInRange` | two CPUs: the other one has moved `window_start` past this one's `now`; the difference wraps around and the slot is huge | `wall/fw_prog.c:207` "0 .. 1023" |
| `MCFwRateBurst` | `NoBoundaryBurst` | more than the limit passes in a window's length across a boundary (`SlidingQuota` says how much more) | `README.md:213` "no boundary bursts" |
| `MCFwRateIdle` | `LimitDropIsRecent` | counts from before an idle period count as the previous window | `wall/fw_prog.c:54` "packets in the previous window" |
| `MCFwWatchEvict` | `BanIsEarned` | a CPU counts into an LRU element that has changed hands; two CPUs that both miss an entry both insert it, and the element replaced is handed out while one still counts in it | `wall/detector.hpp:32` "one source IP's stats" |
| `MCFwWatchStale` | `MatchIsCurrent` | a silent source keeps its last counts and goes on matching: an `unblock` is undone in the next pass | `wall/detector.cpp:23` "~1.07s sliding window" |
| `MCFwWatchPerm` | `PermanentSticks` | `watch` replaces a permanent block made after its check | `wall/fw_prog.c:33` |
| `FwWalkChurn` | `SignalAlwaysStopsWatch` | sources that keep evicting each other keep throwing the walk back to the first key; the pass does not end, and `running` is not tested inside it | `wall/fw.cpp:288` `while (running)`, cleared by the handler of line 285 |
| `FwDaemonCtrlC` | `CtrlCDetaches` | Ctrl+C after the message, before the handler is installed | `wall/fw.cpp:235` "Ctrl+C to stop" |
| `FwDaemonWatch` | `WatchFollowsDaemon` | `watch` keeps the maps of the daemon that was replaced | `README.md:252` "bans any IP that matches" |
| `FwDaemonOverlap` | `CommandsReachDaemon` | a second daemon on the interface takes hook and pins of the first; whichever ends first removes both by name | `README.md:246` "they work while the daemon is running" |
| `SocketRxAlias` | `Implements` | an array larger than `kBATCH` (as `falcon-validate` uses): slots are reused within one `recv` | `benchmark/src/backend/af_packet.cpp:155` "valid for the caller until its next recv()" |
| `RxBenchMqEnds` | `RunEnds` | a child whose program was replaced or removed before its first frame waits for ever, and the parent with it, although every queue has traffic | `benchmark/bench/rx_bench_mq.cpp:234` "xdp <interface> <seconds> <queues>" |

`MCFwRateBurst` restricts the interleavings (`Unhurried`) to find its long
counterexample sooner; a restriction can only hide a violation, not make one.

Deadlock checking is off in all configurations but those of `FwWalk`, because the system may stop:
frames, clock and commands are bounded, and processes end.

## 4. Fairness

* `watch`: weak fairness of the process. The scheduler runs it and `sleep(1)`
  returns; no assumption on frames, commands or the clock. The liveness
  properties are those of `FwWalk`, where frames never have to end. They are
  conditional: a walk that is thrown back to the first key without end, by
  evictions, may miss a source that stays and need not notice a signal
  (`FwWalkChurn`). Fairness cannot exclude that, as it would be an assumption
  on the network.
* Daemon: weak fairness of each `cmd_start` process. Signals and kills may or
  may not come.
* `falcon-rxbench-mq`: weak fairness of the parent, of each child and of the
  clock of a child that has started it. Frames may never come. (Only
  `RxBenchMqEnds` assumes traffic, and refutes its property all the same.)
* Backends: weak fairness of the thread that calls `recv`, as the receive loops
  do without end, and of the kernel's retire timer for AF_PACKET. Nothing is
  assumed about the driver or about arriving frames. `poll` and `epoll_wait`
  have a 100 ms timeout, so they always return.

## 5. Proofs

TLAPS checks eight modules, for every value of the constants that satisfies the
named assumptions of the modules (sets of the right kind, capacities at least
1, window shorter than the word; `kChunks <= kRingSize` for AF_XDP; an array of
whole batches for the socket backend). Where a theorem needs more it says so in
an `ASSUME` of its own, and a configuration of section 3 shows what happens
without it. Every inductive invariant was checked with TLC before it was proved.

**The firewall (`FwProofs`)**

* `TypeCorrect`: `Spec => []TypeOK`. TypeOK is inductive as it stands, because
  `CpuState` ties the program counter to the pointer: at the steps that go
  through `s`, it is an element of the map.
* `CountersCorrect`: `Spec => []CountersBalance`. Inductive together with
  TypeOK: each step of a frame in flight leaves its counters and keeps it in
  flight, or returns and counts once.

**Its observers (`FwObserverProofs`)**

* `BlockedNeverPass`: `VSpec => NoPassWhileHeld`, and `DropsHaveCause`:
  `VSpec => NoDropWithoutCause`. These are action properties about a whole
  flight, so they need an invariant that says what each program counter implies
  about the history. `HistoryInv` is that invariant (`HistoryInvariant`): `held`
  is within what is in force now, which is within `seen`; past the test of the
  expiry "block" has not held throughout (so the delete of the next step ends no
  rule that held), past the range lookup "range" has not; a frame about to
  be dropped by the block list has seen its block in force, or that of the source
  which was given the element; and a block that has held throughout is found in
  the element, although the element may have changed hands: whatever was written
  there is in effect at `now`. That a recycled element drops a frame is what the
  code does: `NoDropWithoutCause` names it as a cause, and `DropIsOwn`, without
  it, is refuted (`MCFwVerdictRecycle`). Another delicate case
  is a block that expires or is written while the frame is between its
  timestamp and its lookup: `now` is older than the clock, so a block that is in
  effect at the clock is in effect at `now` (lemma `EarlierEffect`), and a block
  written meanwhile is in effect at once (lemma `FreshBlock`). The last part needs
  `NoWrap`: no expiry overflows; `MCFwCtlWrap` shows what happens otherwise.
* `LineIsCoherent`: `SSpec => []OneUnaccounted`. The copy is taken from rx to
  passed, and the counters only grow, so `CopyBounded` compares each word copied
  with the live counters, which `CountersBalance` relates to each other.
* `LineIsTrue`: `SSpec => []PrintedBetween`. A total is a sum over the CPUs, of
  which some are copied already: `CopyBetween` bounds each word by the counter at
  the start of the copy and the live one, and the lemmas on sums (`SumNat`,
  `SumSplit`, monotony) carry that over to the totals.
* `SlotAlwaysInRange`: `RSpec => []SlotInRange` for one CPU. `InWindow`: from the
  check of the window to the computation of the rate, the frame lies in the
  window that the element records. A second CPU breaks it (`MCFwRateSlot`).
* `QuotaKept`: `RSpec => SlidingQuota`, and `HalfIsSafe`: `RSpec =>
  CompliantNeverDropped`. Both compare times of frames, which fw_prog does not
  keep, with three words of statistics, which it does. `LimitInv` is the
  bookkeeping between them (`Books`), for each source and each program counter
  through the half-done rollover: the frames passed since the window
  began are within `packets`, those of the length before it within
  `prev_packets`, and both within a limit in force (`PassedOK`); `packets` is within
  what was sent in this window, and some window's length had `prev_packets`
  arrivals, though perhaps long ago (`SentOK`); a rate that was computed is the weighted sum,
  rounded down (`FrameOK`). The quota then follows by arithmetic (`QuotaArithmetic`),
  the half because a rate over the limit needs more than half of it in one of
  the two counts. Hypotheses, all on constants: one CPU (two break the
  window, `MCFwRateSlot`), `MaxIps` at least the number of sources (an evicted
  source starts again with empty books), and `Unwrapped`, no clock reading or
  product of frames and slots reaches 2^64. The limit may be changed, and
  mitigation switched, at any moment.

**watch (`FwWatchProofs`)**

* `WatchTypes`: `WSpec => []WatchTypeOK`, on top of the step lemma of `TypeCorrect`.
* `EarnedUnlessShared`: `WSpec /\ []NotShared => []BanIsEarned` for any finite set
  of CPUs. `NotShared` says that no element is used for two sources, through the
  map, through a pointer of a CPU or through that of `watch`. Lost updates make
  the count itself a bad invariant: `Earned` bounds every count, and every count
  that a CPU has loaded, *plus the number of frames that have still to be
  added to it*, by what the source has sent, so that a late store cannot overtake it.
* `BansEarned`: the same with hypotheses on the constants only: one source (and
  any finite set of CPUs), or
  one CPU and a statistics map with room for every source (`Mapped`, and a
  pigeonhole argument, `RoomForSource`). Room alone is not enough: with two CPUs,
  two sources and three elements TLC finds a counterexample, because two CPUs that miss
  the same key both insert it and the element replaced becomes free while a
  CPU holds a pointer to it.
* `TornShareWithinBound`: `WSpec => TornShareBounded` for one CPU, about the copy
  that the detectors divide, not about the element. `ClassesOK`: in every
  element the protocol counts, plus one for a frame counted and not yet
  classified, stay within the packet count, except in the middle of a rollover,
  where the packet count is zero first. `CopyBound`: while the copy is under way
  the protocol counts of the element exceed the packets already copied by no
  more than `during`, less one for a frame that may still be added; an element
  that starts afresh, cleared or given to another source, has one frame at most.
* `WalkImplemented`: `WSpec => Walk!Init /\ [][Walk!Next]_(Walk!vars)`, the safety
  half of `ImplementsWalk`. No element of either LRU hash has two keys
  (`KeysOwn`), so a hash has a free element exactly if it has fewer keys than
  elements (`OwnersFill`), and an update changes the set of keys as `FwWalk` says.
* `SilentBannedOnce`: `WSpec => []BannedOnce` when the block list has strictly more
  room than there are sources (`BansOK`). With exactly as much it is false: an
  update of a full LRU map evicts, even if its own key is in it.

**The daemon (`FwDaemonProofs`)**

* `DaemonTypes`: `Spec => []TypeOK`, overlapping daemons included.
* `Serving`: `Spec => []ServingIsConsistent`, and `StopClean`:
  `Spec => StopLeavesNothing`, when daemons do not overlap (`FwDaemonOverlap`).
  A daemon finds whatever a killed one left, so nothing can be said of the pins
  before its own loops have come past them. `DaemonInv` follows the loops: one
  daemon is alive, from the attach on the hook is its own, the pins up to the
  loop index are its own or failed, the configuration is written
  before the announcement, and on the way out the hook is free and the pins up
  to the index are gone.

**The multi-queue benchmark (`RxBenchMqProofs`)**

* `MqTypes`, `ReportTrue` (`ReportIsTrue`) and `HookFreed` (`NoProgramLeft`) for any
  number of queues. `HookHasOwner`: a program on the hook belongs to a
  child that is still going to detach, be it while it unwinds; `Balanced`: what a
  child has counted and left unread is what it was given. A child that failed has
  written nothing, so its row is zero whatever it had counted. That the parent does
  not take a row for empty too soon needs the pipes: children are forked in order
  (`ForkedInOrder`), a living child holds the write end of its pipe
  (`LivingCanWrite`), and writes last (`WrittenLast`).

**The backends (`SocketRxProofs`, `AfXdpProofs`, `AfPacketProofs`)**

* `SocketTypes` (TypeOK: among others, the array is not overrun) for every array
  of whole batches, with `RoomForBatch`; `SocketImplements`: the refinement of
  `PacketIO` for an array of `kBATCH` Frames. For a larger one it is false
  (`SocketRxAlias`).
* `XdpTypes`, `NothingLeft` (`NothingLeaks`), `ChunksKept` (`ChunksConserved`) and
  `XdpImplements`, the refinement: initial states map to initial states, and
  each step of recv or of the driver maps to a step or a stutter. `XdpInv`
  adds to conservation that the chunks behind the caller's Frames are in
  `recycle_addrs_` (`OutHeld`), so that the driver, which takes from the fill ring,
  writes to none of them; conservation counts occurrences, hence the lemmas on
  how often an address occurs in a sequence.
* `PacketTypes` (the cursor stays inside its block, no Frame points past one)
  and `ReadableOurs` (`ReadableIsOurs`) for any number of blocks. poll looks at the
  block *before* the kernel's and recvImpl at `block_index`, so `RingInv` has to
  say that the blocks handed over are contiguous from `block_index`
  up to the kernel's block (`RingOK`), where the cursor can be (`CursorOK`) and that
  frame numbers grow along the ring (`Numbered`).
* `PacketImplements`: `Spec => Implements`, the refinement for any ring and any
  array. The mapping flattens the blocks handed over into one sequence, so each
  action has a lemma on what it does to the flattened ring: nothing
  for the cursor, an append for a frame, a prefix taken off for `recv`. `LendInv`
  adds to `RingInv` that the block behind the caller's Frames is not yet given back
  (`OutOK`), so that the kernel writes to none of them.
* `FiltersSameTraffic`: `Spec => []FiltersAgree`, for frames of every length, with
  the thirteen instructions executed one by one.

**How recursion and sums are handled.** The library's theorems that take an
operator as a parameter cannot be used, so sums, the flattened ring and the cBPF machine
are reasoned about in two steps: the recursive function is shown to exist and
to be unique by giving it as a witness, which makes its equation
available; and a statement about all sets or numbers is proved by the least
counterexample (`WFMin` and `NatLessThanWellFounded`), which is first-order.

Only model-checked, and why:

* everything under fairness (liveness and `ENABLED` are out of the prover's reach);
* the properties that are violated.

## 6. Abstractions

* Byte counts are left out: no decision reads them.
* `*exp` is read once in the test of the block list, where the source names it
  twice (the compiler loads it once), and the three fields of the rate are read in one step. A frame that
  reaches no rule is counted in rx and in its verdict in one step; the copy of the
  per-CPU counters can be torn at every other place.
* The copy of the statistics for `watch` is torn in one place, between the
  packet count and the protocol counts.
* `fw_stats` has one element, so its lookup does not fail.
* LRU and hash updates do not fail for want of memory; the LRU hands out a free
  element if there is one, otherwise any, and an update is one step. An element that is freed keeps its
  contents until it is handed out again. The key order of the statistics map
  is that of the addresses; a hash has another one, but a fixed one.
* `FwWalk` has a key evicted by any insertion into a full map, so that its
  traffic is more hostile than any real one.
* Attach and detach replace and remove by interface and mode; native and generic
  mode exclude each other. An object file that lacks one of the maps is not
  modelled.
* AF_XDP: the driver takes chunks in order and parks when it has none, until
  user space enters the kernel. AF_PACKET: the kernel's side is that of
  TPACKET_V3 (hand over when full or on the timer; go on only with a block
  that is back). `epoll_wait` returns for a readable socket or on its timeout;
  an error condition of the socket (`EPOLLERR`, as when the interface goes down),
  which would make the retry of `af_packet.cpp:134` spin until it is cleared, is
  outside the model. The constructors of `AfPacketBackend` and `SocketBackend`
  succeed or throw as a whole; what they have opened when they throw stays
  open (their destructors do not run), and only that of `AfXdpBackend`, which
  gives back on every error path, is modelled call by call (`NothingLeaks`). These are external and follow the way the backends use them.
* Arguments that do not parse change nothing and are not enumerated.
* `RxBenchMq`: one `recv` takes all the frames there are; a child writes its
  result and exits in one step; no process is killed from outside, so that the
  program that a Ctrl+C leaves attached is not part of it. The children of the
  socket and packet modes share nothing but the pipes and are not modelled apart.

Not modelled: `falcon-rxbench` (the loop of `run_queue` without siblings),
`falcon-bench` (receiver and sender share one flag that only the sender reads;
the rest is measuring), `falcon-validate` (a sequential test of what `PacketIO`
states), the parsers (a bounds check and a cast each), printing, build files.

## 7. Plan

Done, in this order: maps, data plane, commands, verdicts, limiter, `watch`,
daemon, `PacketIO` and its three implementations; theorems on types, counters and
verdicts; the statistics output, the torn copy of `watch`, the packet filters and
the multi-queue benchmark; theorems on the daemon, the multi-queue benchmark, the
three backends and their refinements, `watch`, the statistics line, the packet
filters and the limiter.

Every safety property of a passing run is now stated by a theorem, `ImplementsWalk`
by its safety half. What would
extend the project: the limiter on two CPUs, where `SlidingQuota` and
`CompliantNeverDropped` would need a weaker form that allows for the lost
updates; and the children of the socket and packet modes of the multi-queue
benchmark.
