------------------------------- MODULE FwProg -------------------------------
(***************************************************************************)
(* The data plane, fw_prog in wall/fw_prog.c: the XDP program that every   *)
(* CPU runs for every frame it receives.                                   *)
(*                                                                         *)
(* A CPU runs one frame at a time (softirq context), but the CPUs share    *)
(* the maps, and fw_ip_stats is updated through a pointer without locks or *)
(* atomics.  An action is therefore one access to a shared map or to the   *)
(* shared element, together with the local computation around it.  A plain *)
(* increment is a load and, in a later action, a store.                    *)
(*                                                                         *)
(* fw_ip_stats and fw_blocklist are LRU hashes: their elements are         *)
(* allocated once and reused.  `elem` and `blockElem` say which element    *)
(* holds the value of a source, `stats` and `blockExp` what each element   *)
(* contains, so that a pointer outlives the key it was looked up under, as *)
(* it does in the kernel.                                                  *)
(*                                                                         *)
(* Left out: byte counts (no decision reads them), everything a frame      *)
(* holds besides the fields the program branches on.                       *)
(***************************************************************************)
EXTENDS FwMaps

CONSTANTS
  Cpus,        \* CPUs that receive frames
  Sources,     \* source addresses that occur
  Frames,      \* frames that occur, a subset of FrameType
  FRAC,        \* 1 << FRAC_BITS, the slots in a window: 1024 in the code
  FRAC_STEP,   \* ticks in a slot: 1 << 20 ns in the code
  MaxBlock,    \* MAX_BLOCK, elements of fw_blocklist
  MaxRanges,   \* MAX_RANGES, elements of fw_range_drop
  MaxIps,      \* MAX_IPS, elements of fw_ip_stats
  MaxRx        \* bound: frames each CPU counts in rx

WINDOW_NS == FRAC * FRAC_STEP

L4Classes == {"syn", "udp", "icmp"}

\* What fw_prog reads of a frame.  hdr says how far the headers go: "runt"
\* has no Ethernet header, "other" is not IPv4, "short" is IPv4 with a
\* truncated header.  syn: the TCP header fits in the frame and has SYN set.
FrameType == [hdr : {"runt", "other", "short", "ipv4"}, src : Sources,
              ihl : 5..15, proto : {"tcp", "udp", "icmp", "other"},
              syn : BOOLEAN]

ASSUME ProgAssumption ==
  /\ Sources \subseteq Addresses
  /\ Frames \subseteq FrameType
  /\ FRAC \in Nat \ {0}
  /\ FRAC_STEP \in Nat \ {0}
  /\ FRAC * FRAC_STEP < WordMod
  /\ MaxBlock \in Nat \ {0}
  /\ MaxRanges \in Nat \ {0}
  /\ MaxIps \in Nat \ {0}
  /\ MaxRx \in Nat

VARIABLES
  clock,       \* bpf_ktime_get_ns(), CLOCK_MONOTONIC
  enabled,     \* fw_config[CFG_ENABLED] # 0
  pps,         \* fw_config[CFG_PPS], 0 = no limit
  blockElem,   \* fw_blocklist: source -> element or Absent
  blockExp,    \* contents of the elements of fw_blocklist: expiry, 0 = permanent
  ranges,      \* fw_range_drop: set of LPM keys
  elem,        \* fw_ip_stats: source -> element or Absent
  stats,       \* contents of the elements of fw_ip_stats
  counters,    \* fw_stats: CPU -> rx, dropped, passed
  cpu,         \* what each CPU holds in registers while it runs fw_prog
  verdict      \* the last value fw_prog returned on each CPU

maps == <<enabled, pps, blockElem, blockExp, ranges>>
vars == <<clock, maps, elem, stats, counters, cpu, verdict>>

Elements == 1..MaxIps
BlockElements == 1..MaxBlock

\* fw_blocklist as its users read it: source -> expiry or Absent.
blocklist == [ip \in Sources |-> IF blockElem[ip] = Absent THEN Absent
                                 ELSE blockExp[blockElem[ip]]]

IpStats == [window_start : Nat, prev_packets : Nat, packets : Nat,
            l4 : [L4Classes -> Nat]]
NoStats == [window_start |-> 0, prev_packets |-> 0, packets |-> 0,
            l4 |-> [k \in L4Classes |-> 0]]

Idle == [pc |-> "idle", src |-> Absent, cls |-> "none", now |-> 0,
         exp |-> Absent, s |-> Absent, tmp |-> 0, rate |-> 0]

Init ==
  /\ clock = 0
  /\ enabled = TRUE
  /\ pps = 0
  /\ blockElem = [ip \in Sources |-> Absent]
  /\ blockExp = [e \in BlockElements |-> 0]
  /\ ranges = {}
  /\ elem = [ip \in Sources |-> Absent]
  /\ stats = [e \in Elements |-> NoStats]
  /\ counters = [c \in Cpus |-> [rx |-> 0, dropped |-> 0, passed |-> 0]]
  /\ cpu = [c \in Cpus |-> Idle]
  /\ verdict = [c \in Cpus |-> "none"]

-----------------------------------------------------------------------------
(* An update of an LRU hash m (source -> element) with the elements els    *)
(* takes an element before it looks at the key: a free one, or any one     *)
(* when none is free.                                                      *)

LruFree(m, els) == {e \in els : \A ip \in Sources : m[ip] # e}
LruCandidates(m, els) == IF LruFree(m, els) # {} THEN LruFree(m, els) ELSE els

\* The source k now has element e; a source that loses it disappears.
LruAssign(m, k, e) ==
  [ip \in Sources |-> IF ip = k THEN e ELSE IF m[ip] = e THEN Absent ELSE m[ip]]

-----------------------------------------------------------------------------
(* Receiving a frame and returning a verdict.                              *)

\* The l4 counter an IPv4 frame adds to; only a header without options is
\* looked into.
Classify(f) ==
  IF f.ihl # 5 THEN "none"
  ELSE IF f.proto = "tcp" THEN (IF f.syn THEN "syn" ELSE "none")
  ELSE IF f.proto \in {"udp", "icmp"} THEN f.proto ELSE "none"

One(b) == IF b THEN 1 ELSE 0

\* c's counters after `rx` more frames were received and v returned.
Counted(c, rx, v) ==
  [counters EXCEPT ![c] = [rx      |-> @.rx + rx,
                           dropped |-> @.dropped + One(v = "XDP_DROP"),
                           passed  |-> @.passed + One(v = "XDP_PASS")]]

\* Fault: the verdict is returned and not counted.
Return_Uncounted(c, v) ==
  /\ verdict' = [verdict EXCEPT ![c] = v]
  /\ cpu' = [cpu EXCEPT ![c] = Idle]
  /\ UNCHANGED counters

\* fw_prog returns v for the frame in flight on c.
Return(c, v) ==
  /\ counters' = Counted(c, 0, v)
  /\ verdict' = [verdict EXCEPT ![c] = v]
  /\ cpu' = [cpu EXCEPT ![c] = Idle]

\* A frame without an Ethernet header is dropped before anything is counted.
ReceiveRunt(c, f) ==
  /\ cpu[c].pc = "idle" /\ f.hdr = "runt"
  /\ verdict' = [verdict EXCEPT ![c] = "XDP_DROP"]
  /\ UNCHANGED <<clock, maps, elem, stats, counters, cpu>>

\* The verdict of a frame that reaches no rule: not IPv4, truncated, or
\* mitigation is off.
ReceiveUnruled(c, f) ==
  /\ cpu[c].pc = "idle" /\ f.hdr # "runt" /\ counters[c].rx < MaxRx
  /\ f.hdr = "ipv4" => ~enabled
  /\ LET v == IF f.hdr = "short" THEN "XDP_DROP" ELSE "XDP_PASS"
     IN  /\ counters' = Counted(c, 1, v)
         /\ verdict' = [verdict EXCEPT ![c] = v]
  /\ UNCHANGED <<clock, maps, elem, stats, cpu>>

\* An IPv4 frame while mitigation is on.  now is read once, here, and used
\* for the rest of the frame.
ReceiveIpv4(c, f) ==
  /\ cpu[c].pc = "idle" /\ f.hdr = "ipv4" /\ counters[c].rx < MaxRx
  /\ enabled
  /\ counters' = Counted(c, 1, "none")
  /\ cpu' = [cpu EXCEPT ![c] = [pc |-> "block", src |-> f.src, cls |-> Classify(f),
                                now |-> clock, exp |-> Absent, s |-> Absent,
                                tmp |-> 0, rate |-> 0]]
  /\ UNCHANGED <<clock, maps, elem, stats, verdict>>

-----------------------------------------------------------------------------
(* 1. Block list, 2. CIDR ranges.                                          *)

\* The lookup returns NULL or a pointer into the map.
LookupBlock(c) ==
  /\ cpu[c].pc = "block"
  /\ LET e == blockElem[cpu[c].src]
     IN  cpu' = [cpu EXCEPT ![c].exp = e,
                            ![c].pc = IF e = Absent THEN "range" ELSE "test"]
  /\ UNCHANGED <<clock, maps, elem, stats, counters, verdict>>

\* *exp is read from the element, which may have been deleted or given to
\* another source since the lookup.
TestBlock(c) ==
  /\ cpu[c].pc = "test"
  /\ LET drop == InEffect(blockExp[cpu[c].exp], cpu[c].now)
     IN \/ drop /\ Return(c, "XDP_DROP")
        \/ /\ ~drop
           /\ cpu' = [cpu EXCEPT ![c].exp = Absent, ![c].pc = "expire"]
           /\ UNCHANGED <<counters, verdict>>
  /\ UNCHANGED <<clock, maps, elem, stats>>

\* bpf_map_delete_elem removes whatever the key holds by now.
DeleteExpired(c) ==
  /\ cpu[c].pc = "expire"
  /\ blockElem' = [blockElem EXCEPT ![cpu[c].src] = Absent]
  /\ cpu' = [cpu EXCEPT ![c].pc = "range"]
  /\ UNCHANGED <<clock, enabled, pps, blockExp, ranges, elem, stats, counters, verdict>>

LookupRange(c) ==
  /\ cpu[c].pc = "range"
  /\ \/ /\ LpmLookup(ranges, cpu[c].src)
        /\ Return(c, "XDP_DROP")
     \/ /\ ~LpmLookup(ranges, cpu[c].src)
        /\ cpu' = [cpu EXCEPT ![c].pc = "stats"]
        /\ UNCHANGED <<counters, verdict>>
  /\ UNCHANGED <<clock, maps, elem, stats>>

-----------------------------------------------------------------------------
(* 3. Statistics and the sliding window.                                   *)

\* Fault: the result of the lookup is not compared with NULL.
LookupStats_NoNullCheck(c) ==
  /\ cpu[c].pc = "stats"
  /\ cpu' = [cpu EXCEPT ![c].s = elem[cpu[c].src], ![c].pc = "roll"]
  /\ UNCHANGED <<clock, maps, elem, stats, counters, verdict>>

\* From here on cpu[c].s is a pointer into the map.
LookupStats(c) ==
  /\ cpu[c].pc = "stats"
  /\ LET e == elem[cpu[c].src]
     IN  cpu' = [cpu EXCEPT ![c].s = e,
                            ![c].pc = IF e = Absent THEN "insert" ELSE "roll"]
  /\ UNCHANGED <<clock, maps, elem, stats, counters, verdict>>

\* Fault: the frame that creates the entry is counted twice.
FirstStats_Twice(now, cls) ==
  [window_start |-> now, prev_packets |-> 0, packets |-> 2,
   l4 |-> [k \in L4Classes |-> One(k = cls)]]

\* The entry that the first frame of a source creates.
FirstStats(now, cls) ==
  [window_start |-> now, prev_packets |-> 0, packets |-> 1,
   l4 |-> [k \in L4Classes |-> One(k = cls)]]

\* No entry: write a fresh one.  The key that loses its element disappears;
\* a CPU that still holds a pointer to the element keeps using it.
InsertStats(c) ==
  /\ cpu[c].pc = "insert"
  /\ \E e \in LruCandidates(elem, Elements) :
       /\ elem' = LruAssign(elem, cpu[c].src, e)
       /\ stats' = [stats EXCEPT ![e] = FirstStats(cpu[c].now, cpu[c].cls)]
  /\ cpu' = [cpu EXCEPT ![c].pc = "limit", ![c].rate = 1]
  /\ UNCHANGED <<clock, maps, counters, verdict>>

\* Fault: the window lasts one tick too long.
WindowOver_Late(s, now) == Sub64(now, s.window_start) > WINDOW_NS

WindowOver(s, now) == Sub64(now, s.window_start) >= WINDOW_NS

\* Is the window over?  If not, s->packets++ begins with its load.
CheckWindow(c) ==
  /\ cpu[c].pc = "roll"
  /\ LET s == stats[cpu[c].s]
         over == WindowOver(s, cpu[c].now)
     IN  cpu' = [cpu EXCEPT ![c].pc = IF over THEN "shift" ELSE "count",
                            ![c].tmp = IF over THEN 0 ELSE s.packets]
  /\ UNCHANGED <<clock, maps, elem, stats, counters, verdict>>

\* The rollover, a run of plain stores that another CPU may see half done:
\* the current count becomes the previous one,
ShiftWindow(c) ==
  /\ cpu[c].pc = "shift"
  /\ stats' = [stats EXCEPT ![cpu[c].s].prev_packets = stats[cpu[c].s].packets]
  /\ cpu' = [cpu EXCEPT ![c].pc = "reset"]
  /\ UNCHANGED <<clock, maps, elem, counters, verdict>>

\* Fault: packets is not cleared at the rollover.
PacketsCleared_Not(s) == s

PacketsCleared(s) == [s EXCEPT !.packets = 0]

\* the count of the current window is cleared,
ResetWindow(c) ==
  /\ cpu[c].pc = "reset"
  /\ stats' = [stats EXCEPT ![cpu[c].s] = PacketsCleared(stats[cpu[c].s])]
  /\ cpu' = [cpu EXCEPT ![c].pc = "clear"]
  /\ UNCHANGED <<clock, maps, elem, counters, verdict>>

\* Fault: the protocol counts are not cleared at the rollover.
ClassesCleared_Not(s) == s

ClassesCleared(s) == [s EXCEPT !.l4 = [k \in L4Classes |-> 0]]

\* then the protocol counts,
ClearClasses(c) ==
  /\ cpu[c].pc = "clear"
  /\ stats' = [stats EXCEPT ![cpu[c].s] = ClassesCleared(stats[cpu[c].s])]
  /\ cpu' = [cpu EXCEPT ![c].pc = "start"]
  /\ UNCHANGED <<clock, maps, elem, counters, verdict>>

\* and the window starts now; then s->packets++ begins with its load.
StartWindow(c) ==
  /\ cpu[c].pc = "start"
  /\ stats' = [stats EXCEPT ![cpu[c].s].window_start = cpu[c].now]
  /\ cpu' = [cpu EXCEPT ![c].pc = "count", ![c].tmp = stats[cpu[c].s].packets]
  /\ UNCHANGED <<clock, maps, elem, counters, verdict>>

\* The store of s->packets++ and, for a classified frame, the load of the
\* increment of s->syn, s->udp or s->icmp.
StorePackets(c) ==
  /\ cpu[c].pc = "count"
  /\ LET cls == cpu[c].cls
     IN  /\ stats' = [stats EXCEPT ![cpu[c].s].packets = cpu[c].tmp + 1]
         /\ cpu' = [cpu EXCEPT
              ![c].pc = IF cls \in L4Classes THEN "l4" ELSE "rate",
              ![c].tmp = IF cls \in L4Classes THEN stats[cpu[c].s].l4[cls] ELSE 0]
  /\ UNCHANGED <<clock, maps, elem, counters, verdict>>

StoreL4(c) ==
  /\ cpu[c].pc = "l4"
  /\ stats' = [stats EXCEPT ![cpu[c].s].l4[cpu[c].cls] = cpu[c].tmp + 1]
  /\ cpu' = [cpu EXCEPT ![c].pc = "rate", ![c].tmp = 0]
  /\ UNCHANGED <<clock, maps, elem, counters, verdict>>

\* The slot of the window that `now` falls in.
Slot(s, now) == Sub64(now, s.window_start) \div FRAC_STEP

\* Fault: a fixed window, which forgets the previous one at the rollover.
Rate_FixedWindow(s, now) == s.packets

\* Packets of the previous window, weighted by the part of it that a window
\* ending now still covers, plus those of the current one; all in __u64.
Rate(s, now) ==
  LET weighted == (s.prev_packets * Sub64(FRAC, Slot(s, now))) % WordMod
      current  == (s.packets * FRAC) % WordMod
  IN  ((weighted + current) % WordMod) \div FRAC

\* The loads of the three fields, one expression in the code, are one step.
ComputeRate(c) ==
  /\ cpu[c].pc = "rate"
  /\ cpu' = [cpu EXCEPT ![c].pc = "limit",
                        ![c].rate = Rate(stats[cpu[c].s], cpu[c].now)]
  /\ UNCHANGED <<clock, maps, elem, stats, counters, verdict>>

\* The rate limit, the last rule.
OverLimit(rate) == pps > 0 /\ rate > pps

Limit(c) ==
  /\ cpu[c].pc = "limit"
  /\ Return(c, IF OverLimit(cpu[c].rate) THEN "XDP_DROP" ELSE "XDP_PASS")
  /\ UNCHANGED <<clock, maps, elem, stats>>

-----------------------------------------------------------------------------
Receive(c) == \E f \in Frames :
  ReceiveRunt(c, f) \/ ReceiveUnruled(c, f) \/ ReceiveIpv4(c, f)

\* The rest of fw_prog, once a frame is in flight on c.
Run(c) ==
  \/ LookupBlock(c) \/ TestBlock(c) \/ DeleteExpired(c) \/ LookupRange(c)
  \/ LookupStats(c) \/ InsertStats(c) \/ CheckWindow(c)
  \/ ShiftWindow(c) \/ ResetWindow(c) \/ ClearClasses(c) \/ StartWindow(c)
  \/ StorePackets(c) \/ StoreL4(c) \/ ComputeRate(c) \/ Limit(c)

fw_prog(c) == Receive(c) \/ Run(c)
=============================================================================
