-------------------------------- MODULE FwCtl --------------------------------
(***************************************************************************)
(* The firewall while it runs: the data plane on every CPU, the commands   *)
(* of wall/fw.cpp that change a pinned map, and the clock.                 *)
(*                                                                         *)
(* Every command is a process of its own that makes one map system call    *)
(* and exits, so a command is one action; anything may happen between two  *)
(* commands, and between any two steps of a CPU.  An argument that does    *)
(* not parse changes nothing, and neither does a map call that fails.      *)
(***************************************************************************)
EXTENDS FwProg

CONSTANTS
  BanSecs,     \* values of the sec argument of `block`
  PpsValues,   \* values of the argument of `ratelimit`
  CidrArgs,    \* arguments of `range` and `unrange`: <<address, prefix>>
  MaxTime      \* bound: last reading of the clock

ASSUME CtlAssumption ==
  /\ BanSecs \subseteq Int
  /\ PpsValues \subseteq Nat
  /\ CidrArgs \subseteq Addresses \X (0..AddrBits)
  /\ MaxTime \in Nat

Tick ==
  /\ clock < MaxTime
  /\ clock' = clock + 1
  /\ UNCHANGED <<maps, elem, stats, counters, cpu, verdict>>

dataPlane == <<elem, stats, counters, cpu, verdict>>

\* block <ip> [sec]; sec <= 0 is a permanent block.
block_ip(ip, sec) ==
  \E e \in LruCandidates(blockElem, BlockElements) :
    /\ blockElem' = LruAssign(blockElem, ip, e)
    /\ blockExp' = [blockExp EXCEPT ![e] = BlockExpiry(clock, sec)]

cmd_block(ip, sec) ==
  /\ block_ip(ip, sec)
  /\ UNCHANGED <<clock, enabled, pps, ranges, dataPlane>>

\* unblock <ip>; deleting a missing key is an error.
cmd_unblock(ip) ==
  /\ blockElem[ip] # Absent
  /\ blockElem' = [blockElem EXCEPT ![ip] = Absent]
  /\ UNCHANGED <<clock, enabled, pps, blockExp, ranges, dataPlane>>

\* range <cidr>; a full trie refuses a new key.
cmd_range(arg) ==
  /\ LET k == parse_cidr(arg[1], arg[2])
     IN  /\ k \in ranges \/ Cardinality(ranges) < MaxRanges
         /\ ranges' = ranges \cup {k}
  /\ UNCHANGED <<clock, enabled, pps, blockElem, blockExp, dataPlane>>

\* unrange <cidr>; deleting a missing key is an error.
cmd_unrange(arg) ==
  /\ LET k == parse_cidr(arg[1], arg[2])
     IN  k \in ranges /\ ranges' = ranges \ {k}
  /\ UNCHANGED <<clock, enabled, pps, blockElem, blockExp, dataPlane>>

\* set_config(CFG_PPS, v): ratelimit <pps>.
Ratelimit(v) ==
  /\ pps' = v
  /\ UNCHANGED <<clock, enabled, blockElem, blockExp, ranges, dataPlane>>

\* set_config(CFG_ENABLED, b): enable and disable.
SetEnabled(b) ==
  /\ enabled' = b
  /\ UNCHANGED <<clock, pps, blockElem, blockExp, ranges, dataPlane>>

Command ==
  \/ \E ip \in Sources, sec \in BanSecs : cmd_block(ip, sec)
  \/ \E ip \in Sources : cmd_unblock(ip)
  \/ \E arg \in CidrArgs : cmd_range(arg) \/ cmd_unrange(arg)
  \/ \E v \in PpsValues : Ratelimit(v)
  \/ \E b \in BOOLEAN : SetEnabled(b)

Next == Tick \/ Command \/ \E c \in Cpus : fw_prog(c)

Spec == Init /\ [][Next]_vars

-----------------------------------------------------------------------------
Pcs == {"idle", "block", "test", "expire", "range", "stats", "insert", "roll",
        "shift", "reset", "clear", "start", "count", "l4", "rate", "limit"}

\* The steps of fw_prog that go through the pointer to the statistics.
PointerPcs == {"roll", "shift", "reset", "clear", "start", "count", "l4", "rate"}

CpuRecord == [pc : Pcs, src : Sources \cup {Absent}, cls : L4Classes \cup {"none"},
              now : Nat, exp : BlockElements \cup {Absent},
              s : Elements \cup {Absent}, tmp : Nat, rate : Nat]

CpuState == {r \in CpuRecord :
               /\ r.pc # "idle" => r.src \in Sources
               /\ r.pc = "test" => r.exp \in BlockElements
               /\ r.pc \in PointerPcs => r.s \in Elements
               /\ r.pc = "l4" => r.cls \in L4Classes}

RulesTypeOK ==
  /\ clock \in Nat
  /\ enabled \in BOOLEAN
  /\ pps \in Nat
  /\ blockElem \in [Sources -> BlockElements \cup {Absent}]
  /\ blockExp \in [BlockElements -> Nat]
  /\ ranges \subseteq LpmKeys

StatsTypeOK ==
  /\ elem \in [Sources -> Elements \cup {Absent}]
  /\ stats \in [Elements -> IpStats]

VerdictTypeOK ==
  /\ counters \in [Cpus -> [rx : Nat, dropped : Nat, passed : Nat]]
  /\ verdict \in [Cpus -> {"none", "XDP_DROP", "XDP_PASS"}]

\* The state is well formed; in particular a CPU that reads an expiry or
\* updates statistics holds a pointer to an element of the map, never NULL.
TypeOK ==
  /\ RulesTypeOK
  /\ StatsTypeOK
  /\ VerdictTypeOK
  /\ cpu \in [Cpus -> CpuState]

\* Every frame that a CPU counted in rx it has also counted in exactly one of
\* dropped and passed, unless it is the frame still in flight: each of the
\* early returns of fw_prog counts its verdict, and none counts it twice.
CountersBalance ==
  \A c \in Cpus :
    counters[c].rx = counters[c].dropped + counters[c].passed
                       + One(cpu[c].pc # "idle")

-----------------------------------------------------------------------------
(* Claims of the documentation that the code does not keep.                *)

\* fw_prog.c:33 "0 = permanent block": a permanent block ends only by an
\* unblock of the address or by a new block command for it.
PermanentSticks ==
  [][\A ip \in Sources :
       blocklist[ip] = 0 => \/ blocklist'[ip] = 0
                            \/ cmd_unblock(ip)
                            \/ \E sec \in BanSecs : cmd_block(ip, sec)]_vars

\* fw.cpp:139 "Adds ip to the blocklist for `sec` seconds": after a block
\* command the address is blocked.
BlockTakesEffect ==
  [][\A ip \in Sources, sec \in BanSecs :
       cmd_block(ip, sec) => InEffect(blocklist'[ip], clock)]_vars
=============================================================================
