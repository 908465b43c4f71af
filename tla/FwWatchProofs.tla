---------------------------- MODULE FwWatchProofs ----------------------------
(***************************************************************************)
(* Proofs about `falconwall watch` beside the running firewall, for any    *)
(* number of sources, any thresholds and any arguments of the commands.    *)
(***************************************************************************)
EXTENDS FwWatch, FwProofs

-----------------------------------------------------------------------------
(* Walking the map.                                                        *)

\* A set of natural numbers that is not empty has a least element.
LEMMA LeastExists ==
  ASSUME NEW T \in SUBSET Nat, T # {}
  PROVE  \E x \in T : \A y \in T : x <= y
<1> DEFINE R == {p \in Nat \X Nat : p[1] < p[2]}
<1>1. IsWellFoundedOn(R, Nat)
    BY NatLessThanWellFounded, Zenon DEF OpToRel
<1>2. \A x, y \in Nat : <<y, x>> \in R <=> y < x
    OBVIOUS
<1> HIDE DEF R
<1>3. \E x \in T : \A y \in T : ~(<<y, x>> \in R)
    BY <1>1, WFMin
<1>4. PICK x \in T : \A y \in T : ~(<<y, x>> \in R)
    BY <1>3
<1>5. ASSUME NEW y \in T PROVE x <= y
    <2>1. x \in Nat /\ y \in Nat /\ ~(y < x)
        BY <1>2, <1>4
    <2> QED BY <2>1
<1> QED BY <1>5

\* The addresses that occur are natural numbers.
LEMMA SourcesNat == Sources \subseteq Nat /\ Absent \notin Sources
  BY ProgAssumption DEF Addresses, Absent

\* The walk goes to a key of the map or to its end.
LEMMA LeastType == ASSUME NEW T \in SUBSET Sources PROVE Walk!Least(T) \in T \cup {Absent}
  BY SourcesNat, LeastExists DEF Walk!Least

\* So does the call for the first and for the next key.
LEMMA KeysType ==
  ASSUME TypeOK, NEW k \in Sources
  PROVE  Walk!FirstKey \in Sources \cup {Absent} /\ Walk!NextKey(k) \in Sources \cup {Absent}
<1>1. Used(elem) \subseteq Sources
    BY DEF TypeOK, StatsTypeOK, Used
<1>2. Walk!FirstKey \in Sources \cup {Absent}
    BY <1>1, LeastType DEF Walk!FirstKey
<1>3. {x \in Used(elem) : x > k} \in SUBSET Sources
    BY <1>1
<1>4. Walk!Least({x \in Used(elem) : x > k}) \in Sources \cup {Absent}
    BY <1>3, LeastType
<1> QED BY <1>2, <1>4 DEF Walk!NextKey

-----------------------------------------------------------------------------
(* Type correctness.                                                       *)

\* The watch process part of the type invariant.
ProcessOK(w) ==
  /\ w \in [pc : {"sleep", "read", "copy", "check", "ban", "next", "done"},
             key : Sources \cup {Absent}, e : Elements \cup {Absent}, s : IpStats]
  /\ w.pc \in {"read", "copy", "check", "ban", "next"} => w.key \in Sources
  /\ w.pc = "copy" => w.e \in Elements

\* The empty statistics are statistics.
LEMMA NoStatsType == NoStats \in IpStats /\ NoStats.l4 \in [L4Classes -> Nat]
  BY DEF NoStats, IpStats

\* A process that sleeps, ends or turns to a key is well formed.
LEMMA GoToType ==
  /\ ProcessOK(Asleep) /\ ProcessOK([Asleep EXCEPT !.pc = "done"])
  /\ \A k \in Sources \cup {Absent} : ProcessOK(GoTo(k))
  BY NoStatsType, SourcesNat DEF ProcessOK, GoTo, Asleep

\* A ban leaves a block list.
LEMMA BanType == ASSUME WatchTypeOK, BanKey PROVE TypeOK'
<1>1. watch.key \in Sources /\ clock \in Nat /\ ban_sec \in Int
    BY WatchAssumption DEF WatchTypeOK, BanKey, TypeOK, RulesTypeOK
<1>3. /\ blockElem' \in [Sources -> BlockElements \cup {Absent}]
      /\ blockExp' \in [BlockElements -> Nat]
    BY <1>1, BlockIpType DEF BanKey, WatchTypeOK
<1> QED BY <1>3 DEF BanKey, dataPlane, WatchTypeOK, TypeOK, RulesTypeOK, StatsTypeOK, VerdictTypeOK

\* The steps of the watch process keep it well formed.
LEMMA ProcessType == ASSUME WatchTypeOK, cmd_watch PROVE ProcessOK(watch)'
<1>0. TypeOK /\ ProcessOK(watch)
    BY DEF WatchTypeOK, ProcessOK
<1>1. CASE StartPass
    <2>1. Walk!FirstKey \in Sources \cup {Absent}
        <3>1. Used(elem) \in SUBSET Sources
            BY <1>0 DEF TypeOK, StatsTypeOK, Used
        <3> QED BY <3>1, LeastType DEF Walk!FirstKey
    <2> QED BY <1>1, <2>1, GoToType DEF StartPass
<1>2. CASE ReadStats
    <2>1. watch.key \in Sources /\ elem[watch.key] \in Elements \cup {Absent}
        BY <1>0, <1>2 DEF ReadStats, ProcessOK, TypeOK, StatsTypeOK
    <2>2. CASE elem[watch.key] = Absent
        BY <1>0, <1>2, <2>1, <2>2 DEF ReadStats, ProcessOK
    <2>3. CASE elem[watch.key] \in Elements /\ elem[watch.key] # Absent
        <3>1. stats[elem[watch.key]] \in IpStats
            BY <1>0, <2>3 DEF TypeOK, StatsTypeOK
        <3>2. [stats[elem[watch.key]] EXCEPT !.l4 = NoStats.l4] \in IpStats
            BY <3>1, NoStatsType DEF IpStats
        <3> QED BY <1>0, <1>2, <2>1, <2>3, <3>2 DEF ReadStats, ProcessOK
    <2> QED BY <2>1, <2>2, <2>3
<1>3. CASE CopyClasses
    <2>1. watch.e \in Elements /\ watch.s \in IpStats /\ watch.key \in Sources
        BY <1>0, <1>3 DEF CopyClasses, ProcessOK
    <2>2. stats[watch.e].l4 \in [L4Classes -> Nat]
        BY <1>0, <2>1 DEF TypeOK, StatsTypeOK, IpStats
    <2>3. [watch.s EXCEPT !.l4 = stats[watch.e].l4] \in IpStats
        BY <2>1, <2>2 DEF IpStats
    <2> QED BY <1>0, <1>3, <2>1, <2>3 DEF CopyClasses, ProcessOK
<1>4. CASE CheckKey
    BY <1>0, <1>4 DEF CheckKey, ProcessOK
<1>5. CASE BanKey
    BY <1>0, <1>5 DEF BanKey, ProcessOK
<1>6. CASE Advance
    BY <1>0, <1>6, KeysType, GoToType DEF Advance, ProcessOK
<1> QED BY <1>1, <1>2, <1>3, <1>4, <1>5, <1>6 DEF cmd_watch

\* The number of frames in flight during a copy is a number, as there are
\* finitely many CPUs.
LEMMA DuringType == ASSUME WatchTypeOK, [WNext]_wvars PROVE during' \in Nat
<1>0. during \in Nat /\ IsFiniteSet(Cpus)
    BY WatchAssumption DEF WatchTypeOK
<1>1. \A T \in SUBSET Cpus : Cardinality(T) \in Nat
    BY <1>0, FS_Subset, FS_CardinalityType
<1>2. CASE ReadStats
    <2>1. {c \in Cpus : cpu[c].pc # "idle"} \in SUBSET Cpus
        OBVIOUS
    <2> QED BY <1>0, <1>1, <1>2, <2>1 DEF ReadStats
<1>3. CASE Firewall
    <2>1. UNION {Arrivals(ip) : ip \in Sources} \in SUBSET Cpus
        BY DEF Arrivals
    <2> DEFINE n == Cardinality(UNION {Arrivals(ip) : ip \in Sources})
    <2>2. n \in Nat
        BY <1>1, <2>1
    <2>3. during' \in {during, during + n}
        BY <1>3 DEF Firewall
    <2> HIDE DEF n
    <2> QED BY <1>0, <2>2, <2>3
<1>4. CASE CopyClasses
    BY <1>4 DEF CopyClasses
<1>5. CASE during' = during
    BY <1>0, <1>5
<1> QED BY <1>2, <1>3, <1>4, <1>5
        DEF WNext, cmd_watch, StartPass, CheckKey, BanKey, Advance, on_sig, watchIdle, wvars

\* Every step preserves the types.
LEMMA WatchStep == WatchTypeOK /\ [WNext]_wvars => WatchTypeOK'
<1> SUFFICES ASSUME WatchTypeOK, [WNext]_wvars PROVE WatchTypeOK'
    OBVIOUS
<1>1. CASE Firewall \/ on_sig \/ UNCHANGED wvars
    <2>1. [Next]_vars /\ watch' = watch /\ running' \in BOOLEAN
        BY <1>1 DEF Firewall, on_sig, wvars, WatchTypeOK
    <2>2. TypeOK'
        BY <2>1, NextType DEF WatchTypeOK
    <2> QED BY <2>1, <2>2, DuringType DEF WatchTypeOK
<1>2. CASE cmd_watch
    <2>1. ProcessOK(watch)'
        BY <1>2, ProcessType
    <2>2. TypeOK'
        <3>1. CASE BanKey
            BY <3>1, BanType
        <3>2. CASE UNCHANGED vars
            BY <3>2, NextType DEF WatchTypeOK
        <3> QED BY <1>2, <3>1, <3>2 DEF cmd_watch, StartPass, ReadStats, CopyClasses, CheckKey, Advance
    <2>3. running' = running
        BY <1>2 DEF cmd_watch, StartPass, ReadStats, CopyClasses, CheckKey, BanKey, Advance, watchIdle
    <2> QED BY <2>1, <2>2, <2>3, DuringType DEF WatchTypeOK, ProcessOK
<1> QED BY <1>1, <1>2 DEF WNext

\* Beside any firewall the watch process stays well formed: whatever the LRU
\* evicts during a pass, it never goes on with the end of the walk as its key.
THEOREM WatchTypes == WSpec => []WatchTypeOK
<1>1. WInit => WatchTypeOK
    BY InitType, GoToType DEF WInit, WatchTypeOK, ProcessOK
<1> QED BY <1>1, WatchStep, PTL DEF WSpec

-----------------------------------------------------------------------------
(* A silent source is banned once.                                         *)

\* An update of the block list needs no element of another key.
RoomInBlocklist == Cardinality(Sources) < MaxBlock

\* A ban that is still remembered is still on the list, and watch is about to
\* ban only a source whose last ban is forgotten.
BansOK ==
  /\ bans \in [Sources -> {0, 1}]
  /\ \A ip \in Sources : bans[ip] = 1 => blockElem[ip] # Absent
  /\ watch.pc = "ban" => bans[watch.key] = 0

\* With room, an update adds its key and removes none.
LEMMA NoEviction ==
  ASSUME RoomInBlocklist, TypeOK, NEW k \in Sources, NEW sec, block_ip(k, sec)
  PROVE  /\ blockElem'[k] # Absent
         /\ \A ip \in Sources : blockElem[ip] # Absent => blockElem'[ip] # Absent
<1>1. LruFree(blockElem, BlockElements) # {}
    BY SourcesFinite, FewerOwners, ProgAssumption DEF RoomInBlocklist, BlockElements
<1>2. PICK e \in LruFree(blockElem, BlockElements) : blockElem' = LruAssign(blockElem, k, e)
    BY <1>1 DEF block_ip, LruCandidates
<1>3. e # Absent /\ \A ip \in Sources : blockElem[ip] # e
    BY ProgAssumption DEF LruFree, BlockElements, Absent
<1> QED BY <1>2, <1>3 DEF LruAssign

\* A block ends only by an unblock, or when a frame of the source finds it
\* expired.
LEMMA BlockEnds ==
  ASSUME RoomInBlocklist, TypeOK, [Next]_vars, NEW ip \in Sources,
         blockElem[ip] # Absent, blockElem'[ip] = Absent
  PROVE  cmd_unblock(ip) \/ Handled(ip)
<1>0. blockElem \in [Sources -> BlockElements \cup {Absent}] /\ cpu \in [Cpus -> CpuState]
    BY DEF TypeOK, RulesTypeOK
<1>1. ASSUME NEW k \in Sources, NEW sec \in BanSecs, cmd_block(k, sec) PROVE FALSE
    BY <1>1, NoEviction DEF cmd_block
<1>2. ASSUME NEW k \in Sources, cmd_unblock(k) PROVE cmd_unblock(ip)
    BY <1>0, <1>2 DEF cmd_unblock
<1>3. ASSUME NEW c \in Cpus, DeleteExpired(c) PROVE Handled(ip)
    <2>1. cpu[c].src = ip
        BY <1>0, <1>3 DEF DeleteExpired
    <2>2. cpu'[c] # cpu[c]
        BY <1>0, <1>3 DEF DeleteExpired, CpuState, CpuRecord
    <2> QED BY <2>1, <2>2 DEF Handled
<1>4. CASE UNCHANGED blockElem
    BY <1>4
<1>5. ASSUME NEW c \in Cpus, fw_prog(c), ~DeleteExpired(c) PROVE UNCHANGED blockElem
    BY <1>5 DEF fw_prog, Receive, ReceiveRunt, ReceiveUnruled, ReceiveIpv4, Run, LookupBlock,
                TestBlock, LookupRange, LookupStats, InsertStats, CheckWindow, ShiftWindow,
                ResetWindow, ClearClasses, StartWindow, StorePackets, StoreL4, ComputeRate,
                Limit, maps
<1> QED BY <1>1, <1>2, <1>3, <1>4, <1>5
        DEF Next, Command, Tick, cmd_range, cmd_unrange, Ratelimit, SetEnabled, maps, vars

\* Every step keeps the memory of the bans true.
LEMMA BansStep ==
  ASSUME RoomInBlocklist, WatchTypeOK, BansOK, [WNext]_wvars
  PROVE  BansOK'
<1>0. TypeOK
    BY DEF WatchTypeOK
<1>1. CASE Firewall
    <2>0. Next /\ watch' = watch
          /\ bans' = [ip \in Sources |-> IF Handled(ip) \/ cmd_unblock(ip) THEN 0 ELSE bans[ip]]
        BY <1>1 DEF Firewall
    <2>1. \A ip \in Sources : bans'[ip] \in {0, bans[ip]}
        BY <2>0
    <2>2. ASSUME NEW ip \in Sources, bans'[ip] = 1 PROVE blockElem'[ip] # Absent
        <3>1. ~Handled(ip) /\ ~cmd_unblock(ip) /\ bans[ip] = 1
            BY <2>0, <2>2
        <3> QED BY <1>0, <2>0, <3>1, BlockEnds DEF BansOK
    <2>3. bans' \in [Sources -> {0, 1}]
        BY <2>0 DEF BansOK
    <2>4. watch'.pc = "ban" => bans'[watch'.key] = 0
        BY <2>0, <2>1 DEF BansOK, WatchTypeOK
    <2> QED BY <2>2, <2>3, <2>4 DEF BansOK
<1>2. CASE BanKey
    <2>0. watch.key \in Sources /\ bans[watch.key] = 0 /\ watch'.pc = "next"
        BY <1>2 DEF BanKey, WatchTypeOK, BansOK
    <2>1. /\ blockElem'[watch.key] # Absent
          /\ \A ip \in Sources : blockElem[ip] # Absent => blockElem'[ip] # Absent
        BY <1>0, <1>2, <2>0, NoEviction DEF BanKey
    <2>2. bans' = [bans EXCEPT ![watch.key] = 1]
        BY <1>2, <2>0 DEF BanKey, BansOK
    <2> QED BY <2>0, <2>1, <2>2 DEF BansOK
<1>3. CASE CheckKey
    <2>1. watch.key \in Sources /\ watch'.key = watch.key
        BY <1>3 DEF CheckKey, WatchTypeOK
    <2>2. watch'.pc = "ban" => blockElem[watch.key] = Absent
        <3>1. watch'.pc = "ban" => blocklist[watch.key] = Absent
            BY <1>3 DEF CheckKey, WatchTypeOK
        <3>2. blockElem[watch.key] # Absent => blockExp[blockElem[watch.key]] \in Nat
            BY <1>0, <2>1 DEF TypeOK, RulesTypeOK
        <3> QED BY <2>1, <3>1, <3>2 DEF blocklist, Absent
    <2>3. bans' = bans /\ blockElem' = blockElem
        BY <1>3 DEF CheckKey, watchIdle, vars, maps
    <2> QED BY <2>1, <2>2, <2>3 DEF BansOK
<1>4. CASE StartPass \/ ReadStats \/ CopyClasses \/ Advance
    <2>1. bans' = bans /\ blockElem' = blockElem
        BY <1>4 DEF StartPass, ReadStats, CopyClasses, Advance, watchIdle, vars, maps
    <2>2. watch'.pc # "ban"
        <3>1. \A k : GoTo(k).pc # "ban"
            BY DEF GoTo, Asleep
        <3>2. [Asleep EXCEPT !.pc = "done"].pc # "ban"
            BY DEF Asleep
        <3>3. CASE StartPass \/ Advance
            BY <3>1, <3>2, <3>3 DEF StartPass, Advance
        <3>4. CASE ReadStats \/ CopyClasses
            BY <3>4 DEF ReadStats, CopyClasses, WatchTypeOK
        <3> QED BY <1>4, <3>3, <3>4
    <2> QED BY <2>1, <2>2 DEF BansOK
<1>5. CASE on_sig \/ UNCHANGED wvars
    BY <1>5 DEF on_sig, wvars, vars, maps, BansOK
<1> QED BY <1>1, <1>2, <1>3, <1>4, <1>5 DEF WNext, cmd_watch

\* With room to spare in the block list a source is banned once, and again
\* only after a frame of it has been handled or it has been unblocked: the
\* lookup before the ban is enough, although the ban is a later system call
\* and the statistics of a silent source go on matching for ever.
THEOREM SilentBannedOnce == ASSUME RoomInBlocklist PROVE WSpec => []BannedOnce
<1>1. WInit => BansOK
    BY DEF WInit, BansOK, Asleep
<1>2. WatchTypeOK /\ BansOK /\ [WNext]_wvars => BansOK'
    BY BansStep
<1>3. BansOK => BannedOnce
    BY DEF BansOK, BannedOnce
<1> QED BY <1>1, <1>2, <1>3, WatchTypes, PTL DEF WSpec

-----------------------------------------------------------------------------
(* The protocol counts of a source, when one CPU receives all frames.      *)

OneCpu == \E c : Cpus = {c}

Share(s) == s.l4["syn"] + s.l4["udp"] + s.l4["icmp"]

\* The registers r of the CPU and element e agree: the protocol counts stay
\* within the packet count, which is ahead by the frame that has been counted
\* and not yet classified, except in the middle of a rollover, where the
\* packet count is zero already.
ElementOK(r, e, s) ==
  IF r.pc = "clear" /\ r.s = e THEN s.packets = 0
  ELSE Share(s) + One(r.pc = "l4" /\ r.s = e) <= s.packets

\* So it is for every element, and the increments that are under way have
\* loaded what the element holds.
ClassesOK(c) ==
  /\ \A e \in Elements : ElementOK(cpu[c], e, stats[e])
  /\ cpu[c].pc = "count" => cpu[c].tmp = stats[cpu[c].s].packets
  /\ cpu[c].pc = "l4" => cpu[c].tmp = stats[cpu[c].s].l4[cpu[c].cls]

\* A frame in one of the other phases may still be added to a protocol count.
Ahead(r) == One(r.pc \notin {"idle", "rate", "limit"})

\* In a step of the CPU no element gains more in its protocol counts than the
\* frame in flight had coming, or it starts afresh.
Grows(c) ==
  \A e \in Elements :
    \/ Share(stats'[e]) + Ahead(cpu'[c]) <= Share(stats[e]) + Ahead(cpu[c])
    \/ Share(stats'[e]) + Ahead(cpu'[c]) <= 1

\* The fields of an element are natural numbers.
LEMMA ElementTypes ==
  ASSUME TypeOK, NEW e \in Elements
  PROVE  /\ stats[e].packets \in Nat /\ stats[e].prev_packets \in Nat
         /\ stats[e].window_start \in Nat /\ stats[e].l4 \in [L4Classes -> Nat]
         /\ stats[e].l4["syn"] \in Nat /\ stats[e].l4["udp"] \in Nat /\ stats[e].l4["icmp"] \in Nat
         /\ Share(stats[e]) \in Nat
<1>1. stats[e] \in IpStats
    BY DEF TypeOK, StatsTypeOK
<1>2. /\ stats[e].packets \in Nat /\ stats[e].prev_packets \in Nat
      /\ stats[e].window_start \in Nat /\ stats[e].l4 \in [L4Classes -> Nat]
    BY <1>1 DEF IpStats
<1>3. stats[e].l4["syn"] \in Nat /\ stats[e].l4["udp"] \in Nat /\ stats[e].l4["icmp"] \in Nat
    BY <1>2 DEF L4Classes
<1> QED BY <1>2, <1>3 DEF Share

\* A step that leaves the statistics alone and loads what the element holds.
LEMMA ClassesKept ==
  ASSUME TypeOK, NEW c \in Cpus, ClassesOK(c), stats' = stats,
         \/ cpu'[c] = cpu[c]
         \/ cpu[c].pc # "clear" /\ cpu'[c].pc \notin {"clear", "l4"},
         cpu'[c].pc = "count" => cpu'[c] = cpu[c] \/ cpu'[c].tmp = stats[cpu'[c].s].packets
  PROVE  /\ ClassesOK(c)'
         /\ Ahead(cpu'[c]) <= Ahead(cpu[c]) => Grows(c)
<1>0. \A e \in Elements : Share(stats[e]) \in Nat
    BY ElementTypes
<1>1. ASSUME NEW e \in Elements PROVE ElementOK(cpu'[c], e, stats'[e])
    <2>1. ElementOK(cpu[c], e, stats[e])
        BY DEF ClassesOK
    <2>2. CASE cpu'[c] = cpu[c]
        BY <2>1, <2>2
    <2>3. CASE cpu[c].pc # "clear" /\ cpu'[c].pc \notin {"clear", "l4"}
        BY <2>1, <2>3, ElementTypes DEF ElementOK, One
    <2> QED BY <2>2, <2>3
<1>2. Ahead(cpu'[c]) <= Ahead(cpu[c]) => Grows(c)
    BY <1>0 DEF Grows, Ahead, One
<1> QED BY <1>1, <1>2 DEF ClassesOK

\* A CPU whose registers go from r to q replaces the value s of element e, to
\* which it points, by v.
Stores(r, q, e, s, v) ==
  /\ r.pc = "clear" => r.s = e
  /\ q.pc \in {"clear", "l4", "count"} => q.s = e
  /\ ElementOK(q, e, v)
  /\ q.pc = "l4" => q.tmp = v.l4[q.cls]
  /\ q.pc = "count" => q.tmp = v.packets
  /\ Ahead(q) <= Ahead(r)
  /\ \/ Share(v) + Ahead(q) <= Share(s) + Ahead(r)
     \/ Share(v) + Ahead(q) <= 1

\* Such a step preserves the bound.
LEMMA ClassesStored ==
  ASSUME TypeOK, NEW c \in Cpus, ClassesOK(c), NEW e \in Elements, NEW v,
         stats' = [stats EXCEPT ![e] = v], Stores(cpu[c], cpu'[c], e, stats[e], v)
  PROVE  ClassesOK(c)' /\ Grows(c)
<1> USE DEF Stores
<1>0. stats'[e] = v /\ \A f \in Elements \ {e} : stats'[f] = stats[f]
    BY DEF TypeOK, StatsTypeOK
<1>1. ASSUME NEW f \in Elements PROVE ElementOK(cpu'[c], f, stats'[f])
    <2>1. CASE f = e
        BY <1>0, <2>1
    <2>2. CASE f # e
        <3>1. ElementOK(cpu[c], f, stats[f])
            BY DEF ClassesOK
        <3> QED BY <1>0, <2>2, <3>1, ElementTypes DEF ElementOK, One
    <2> QED BY <2>1, <2>2
<1>2. cpu'[c].pc = "count" => cpu'[c].tmp = stats'[cpu'[c].s].packets
    BY <1>0
<1>3. cpu'[c].pc = "l4" => cpu'[c].tmp = stats'[cpu'[c].s].l4[cpu'[c].cls]
    BY <1>0
<1>4. \A f \in Elements : Share(stats[f]) \in Nat
    BY ElementTypes
<1>5. Grows(c)
    BY <1>0, <1>4 DEF Grows, Ahead, One
<1> QED BY <1>1, <1>2, <1>3, <1>5 DEF ClassesOK

\* A frame that creates an entry is counted once, in one class at most.
LEMMA FirstShare ==
  \A now, cls : /\ Share(FirstStats(now, cls)) <= 1
                /\ FirstStats(now, cls).packets = 1
                /\ Share(FirstStats(now, cls)) \in Nat
<1> SUFFICES ASSUME NEW now, NEW cls
             PROVE  /\ Share(FirstStats(now, cls)) <= 1
                    /\ FirstStats(now, cls).packets = 1
                    /\ Share(FirstStats(now, cls)) \in Nat
    OBVIOUS
<1>1. /\ FirstStats(now, cls).l4["syn"] = One("syn" = cls)
      /\ FirstStats(now, cls).l4["udp"] = One("udp" = cls)
      /\ FirstStats(now, cls).l4["icmp"] = One("icmp" = cls)
      /\ FirstStats(now, cls).packets = 1
    BY DEF FirstStats, L4Classes
<1> QED BY <1>1 DEF Share, One

\* The rules and the verdict move the frame to the next rule, to the
\* statistics or out.
LEMMA RulesMove ==
  ASSUME TypeOK, NEW c \in Cpus,
         \/ LookupBlock(c) \/ TestBlock(c) \/ DeleteExpired(c) \/ LookupRange(c) \/ Limit(c)
  PROVE  /\ cpu'[c].pc \in {"idle", "test", "range", "expire", "stats"}
         /\ cpu[c].pc = "limit" => cpu'[c].pc = "idle"
         /\ cpu[c].pc \in {"block", "test", "expire", "range", "limit"}
<1>0. cpu \in [Cpus -> CpuState] /\ cpu[c] \in CpuRecord
    BY DEF TypeOK, CpuState
<1>1. CASE \E v : Return(c, v)
    <2>1. cpu'[c].pc = "idle"
        BY <1>0, <1>1 DEF Return, Idle
    <2> QED BY <2>1 DEF LookupBlock, TestBlock, DeleteExpired, LookupRange, Limit
<1>2. CASE LookupBlock(c)
    BY <1>0, <1>2 DEF LookupBlock, CpuRecord
<1>3. CASE DeleteExpired(c)
    BY <1>0, <1>3 DEF DeleteExpired, CpuRecord
<1>4. CASE TestBlock(c) /\ ~\E v : Return(c, v)
    <2>1. cpu' = [cpu EXCEPT ![c].exp = Absent, ![c].pc = "expire"] /\ cpu[c].pc = "test"
        BY <1>4 DEF TestBlock
    <2> QED BY <1>0, <2>1 DEF CpuRecord
<1>5. CASE LookupRange(c) /\ ~\E v : Return(c, v)
    <2>1. cpu' = [cpu EXCEPT ![c].pc = "stats"] /\ cpu[c].pc = "range"
        BY <1>5 DEF LookupRange
    <2> QED BY <1>0, <2>1 DEF CpuRecord
<1>6. CASE Limit(c)
    BY <1>1, <1>6 DEF Limit
<1> QED BY <1>1, <1>2, <1>3, <1>4, <1>5, <1>6

\* The arrival of a frame touches no statistics.
LEMMA ClassesReceive ==
  ASSUME TypeOK, NEW c \in Cpus, ClassesOK(c), Receive(c)
  PROVE  ClassesOK(c)'
<1>1. stats' = stats /\ cpu[c].pc = "idle" /\ (cpu' = cpu \/ cpu'[c].pc = "block")
    BY DEF Receive, ReceiveRunt, ReceiveUnruled, ReceiveIpv4, TypeOK
<1> QED BY <1>1, ClassesKept

\* Every other step of the only CPU preserves the bound.
LEMMA ClassesRun ==
  ASSUME TypeOK, NEW c \in Cpus, ClassesOK(c), Run(c)
  PROVE  ClassesOK(c)' /\ Grows(c)
<1> DEFINE r == cpu[c]
           e == cpu[c].s
<1>0. /\ cpu \in [Cpus -> CpuState] /\ r \in CpuState
      /\ r.pc \in PointerPcs => e \in Elements
      /\ stats \in [Elements -> IpStats]
    BY DEF TypeOK, StatsTypeOK, CpuState
<1>2. CASE LookupBlock(c) \/ TestBlock(c) \/ LookupRange(c) \/ Limit(c) \/ DeleteExpired(c)
    <2>1. stats' = stats
        BY <1>2 DEF LookupBlock, TestBlock, LookupRange, Limit, DeleteExpired
    <2>2. /\ cpu'[c].pc \in {"idle", "test", "range", "expire", "stats"}
          /\ cpu[c].pc = "limit" => cpu'[c].pc = "idle"
          /\ cpu[c].pc \in {"block", "test", "expire", "range", "limit"}
        BY <1>2, RulesMove
    <2>3. Ahead(cpu'[c]) <= Ahead(cpu[c])
        BY <2>2 DEF Ahead, One
    <2> QED BY <2>1, <2>2, <2>3, ClassesKept
<1>3. CASE LookupStats(c) \/ ComputeRate(c)
    <2>1. stats' = stats
        BY <1>3 DEF LookupStats, ComputeRate
    <2>2. \/ cpu[c].pc = "stats" /\ cpu'[c].pc \in {"insert", "roll"}
          \/ cpu[c].pc = "rate" /\ cpu'[c].pc = "limit"
        <3>2. CASE LookupStats(c)
            BY <1>0, <3>2 DEF LookupStats, CpuState, CpuRecord
        <3>3. CASE ComputeRate(c)
            BY <1>0, <3>3 DEF ComputeRate, CpuState, CpuRecord
        <3> QED BY <1>3, <3>2, <3>3
    <2>3. Ahead(cpu'[c]) <= Ahead(cpu[c])
        BY <2>2 DEF Ahead, One
    <2> QED BY <2>1, <2>2, <2>3, ClassesKept
<1>4. CASE CheckWindow(c)
    <2>1. stats' = stats /\ cpu'[c].pc \in {"shift", "count"} /\ cpu'[c].s = e /\ r.pc = "roll"
        BY <1>0, <1>4 DEF CheckWindow, CpuState, CpuRecord
    <2>2. cpu'[c].pc = "count" => cpu'[c].tmp = stats[e].packets
        BY <1>0, <1>4 DEF CheckWindow, CpuState, CpuRecord
    <2>3. Ahead(cpu'[c]) <= Ahead(cpu[c])
        BY <2>1 DEF Ahead, One
    <2> QED BY <2>1, <2>2, <2>3, ClassesKept
<1>5. CASE InsertStats(c)
    <2> PICK f \in LruCandidates(elem, Elements) :
               stats' = [stats EXCEPT ![f] = FirstStats(r.now, r.cls)]
        BY <1>5 DEF InsertStats
    <2>1. f \in Elements
        BY DEF LruCandidates, LruFree
    <2>2. cpu'[c].pc = "limit" /\ r.pc = "insert"
        BY <1>0, <1>5 DEF InsertStats, CpuState, CpuRecord
    <2> DEFINE v == FirstStats(r.now, r.cls)
    <2>3. Share(v) <= 1 /\ v.packets = 1 /\ Share(v) \in Nat
        BY FirstShare
    <2>4. ElementOK(cpu'[c], f, v)
        BY <2>2, <2>3 DEF ElementOK, One
    <2>5. Ahead(cpu'[c]) = 0 /\ Ahead(cpu[c]) = 1 /\ Share(v) + Ahead(cpu'[c]) <= 1
        BY <2>2, <2>3 DEF Ahead, One
    <2> HIDE DEF v
    <2>9. Stores(r, cpu'[c], f, stats[f], v)
        BY <2>2, <2>4, <2>5 DEF Stores
    <2> QED BY <2>1, <2>9, ClassesStored DEF v
<1>6. ASSUME r.pc \in PointerPcs
      PROVE  /\ e \in Elements /\ stats[e] \in IpStats /\ stats[e].packets \in Nat
             /\ Share(stats[e]) \in Nat /\ stats[e].l4 \in [L4Classes -> Nat]
             /\ r.pc # "clear" => Share(stats[e]) <= stats[e].packets
             /\ r.pc = "clear" => stats[e].packets = 0
    <2>1. e \in Elements /\ stats[e] \in IpStats
        BY <1>0, <1>6
    <2>2. ElementOK(r, e, stats[e])
        BY <2>1 DEF ClassesOK
    <2> QED BY <2>1, <2>2, ElementTypes DEF ElementOK, One
<1>7. CASE ShiftWindow(c)
    <2> DEFINE v == [stats[e] EXCEPT !.prev_packets = stats[e].packets]
    <2>0. /\ r.pc \in PointerPcs /\ stats' = [stats EXCEPT ![e] = v]
          /\ r.pc = "shift" /\ cpu'[c].pc = "reset"
        BY <1>0, <1>7 DEF ShiftWindow, PointerPcs, CpuState, CpuRecord
    <2>1. v.packets = stats[e].packets /\ Share(v) = Share(stats[e])
        BY <1>6, <2>0 DEF IpStats, Share
    <2>2. ElementOK(cpu'[c], e, v)
        BY <1>6, <2>0, <2>1 DEF ElementOK, One
    <2>3. Ahead(cpu'[c]) = 1 /\ Ahead(cpu[c]) = 1
        BY <2>0 DEF Ahead, One
    <2> HIDE DEF v
    <2>9. Stores(r, cpu'[c], e, stats[e], v)
        BY <1>6, <2>0, <2>1, <2>2, <2>3 DEF Stores
    <2> QED BY <1>6, <2>0, <2>9, ClassesStored
<1>8. CASE ResetWindow(c)
    <2> DEFINE v == PacketsCleared(stats[e])
    <2>0. /\ r.pc \in PointerPcs /\ stats' = [stats EXCEPT ![e] = v]
          /\ r.pc = "reset" /\ cpu'[c].pc = "clear" /\ cpu'[c].s = e
        BY <1>0, <1>8 DEF ResetWindow, PointerPcs, CpuState, CpuRecord
    <2>1. v.packets = 0 /\ Share(v) = Share(stats[e])
        BY <1>6, <2>0 DEF IpStats, PacketsCleared, Share
    <2>2. ElementOK(cpu'[c], e, v)
        BY <1>6, <2>0, <2>1 DEF ElementOK
    <2>3. Ahead(cpu'[c]) = 1 /\ Ahead(cpu[c]) = 1
        BY <2>0 DEF Ahead, One
    <2> HIDE DEF v
    <2>9. Stores(r, cpu'[c], e, stats[e], v)
        BY <1>6, <2>0, <2>1, <2>2, <2>3 DEF Stores
    <2> QED BY <1>6, <2>0, <2>9, ClassesStored
<1>12. CASE ClearClasses(c)
    <2> DEFINE v == ClassesCleared(stats[e])
    <2>0. /\ r.pc \in PointerPcs /\ stats' = [stats EXCEPT ![e] = v]
          /\ r.pc = "clear" /\ cpu'[c].pc = "start" /\ cpu'[c].s = e
        BY <1>0, <1>12 DEF ClearClasses, PointerPcs, CpuState, CpuRecord
    <2>1. v.packets = 0 /\ v.l4 = [k \in L4Classes |-> 0]
        BY <1>6, <2>0 DEF IpStats, ClassesCleared
    <2>2. Share(v) = 0
        BY <2>1 DEF Share, L4Classes
    <2>3. ElementOK(cpu'[c], e, v)
        BY <2>0, <2>1, <2>2 DEF ElementOK, One
    <2>4. Ahead(cpu'[c]) = 1 /\ Ahead(cpu[c]) = 1
        BY <2>0 DEF Ahead, One
    <2> HIDE DEF v
    <2>9. Stores(r, cpu'[c], e, stats[e], v)
        BY <1>6, <2>0, <2>2, <2>3, <2>4 DEF Stores
    <2> QED BY <1>6, <2>0, <2>9, ClassesStored
<1>9. CASE StartWindow(c)
    <2> DEFINE v == [stats[e] EXCEPT !.window_start = r.now]
    <2>0. /\ r.pc \in PointerPcs /\ stats' = [stats EXCEPT ![e] = v] /\ cpu'[c].pc = "count"
          /\ r.pc = "start" /\ cpu'[c].s = e /\ cpu'[c].tmp = stats[e].packets
        BY <1>0, <1>9 DEF StartWindow, PointerPcs, CpuState, CpuRecord
    <2>1. v.packets = stats[e].packets /\ Share(v) = Share(stats[e])
        BY <1>6, <2>0 DEF IpStats, Share
    <2>2. ElementOK(cpu'[c], e, v)
        BY <1>6, <2>0, <2>1 DEF ElementOK, One
    <2>3. Ahead(cpu'[c]) = 1 /\ Ahead(cpu[c]) = 1
        BY <2>0 DEF Ahead, One
    <2> HIDE DEF v
    <2>9. Stores(r, cpu'[c], e, stats[e], v)
        BY <1>6, <2>0, <2>1, <2>2, <2>3 DEF Stores
    <2> QED BY <1>6, <2>0, <2>9, ClassesStored
<1>10. CASE StorePackets(c)
    <2> DEFINE v == [stats[e] EXCEPT !.packets = r.tmp + 1]
    <2>0. /\ r.pc \in PointerPcs /\ r.pc = "count" /\ stats' = [stats EXCEPT ![e] = v]
          /\ cpu'[c].pc \in {"l4", "rate"} /\ cpu'[c].s = e /\ cpu'[c].cls = r.cls
          /\ cpu'[c].pc = "l4" => cpu'[c].tmp = stats[e].l4[r.cls]
        BY <1>0, <1>10 DEF StorePackets, PointerPcs, CpuState, CpuRecord
    <2>1. r.tmp = stats[e].packets
        BY <2>0 DEF ClassesOK
    <2>2. v.packets = stats[e].packets + 1 /\ Share(v) = Share(stats[e]) /\ v.l4 = stats[e].l4
        BY <1>6, <2>0, <2>1 DEF IpStats, Share
    <2>3. ElementOK(cpu'[c], e, v)
        BY <1>6, <2>0, <2>2 DEF ElementOK, One
    <2>4. Ahead(cpu'[c]) \in {0, 1} /\ Ahead(cpu[c]) = 1
        BY <2>0 DEF Ahead, One
    <2>5. Share(v) + Ahead(cpu'[c]) <= Share(stats[e]) + Ahead(cpu[c])
        BY <1>6, <2>0, <2>2, <2>4
    <2> HIDE DEF v
    <2>9. Stores(r, cpu'[c], e, stats[e], v)
        BY <1>6, <2>0, <2>2, <2>3, <2>4, <2>5 DEF Stores
    <2> QED BY <1>6, <2>0, <2>9, ClassesStored
<1>11. CASE StoreL4(c)
    <2> DEFINE l4 == [stats[e].l4 EXCEPT ![r.cls] = r.tmp + 1]
               v == [stats[e] EXCEPT !.l4 = l4]
    <2>0. /\ r.pc \in PointerPcs /\ r.pc = "l4" /\ stats' = [stats EXCEPT ![e] = v]
          /\ cpu'[c].pc = "rate" /\ r.cls \in L4Classes
        BY <1>0, <1>11 DEF StoreL4, PointerPcs, CpuState, CpuRecord
    <2>1. r.tmp = stats[e].l4[r.cls] /\ Share(stats[e]) + 1 <= stats[e].packets
        <3>1. ElementOK(r, e, stats[e])
            BY <1>6, <2>0 DEF ClassesOK
        <3> QED BY <2>0, <3>1 DEF ClassesOK, ElementOK, One
    <2>2. v.packets = stats[e].packets /\ v.l4 = l4
        BY <1>6, <2>0 DEF IpStats
    <2>3. l4["syn"] + l4["udp"] + l4["icmp"] = Share(stats[e]) + 1
        <3>1. /\ stats[e].l4["syn"] \in Nat /\ stats[e].l4["udp"] \in Nat
              /\ stats[e].l4["icmp"] \in Nat
            BY <1>6, <2>0, ElementTypes
        <3>2. CASE r.cls = "syn"
            BY <1>6, <2>0, <2>1, <3>1, <3>2 DEF Share, L4Classes
        <3>3. CASE r.cls = "udp"
            BY <1>6, <2>0, <2>1, <3>1, <3>3 DEF Share, L4Classes
        <3>4. CASE r.cls = "icmp"
            BY <1>6, <2>0, <2>1, <3>1, <3>4 DEF Share, L4Classes
        <3> QED BY <2>0, <3>2, <3>3, <3>4 DEF L4Classes
    <2> HIDE DEF l4, v
    <2>4. Share(v) = Share(stats[e]) + 1
        BY <2>2, <2>3 DEF Share
    <2>5. ElementOK(cpu'[c], e, v)
        BY <1>6, <2>0, <2>1, <2>2, <2>4 DEF ElementOK, One
    <2>6. Ahead(cpu'[c]) = 0 /\ Ahead(cpu[c]) = 1
        BY <2>0 DEF Ahead, One
    <2>7. Share(v) + Ahead(cpu'[c]) <= Share(stats[e]) + Ahead(cpu[c])
        BY <1>6, <2>0, <2>4, <2>6
    <2>9. Stores(r, cpu'[c], e, stats[e], v)
        BY <1>6, <2>0, <2>5, <2>6, <2>7 DEF Stores
    <2> QED BY <1>6, <2>0, <2>9, ClassesStored
<1> QED BY <1>2, <1>3, <1>4, <1>5, <1>7, <1>8, <1>9, <1>10, <1>11, <1>12 DEF Run

\* Only the CPUs write the statistics and their registers.
LEMMA OthersKeepStats ==
  ASSUME Tick \/ Command \/ cmd_watch \/ on_sig \/ UNCHANGED wvars
  PROVE  UNCHANGED <<elem, stats, cpu>>
  BY DEF Tick, Command, cmd_block, cmd_unblock, cmd_range, cmd_unrange, Ratelimit, SetEnabled,
         dataPlane, cmd_watch, StartPass, ReadStats, CopyClasses, CheckKey, BanKey, Advance,
         on_sig, wvars, vars

\* While watch copies an element, its protocol counts can exceed the packet
\* count that was copied only by the frames that were in flight meanwhile; of
\* those, one may still be on its way.
CopyBound(c) ==
  watch.pc = "copy" /\ watch.s.packets > 0 =>
    Share(stats[watch.e]) + Ahead(cpu[c]) <= watch.s.packets + during

\* The frames that arrive in a step, when there is one CPU.
LEMMA ArrivalsOfOne ==
  ASSUME WatchTypeOK, NEW c, Cpus = {c}, Firewall, watch.pc = "copy"
  PROVE  /\ cpu'[c].pc # "idle" /\ cpu[c].pc = "idle" => during' = during + 1
         /\ during' \in Nat /\ during <= during'
<1> DEFINE A == UNION {Arrivals(ip) : ip \in Sources}
<1>0. TypeOK /\ TypeOK' /\ during \in Nat
    BY NextType DEF WatchTypeOK, Firewall
<1>1. during' = during + Cardinality(A)
    BY DEF Firewall
<1>2. A = {} \/ A = {c}
    BY DEF Arrivals
<1>3. cpu'[c].pc # "idle" /\ cpu[c].pc = "idle" => A = {c}
    <2>1. cpu'[c].pc # "idle" => cpu'[c].src \in Sources
        BY <1>0 DEF TypeOK, CpuState
    <2> QED BY <1>2, <2>1 DEF Arrivals
<1> HIDE DEF A
<1>4. Cardinality({c}) = 1 /\ Cardinality({}) = 0
    BY FS_Singleton, FS_EmptySet
<1> QED BY <1>0, <1>1, <1>2, <1>3, <1>4

\* The firewall keeps within the bound.
LEMMA CopyFirewall ==
  ASSUME WatchTypeOK, NEW c, Cpus = {c}, ClassesOK(c), CopyBound(c), Firewall
  PROVE  ClassesOK(c)' /\ CopyBound(c)'
<1>0. /\ TypeOK /\ c \in Cpus /\ watch' = watch /\ Next /\ during \in Nat
      /\ watch.pc = "copy" => watch.e \in Elements /\ watch.s \in IpStats
    BY DEF WatchTypeOK, Firewall
<1>1. watch.pc = "copy" => watch.s.packets \in Nat /\ Share(stats[watch.e]) \in Nat
    BY <1>0, ElementTypes DEF IpStats
<1>2. watch.pc = "copy" => during' \in Nat /\ during <= during'
    BY ArrivalsOfOne
<1>3. CASE UNCHANGED <<stats, cpu>>
    <2>1. ClassesOK(c)'
        BY <1>3 DEF ClassesOK
    <2>2. CopyBound(c)'
        BY <1>0, <1>1, <1>2, <1>3 DEF CopyBound, Ahead, One
    <2> QED BY <2>1, <2>2
<1>4. CASE Receive(c)
    <2>1. stats' = stats /\ cpu[c].pc = "idle" /\ (cpu' = cpu \/ cpu'[c].pc = "block")
        BY <1>0, <1>4 DEF Receive, ReceiveRunt, ReceiveUnruled, ReceiveIpv4, TypeOK
    <2>2. cpu' = cpu \/ (watch.pc = "copy" => during' = during + 1)
        BY <2>1, ArrivalsOfOne
    <2>3. CopyBound(c)'
        BY <1>0, <1>1, <1>2, <2>1, <2>2 DEF CopyBound, Ahead, One
    <2> QED BY <1>0, <1>4, <2>3, ClassesReceive
<1>5. CASE Run(c)
    <2>1. ClassesOK(c)' /\ Grows(c)
        BY <1>0, <1>5, ClassesRun
    <2>2. ASSUME watch.pc = "copy", watch.s.packets > 0
          PROVE  Share(stats'[watch.e]) + Ahead(cpu'[c]) <= watch.s.packets + during'
        <3>1. Share(stats[watch.e]) + Ahead(cpu[c]) <= watch.s.packets + during
            BY <2>2 DEF CopyBound
        <3>2. \/ Share(stats'[watch.e]) + Ahead(cpu'[c]) <= Share(stats[watch.e]) + Ahead(cpu[c])
              \/ Share(stats'[watch.e]) + Ahead(cpu'[c]) <= 1
            BY <1>0, <2>1, <2>2 DEF Grows
        <3>3. Share(stats'[watch.e]) \in Nat
            <4>1. TypeOK'
                BY <1>0, NextType
            <4>2. stats'[watch.e] \in IpStats
                BY <1>0, <2>2, <4>1 DEF TypeOK, StatsTypeOK
            <4> QED BY <4>2 DEF IpStats, Share, L4Classes
        <3>4. Ahead(cpu[c]) \in Nat /\ Ahead(cpu'[c]) \in Nat
            BY DEF Ahead, One
        <3> QED BY <1>0, <1>1, <1>2, <2>2, <3>1, <3>2, <3>3, <3>4
    <2> QED BY <1>0, <2>1, <2>2 DEF CopyBound
<1> QED BY <1>0, <1>3, <1>4, <1>5, OthersKeepStats DEF Next, fw_prog

\* So does the watch process: what it copies first is within the bound.
LEMMA CopyWatch ==
  ASSUME WatchTypeOK, NEW c, Cpus = {c}, ClassesOK(c), CopyBound(c),
         cmd_watch \/ on_sig \/ UNCHANGED wvars
  PROVE  ClassesOK(c)' /\ CopyBound(c)'
<1>0. TypeOK /\ UNCHANGED <<elem, stats, cpu>>
    BY OthersKeepStats DEF WatchTypeOK
<1>1. ClassesOK(c)'
    BY <1>0 DEF ClassesOK
<1>2. CASE ReadStats /\ watch'.pc = "copy"
    <2> DEFINE e == elem[watch.key]
    <2>1. watch.key \in Sources /\ watch \in [pc : {"sleep", "read", "copy", "check", "ban", "next", "done"},
                key : Sources \cup {Absent}, e : Elements \cup {Absent}, s : IpStats]
        BY <1>2 DEF ReadStats, WatchTypeOK
    <2>2. /\ e # Absent /\ watch'.e = e /\ watch'.s = [stats[e] EXCEPT !.l4 = NoStats.l4]
          /\ during' = Cardinality({d \in Cpus : cpu[d].pc # "idle"})
        BY <1>2, <2>1 DEF ReadStats
    <2>3. e \in Elements /\ stats[e] \in IpStats
        BY <1>0, <2>1, <2>2 DEF TypeOK, StatsTypeOK
    <2>4. watch'.s.packets = stats[e].packets
        BY <2>2, <2>3 DEF IpStats
    <2>5. during' = One(cpu[c].pc # "idle")
        <3>1. CASE cpu[c].pc = "idle"
            <4>1. {d \in Cpus : cpu[d].pc # "idle"} = {}
                BY <3>1
            <4> QED BY <2>2, <3>1, <4>1, FS_EmptySet DEF One
        <3>2. CASE cpu[c].pc # "idle"
            <4>1. {d \in Cpus : cpu[d].pc # "idle"} = {c}
                BY <3>2
            <4> QED BY <2>2, <3>2, <4>1, FS_Singleton DEF One
        <3> QED BY <3>1, <3>2
    <2>6. ElementOK(cpu[c], e, stats[e]) /\ Share(stats[e]) \in Nat /\ stats[e].packets \in Nat
        BY <1>0, <2>3, ElementTypes DEF ClassesOK
    <2> HIDE DEF e
    <2>7. stats[e].packets > 0 => Share(stats[e]) + Ahead(cpu[c]) <= stats[e].packets + during'
        BY <2>5, <2>6 DEF ElementOK, Ahead, One
    <2> QED BY <1>0, <1>1, <2>2, <2>4, <2>7 DEF CopyBound
<1>3. CASE watch'.pc # "copy"
    BY <1>1, <1>3 DEF CopyBound
<1>4. CASE watch' = watch /\ during' = during
    BY <1>0, <1>1, <1>4 DEF CopyBound
<1>5. CASE StartPass \/ Advance
    <2>1. \A k : GoTo(k).pc # "copy" /\ [Asleep EXCEPT !.pc = "done"].pc # "copy"
        BY DEF GoTo, Asleep
    <2> QED BY <1>3, <1>5, <2>1 DEF StartPass, Advance
<1>6. CASE CopyClasses \/ CheckKey \/ BanKey
    BY <1>3, <1>6 DEF CopyClasses, CheckKey, BanKey, WatchTypeOK
<1> QED BY <1>2, <1>3, <1>4, <1>5, <1>6 DEF cmd_watch, on_sig, wvars

\* With one CPU a copy that counts packets shows no more frames of a protocol
\* than packets and frames that were in flight while the copy was taken: for
\* any number of sources and frames, through every rollover and eviction that
\* happens meanwhile.
THEOREM TornShareWithinBound == ASSUME OneCpu PROVE WSpec => TornShareBounded
<1> PICK c : Cpus = {c}
    BY DEF OneCpu
<1> DEFINE Step == watch.pc = "copy" /\ watch'.pc = "check" /\ watch'.s.packets > 0 =>
                     \A k \in L4Classes : watch'.s.l4[k] <= watch'.s.packets + during
<1>1. WInit => ClassesOK(c) /\ CopyBound(c)
    <2> SUFFICES ASSUME WInit PROVE ClassesOK(c) /\ CopyBound(c)
        OBVIOUS
    <2>1. cpu[c].pc = "idle" /\ watch.pc = "sleep"
        BY DEF WInit, Init, Idle, Asleep
    <2>2. \A e \in Elements : Share(stats[e]) = 0 /\ stats[e].packets = 0
        BY DEF WInit, Init, NoStats, Share, L4Classes
    <2> QED BY <2>1, <2>2 DEF ClassesOK, ElementOK, CopyBound, One
<1>2. WatchTypeOK /\ ClassesOK(c) /\ CopyBound(c) /\ [WNext]_wvars
        => ClassesOK(c)' /\ CopyBound(c)'
    BY CopyFirewall, CopyWatch DEF WNext
<1>3. WatchTypeOK /\ CopyBound(c) /\ [WNext]_wvars => [Step]_wvars
    <2> SUFFICES ASSUME WatchTypeOK, CopyBound(c), WNext, watch.pc = "copy",
                        watch'.pc = "check", watch'.s.packets > 0, NEW k \in L4Classes
                 PROVE  watch'.s.l4[k] <= watch'.s.packets + during
        OBVIOUS
    <2>1. CopyClasses
        BY DEF WNext, cmd_watch, StartPass, ReadStats, CheckKey, BanKey, Advance, on_sig, Firewall
    <2>2. watch.e \in Elements /\ watch.s \in IpStats /\ TypeOK /\ during \in Nat
        BY DEF WatchTypeOK
    <2>3. watch'.s.packets = watch.s.packets /\ watch'.s.l4 = stats[watch.e].l4
          /\ watch.s.packets \in Nat
        <3>1. watch'.s = [watch.s EXCEPT !.l4 = stats[watch.e].l4]
            BY <2>1 DEF CopyClasses, WatchTypeOK
        <3> QED BY <2>2, <3>1 DEF IpStats
    <2>4. Share(stats[watch.e]) + Ahead(cpu[c]) <= watch.s.packets + during
        BY <2>3 DEF CopyBound
    <2> DEFINE l4 == stats[watch.e].l4
    <2>5. l4["syn"] \in Nat /\ l4["udp"] \in Nat /\ l4["icmp"] \in Nat
          /\ Share(stats[watch.e]) = l4["syn"] + l4["udp"] + l4["icmp"]
        BY <2>2, ElementTypes DEF Share
    <2> HIDE DEF l4
    <2>6. l4[k] <= Share(stats[watch.e]) /\ l4[k] \in Nat
        BY <2>5 DEF L4Classes
    <2>7. l4[k] <= watch.s.packets + during
        BY <2>2, <2>3, <2>4, <2>5, <2>6 DEF Ahead, One
    <2> QED BY <2>3, <2>7 DEF l4
<1> QED BY <1>1, <1>2, <1>3, WatchTypes, PTL DEF WSpec, TornShareBounded

-----------------------------------------------------------------------------
(* Every ban is earned, as long as no element is used for two sources.     *)

\* Element e is used for the statistics of ip: the map says so, or a CPU or
\* the copy of watch still holds a pointer that it looked up for ip.
UsedFor(ip, e) ==
  \/ elem[ip] = e
  \/ \E c \in Cpus : cpu[c].pc \in PointerPcs /\ cpu[c].src = ip /\ cpu[c].s = e
  \/ watch.pc = "copy" /\ watch.key = ip /\ watch.e = e

NotShared ==
  \A ip, jp \in Sources, e \in Elements : UsedFor(ip, e) /\ UsedFor(jp, e) => ip = jp

\* What is counted for a source, and a CPU that has still to count its frame
\* in q, or has loaded q to do so.
Quantities == {"packets"} \cup L4Classes
Count(s, q) == IF q = "packets" THEN s.packets ELSE s.l4[q]

Before == {"block", "test", "expire", "range", "stats", "insert", "roll", "shift", "reset",
           "clear", "start", "count"}
Due(r, q) == \/ r.pc \in Before /\ (q = "packets" \/ r.cls = q)
             \/ r.pc = "l4" /\ r.cls = q
Loaded(r, q) == \/ r.pc = "count" /\ q = "packets"
                \/ r.pc = "l4" /\ r.cls = q

Pending(ip, q) == {c \in Cpus : cpu[c].src = ip /\ Due(cpu[c], q)}

\* A count, together with the frames that have still to be added to it, does
\* not exceed what the source has sent; nor does a count that a CPU has
\* loaded, so that a store cannot overtake it whatever was stored meanwhile.
EarnedOK(q) ==
  /\ \A ip \in Sources : Cardinality(Pending(ip, q)) <= sent[ip]
  /\ \A ip \in Sources, e \in Elements :
       UsedFor(ip, e) => Count(stats[e], q) + Cardinality(Pending(ip, q)) <= sent[ip]
  /\ \A c \in Cpus : Loaded(cpu[c], q) =>
       cpu[c].tmp + Cardinality(Pending(cpu[c].src, q)) <= sent[cpu[c].src]

\* The copy of watch does not exceed it either.
CopyOK ==
  /\ watch.pc \in {"copy", "check", "ban"} => watch.s.packets <= sent[watch.key]
  /\ watch.pc \in {"check", "ban"} => \A k \in L4Classes : watch.s.l4[k] <= sent[watch.key]

Earned ==
  /\ sent \in [Sources -> Nat]
  /\ \A q \in Quantities : EarnedOK(q)
  /\ CopyOK

\* The number of frames to be counted is a natural number.
LEMMA PendingType ==
  ASSUME IsFiniteSet(Cpus), NEW ip, NEW q
  PROVE  /\ IsFiniteSet(Pending(ip, q)) /\ Cardinality(Pending(ip, q)) \in Nat
         /\ IsFiniteSet(Pending(ip, q)') /\ Cardinality(Pending(ip, q)') \in Nat
<1>1. Pending(ip, q) \in SUBSET Cpus /\ Pending(ip, q)' \in SUBSET Cpus
    BY DEF Pending
<1> QED BY <1>1, FS_Subset, FS_CardinalityType

\* A count is a natural number.
LEMMA CountType ==
  ASSUME NEW s \in IpStats, NEW q \in Quantities PROVE Count(s, q) \in Nat
<1>1. s.packets \in Nat /\ s.l4 \in [L4Classes -> Nat]
    BY DEF IpStats
<1> QED BY <1>1 DEF Quantities, Count

\* A CPU that takes a step other than the arrival of a frame: how many frames
\* of a source have still to be counted.
LEMMA PendingShrinks ==
  ASSUME IsFiniteSet(Cpus), NEW d \in Cpus, \A c \in Cpus \ {d} : cpu'[c] = cpu[c], NEW q,
         Due(cpu'[d], q) => Due(cpu[d], q) /\ cpu'[d].src = cpu[d].src
  PROVE  /\ \A ip \in Sources : Cardinality(Pending(ip, q)') <= Cardinality(Pending(ip, q))
         /\ \A ip : ip = cpu[d].src /\ Due(cpu[d], q) /\ ~Due(cpu'[d], q) =>
              Cardinality(Pending(ip, q)) = Cardinality(Pending(ip, q)') + 1
<1>1. ASSUME NEW ip \in Sources
      PROVE  Cardinality(Pending(ip, q)') <= Cardinality(Pending(ip, q))
    <2>1. Pending(ip, q)' \in SUBSET Pending(ip, q)
        BY DEF Pending, Due
    <2> QED BY <2>1, PendingType, FS_Subset
<1>2. ASSUME NEW ip, ip = cpu[d].src, Due(cpu[d], q), ~Due(cpu'[d], q)
      PROVE  Cardinality(Pending(ip, q)) = Cardinality(Pending(ip, q)') + 1
    <2> DEFINE P == Pending(ip, q)
               R == Pending(ip, q)'
    <2>1. d \in P
        BY <1>2 DEF Pending
    <2>2. R = P \ {d}
        BY <1>2 DEF Pending, Due
    <2>3. IsFiniteSet(P) /\ Cardinality(P) \in Nat
        BY PendingType
    <2> HIDE DEF P, R
    <2>4. Cardinality(P \ {d}) = Cardinality(P) - 1
        BY <2>1, <2>3, FS_RemoveElement
    <2>5. Cardinality(P) = Cardinality(R) + 1
        BY <2>2, <2>3, <2>4
    <2> QED BY <2>5 DEF P, R
<1> QED BY <1>1, <1>2

\* The uses of the elements that a step of d leaves: it reaches an element
\* only through a pointer it had, or through the map.
LEMMA UsesKept ==
  ASSUME NEW d \in Cpus, \A c \in Cpus \ {d} : cpu'[c] = cpu[c], elem' = elem, watch' = watch,
         cpu'[d].pc \in PointerPcs =>
           /\ cpu'[d].src = cpu[d].src
           /\ \/ cpu[d].pc \in PointerPcs /\ cpu'[d].s = cpu[d].s
              \/ cpu'[d].s = elem[cpu[d].src]
  PROVE  \A ip \in Sources, e \in Elements : UsedFor(ip, e)' => UsedFor(ip, e)
<1> SUFFICES ASSUME NEW ip \in Sources, NEW e \in Elements, UsedFor(ip, e)'
             PROVE  UsedFor(ip, e)
    OBVIOUS
<1>1. CASE elem[ip] = e \/ (watch.pc = "copy" /\ watch.key = ip /\ watch.e = e)
    BY <1>1 DEF UsedFor
<1>2. CASE \E c \in Cpus : cpu'[c].pc \in PointerPcs /\ cpu'[c].src = ip /\ cpu'[c].s = e
    <2> PICK c \in Cpus : cpu'[c].pc \in PointerPcs /\ cpu'[c].src = ip /\ cpu'[c].s = e
        BY <1>2
    <2>1. CASE c # d
        BY <2>1 DEF UsedFor
    <2>2. CASE c = d
        BY <2>2 DEF UsedFor
    <2> QED BY <2>1, <2>2
<1> QED BY <1>1, <1>2 DEF UsedFor

\* A step of d that is not the arrival of a frame: nothing is counted that
\* was not due, and what is stored was loaded before.
LEMMA EarnedStep ==
  ASSUME IsFiniteSet(Cpus), TypeOK, TypeOK', sent \in [Sources -> Nat], sent' = sent,
         NEW q \in Quantities, EarnedOK(q),
         NEW d \in Cpus, \A c \in Cpus \ {d} : cpu'[c] = cpu[c],
         NEW src \in Sources, src = cpu[d].src,
         Due(cpu'[d], q) => Due(cpu[d], q) /\ cpu'[d].src = src,
         Loaded(cpu'[d], q) =>
           /\ cpu'[d].src = src
           /\ \E e \in Elements : UsedFor(src, e) /\ cpu'[d].tmp = Count(stats[e], q),
         \A ip \in Sources, e \in Elements : UsedFor(ip, e)' =>
           \/ UsedFor(ip, e) /\ Count(stats'[e], q) <= Count(stats[e], q)
           \/ ip = src /\ Count(stats'[e], q) = 0
           \/ /\ ip = src /\ Due(cpu[d], q) /\ ~Due(cpu'[d], q)
              /\ \/ Count(stats'[e], q) = 1
                 \/ Loaded(cpu[d], q) /\ Count(stats'[e], q) = cpu[d].tmp + 1
  PROVE  EarnedOK(q)'
<1> DEFINE P(ip) == Cardinality(Pending(ip, q))
           N(ip) == Cardinality(Pending(ip, q)')
<1>1. \A ip \in Sources : /\ P(ip) \in Nat /\ N(ip) \in Nat /\ N(ip) <= P(ip)
                          /\ P(ip) <= sent[ip] /\ sent[ip] \in Nat
    BY PendingType, PendingShrinks DEF EarnedOK
<1>2. Due(cpu[d], q) /\ ~Due(cpu'[d], q) => P(src) = N(src) + 1
    BY PendingShrinks
<1>3. \A e \in Elements : Count(stats[e], q) \in Nat /\ Count(stats'[e], q) \in Nat
    BY CountType DEF TypeOK, StatsTypeOK
<1>4. \A c \in Cpus : cpu[c].tmp \in Nat /\ cpu'[c].tmp \in Nat
    BY DEF TypeOK, CpuState, CpuRecord
<1>5. \A ip \in Sources, e \in Elements : UsedFor(ip, e) => Count(stats[e], q) + P(ip) <= sent[ip]
    BY DEF EarnedOK
<1>6. \A c \in Cpus : Loaded(cpu[c], q) => cpu[c].tmp + P(cpu[c].src) <= sent[cpu[c].src]
    BY DEF EarnedOK
<1>7. \A c \in Cpus : Loaded(cpu[c], q) => cpu[c].src \in Sources
    BY DEF TypeOK, CpuState, Loaded
<1>8. ASSUME NEW ip \in Sources, NEW e \in Elements, UsedFor(ip, e)'
      PROVE  Count(stats'[e], q) + N(ip) <= sent[ip]
    <2> HIDE DEF P, N
    <2>1. CASE UsedFor(ip, e) /\ Count(stats'[e], q) <= Count(stats[e], q)
        <3>1. Count(stats[e], q) + P(ip) <= sent[ip]
            BY <1>5, <2>1
        <3> QED BY <1>1, <1>3, <2>1, <3>1
    <2>2. CASE Count(stats'[e], q) = 0
        BY <1>1, <2>2
    <2>3. CASE ip = src /\ Due(cpu[d], q) /\ ~Due(cpu'[d], q) /\ Count(stats'[e], q) = 1
        BY <1>1, <1>2, <2>3
    <2>4. CASE /\ ip = src /\ Due(cpu[d], q) /\ ~Due(cpu'[d], q)
               /\ Loaded(cpu[d], q) /\ Count(stats'[e], q) = cpu[d].tmp + 1
        <3>1. cpu[d].tmp + P(src) <= sent[src]
            BY <1>6, <2>4
        <3> QED BY <1>1, <1>2, <1>4, <2>4, <3>1
    <2> QED BY <1>8, <2>1, <2>2, <2>3, <2>4
<1>9. ASSUME NEW c \in Cpus, Loaded(cpu'[c], q), NEW ip \in Sources, ip = cpu'[c].src
      PROVE  cpu'[c].tmp + N(ip) <= sent[ip]
    <2> HIDE DEF P, N
    <2>1. CASE c # d
        <3>1. cpu[c].tmp + P(ip) <= sent[ip]
            BY <1>6, <1>9, <2>1
        <3> QED BY <1>1, <1>4, <2>1, <3>1
    <2>2. CASE c = d
        <3> PICK e \in Elements : UsedFor(src, e) /\ cpu'[d].tmp = Count(stats[e], q)
            BY <1>9, <2>2
        <3>1. ip = src /\ Count(stats[e], q) + P(ip) <= sent[ip]
            BY <1>5, <1>9, <2>2
        <3> QED BY <1>1, <1>3, <2>2, <3>1
    <2> QED BY <2>1, <2>2
<1>10. \A c \in Cpus : Loaded(cpu'[c], q) => cpu'[c].src \in Sources
    BY DEF TypeOK, CpuState, Loaded
<1>11. \A ip \in Sources : N(ip) <= sent[ip]
    <2> HIDE DEF P, N
    <2> QED BY <1>1
<1>12. \A c \in Cpus : (Loaded(cpu[c], q) =>
                         cpu[c].tmp + Cardinality(Pending(cpu[c].src, q)) <= sent[cpu[c].src])'
    <2> SUFFICES ASSUME NEW c \in Cpus, Loaded(cpu'[c], q)
                 PROVE  cpu'[c].tmp + Cardinality(Pending(cpu[c].src, q)') <= sent'[cpu'[c].src]
        OBVIOUS
    <2> PICK ip \in Sources : ip = cpu'[c].src
        BY <1>10
    <2>1. Pending(cpu[c].src, q)' = Pending(ip, q)'
        BY DEF Pending
    <2> QED BY <1>9, <2>1
<1> QED BY <1>8, <1>11, <1>12 DEF EarnedOK

\* A step of d that writes no statistics and loads no count.
LEMMA EarnedLook ==
  ASSUME IsFiniteSet(Cpus), TypeOK, TypeOK', sent \in [Sources -> Nat], sent' = sent,
         NEW q \in Quantities, EarnedOK(q),
         NEW d \in Cpus, \A c \in Cpus \ {d} : cpu'[c] = cpu[c], cpu[d].pc # "idle",
         elem' = elem, stats' = stats, watch' = watch,
         Due(cpu'[d], q) => Due(cpu[d], q) /\ cpu'[d].src = cpu[d].src,
         ~Loaded(cpu'[d], q),
         cpu'[d].pc \in PointerPcs => cpu'[d].src = cpu[d].src /\ cpu'[d].s = elem[cpu[d].src]
  PROVE  EarnedOK(q)'
<1>1. cpu[d].src \in Sources
    BY DEF TypeOK, CpuState
<1>2. \A ip \in Sources, e \in Elements : UsedFor(ip, e)' => UsedFor(ip, e)
    BY UsesKept
<1>3. \A e \in Elements : Count(stats[e], q) \in Nat
    BY CountType DEF TypeOK, StatsTypeOK
<1>4. \A e \in Elements : Count(stats'[e], q) <= Count(stats[e], q)
    BY <1>3
<1> QED BY <1>1, <1>2, <1>4, EarnedStep

\* A step of d through its pointer, which leaves v in the element: the count
\* is lowered or kept, or it is what d has loaded and one more.
LEMMA EarnedStore ==
  ASSUME IsFiniteSet(Cpus), TypeOK, TypeOK', NotShared, sent \in [Sources -> Nat], sent' = sent,
         NEW q \in Quantities, EarnedOK(q),
         NEW d \in Cpus, \A c \in Cpus \ {d} : cpu'[c] = cpu[c], cpu[d].pc \in PointerPcs,
         elem' = elem, watch' = watch,
         NEW v, stats' = [stats EXCEPT ![cpu[d].s] = v],
         cpu'[d].src = cpu[d].src, cpu'[d].s = cpu[d].s,
         Due(cpu'[d], q) => Due(cpu[d], q),
         Loaded(cpu'[d], q) => cpu'[d].tmp = Count(stats[cpu[d].s], q),
         \/ Count(v, q) = Count(stats[cpu[d].s], q)
         \/ Count(v, q) = 0
         \/ /\ Loaded(cpu[d], q) /\ Due(cpu[d], q) /\ ~Due(cpu'[d], q)
            /\ Count(v, q) = cpu[d].tmp + 1
  PROVE  EarnedOK(q)'
<1>1. cpu[d].src \in Sources /\ cpu[d].s \in Elements
    BY DEF TypeOK, CpuState, PointerPcs
<1> PICK src \in Sources, s \in Elements : src = cpu[d].src /\ s = cpu[d].s
    BY <1>1
<1>2. UsedFor(src, s)
    BY DEF UsedFor
<1>3. \A ip \in Sources, e \in Elements : UsedFor(ip, e)' => UsedFor(ip, e)
    BY UsesKept
<1>4. \A e \in Elements : Count(stats[e], q) \in Nat
    BY CountType DEF TypeOK, StatsTypeOK
<1>5. stats'[s] = v /\ \A e \in Elements \ {s} : stats'[e] = stats[e]
    BY DEF TypeOK, StatsTypeOK
<1>6. ASSUME NEW ip \in Sources, NEW e \in Elements, UsedFor(ip, e)'
      PROVE  \/ UsedFor(ip, e) /\ Count(stats'[e], q) <= Count(stats[e], q)
             \/ ip = src /\ Count(stats'[e], q) = 0
             \/ /\ ip = src /\ Due(cpu[d], q) /\ ~Due(cpu'[d], q)
                /\ Loaded(cpu[d], q) /\ Count(stats'[e], q) = cpu[d].tmp + 1
    <2>1. UsedFor(ip, e)
        BY <1>3, <1>6
    <2>2. CASE e # s
        BY <1>4, <1>5, <2>1, <2>2
    <2>3. CASE e = s
        <3>1. ip = src
            BY <1>2, <2>1, <2>3 DEF NotShared
        <3> QED BY <1>4, <1>5, <2>1, <2>3, <3>1
    <2> QED BY <2>2, <2>3
<1> QED BY <1>2, <1>6, EarnedStep

\* The frame that creates an entry is counted in it once.
LEMMA EarnedInsert ==
  ASSUME IsFiniteSet(Cpus), TypeOK, TypeOK', NotShared', sent \in [Sources -> Nat], sent' = sent,
         NEW q \in Quantities, EarnedOK(q), NEW d \in Cpus, InsertStats(d), watch' = watch
  PROVE  EarnedOK(q)'
<1>0. cpu[d].pc = "insert" /\ cpu[d].src \in Sources /\ cpu \in [Cpus -> CpuState]
    BY DEF InsertStats, TypeOK, CpuState
<1>1. cpu'[d].pc = "limit" /\ \A c \in Cpus \ {d} : cpu'[c] = cpu[c]
    BY <1>0 DEF InsertStats, CpuState, CpuRecord
<1> PICK src \in Sources : src = cpu[d].src
    BY <1>0
<1> PICK f \in LruCandidates(elem, Elements) :
       /\ elem' = [ip \in Sources |-> IF ip = cpu[d].src THEN f
                                      ELSE IF elem[ip] = f THEN Absent ELSE elem[ip]]
       /\ stats' = [stats EXCEPT ![f] = FirstStats(cpu[d].now, cpu[d].cls)]
    BY DEF InsertStats, LruAssign
<1>2. f \in Elements /\ Absent \notin Elements
    BY ProgAssumption DEF LruCandidates, LruFree, Elements, Absent
<1>3. stats'[f] = FirstStats(cpu[d].now, cpu[d].cls)
      /\ \A e \in Elements \ {f} : stats'[e] = stats[e]
    BY <1>2 DEF TypeOK, StatsTypeOK
<1>4. ~Due(cpu'[d], q) /\ ~Loaded(cpu'[d], q)
    BY <1>1 DEF Due, Loaded, Before
<1>5. \/ Count(stats'[f], q) = 0
      \/ Count(stats'[f], q) = 1 /\ Due(cpu[d], q)
    <2>1. CASE q = "packets"
        BY <1>0, <1>3, <2>1 DEF Count, FirstStats, Due, Before
    <2>2. CASE q \in L4Classes
        <3>1. Count(stats'[f], q) = One(q = cpu[d].cls)
            BY <1>3, <2>2 DEF Count, FirstStats, L4Classes
        <3> QED BY <1>0, <3>1 DEF One, Due, Before
    <2> QED BY <2>1, <2>2 DEF Quantities
<1>6. \A e \in Elements : Count(stats[e], q) \in Nat
    BY CountType DEF TypeOK, StatsTypeOK
<1>7. elem'[src] = f /\ UsedFor(src, f)'
    BY DEF UsedFor
<1>8. ASSUME NEW ip \in Sources, NEW e \in Elements, UsedFor(ip, e)'
      PROVE  \/ UsedFor(ip, e) /\ Count(stats'[e], q) <= Count(stats[e], q)
             \/ ip = src /\ Count(stats'[e], q) = 0
             \/ /\ ip = src /\ Due(cpu[d], q) /\ ~Due(cpu'[d], q)
                /\ Count(stats'[e], q) = 1
    <2>1. CASE e = f
        <3>1. ip = src
            BY <1>2, <1>7, <1>8, <2>1 DEF NotShared
        <3> QED BY <1>4, <1>5, <2>1, <3>1
    <2>2. CASE e # f
        <3>1. elem'[ip] = e => elem[ip] = e
            BY <1>2, <2>2
        <3>2. \A c \in Cpus : cpu'[c].pc \in PointerPcs => cpu'[c] = cpu[c]
            BY <1>1 DEF PointerPcs
        <3>3. UsedFor(ip, e)
            BY <1>8, <3>1, <3>2 DEF UsedFor
        <3> QED BY <1>3, <1>6, <2>2, <3>3
    <2> QED BY <2>1, <2>2
<1> QED BY <1>1, <1>4, <1>8, EarnedStep

\* The rules, the lookup of the statistics and the verdict.
LEMMA EarnedRules ==
  ASSUME IsFiniteSet(Cpus), TypeOK, TypeOK', sent \in [Sources -> Nat], sent' = sent,
         NEW q \in Quantities, EarnedOK(q), NEW d \in Cpus, watch' = watch,
         \/ LookupBlock(d) \/ TestBlock(d) \/ DeleteExpired(d) \/ LookupRange(d)
         \/ LookupStats(d) \/ Limit(d)
  PROVE  EarnedOK(q)'
<1>0. cpu \in [Cpus -> CpuState] /\ cpu[d] \in CpuRecord /\ Absent \notin Elements
    BY ProgAssumption DEF TypeOK, CpuState, Elements, Absent
<1>1. cpu[d].pc # "idle" /\ elem' = elem /\ stats' = stats
    BY DEF LookupBlock, TestBlock, DeleteExpired, LookupRange, LookupStats, Limit
<1>2. \A c \in Cpus \ {d} : cpu'[c] = cpu[c]
    BY OwnRegisters DEF fw_prog, Run
<1>3. CASE \E v : Return(d, v)
    <2>1. cpu'[d].pc = "idle"
        BY <1>0, <1>3 DEF Return, Idle
    <2>2. ~Due(cpu'[d], q) /\ ~Loaded(cpu'[d], q) /\ cpu'[d].pc \notin PointerPcs
        BY <2>1 DEF Due, Loaded, Before, PointerPcs
    <2> QED BY <1>1, <1>2, <2>2, EarnedLook
<1>4. ASSUME NEW pc \in {"test", "range", "expire", "stats"},
             NEW exp, cpu' = [cpu EXCEPT ![d].exp = exp, ![d].pc = pc],
             cpu[d].pc \in {"block", "test", "expire", "range"}
      PROVE  EarnedOK(q)'
    <2>1. cpu'[d].pc = pc /\ cpu'[d].src = cpu[d].src /\ cpu'[d].cls = cpu[d].cls
        BY <1>0, <1>4 DEF CpuRecord
    <2>2. (Due(cpu'[d], q) => Due(cpu[d], q)) /\ ~Loaded(cpu'[d], q)
          /\ cpu'[d].pc \notin PointerPcs
        BY <1>4, <2>1 DEF Due, Loaded, Before, PointerPcs
    <2> QED BY <1>1, <1>2, <2>1, <2>2, EarnedLook
<1>5. CASE LookupStats(d)
    <2>1. /\ cpu[d].pc = "stats" /\ cpu'[d].pc \in {"insert", "roll"}
          /\ cpu'[d].src = cpu[d].src /\ cpu'[d].cls = cpu[d].cls
          /\ cpu'[d].s = elem[cpu[d].src]
        BY <1>0, <1>5 DEF LookupStats, CpuRecord
    <2>2. (Due(cpu'[d], q) => Due(cpu[d], q)) /\ ~Loaded(cpu'[d], q)
        BY <2>1 DEF Due, Loaded, Before
    <2> QED BY <1>1, <1>2, <2>1, <2>2, EarnedLook
<1>6. CASE LookupBlock(d)
    BY <1>4, <1>6 DEF LookupBlock
<1>10. CASE TestBlock(d)
    BY <1>3, <1>4, <1>10 DEF TestBlock
<1>11. ASSUME NEW pc, cpu' = [cpu EXCEPT ![d].pc = pc]
       PROVE  cpu' = [cpu EXCEPT ![d].exp = cpu[d].exp, ![d].pc = pc]
    BY <1>0, <1>11 DEF CpuRecord, CpuState
<1>7. CASE DeleteExpired(d)
    BY <1>4, <1>7, <1>11 DEF DeleteExpired
<1>8. CASE LookupRange(d)
    BY <1>3, <1>4, <1>8, <1>11 DEF LookupRange
<1>9. CASE Limit(d)
    BY <1>3, <1>9 DEF Limit
<1> QED BY <1>5, <1>6, <1>7, <1>8, <1>9, <1>10

\* The steps through the pointer to the statistics.
LEMMA EarnedPointer ==
  ASSUME IsFiniteSet(Cpus), TypeOK, TypeOK', NotShared, sent \in [Sources -> Nat], sent' = sent,
         NEW q \in Quantities, EarnedOK(q), NEW d \in Cpus, watch' = watch,
         \/ CheckWindow(d) \/ ShiftWindow(d) \/ ResetWindow(d) \/ ClearClasses(d)
         \/ StartWindow(d) \/ StorePackets(d) \/ StoreL4(d) \/ ComputeRate(d)
  PROVE  EarnedOK(q)'
<1> DEFINE e == cpu[d].s
<1>0. cpu \in [Cpus -> CpuState] /\ cpu[d] \in CpuRecord /\ cpu[d].pc \in PointerPcs /\ elem' = elem
    BY DEF TypeOK, CpuState, PointerPcs, CheckWindow, ShiftWindow, ResetWindow, ClearClasses,
           StartWindow, StorePackets, StoreL4, ComputeRate
<1>1. e \in Elements /\ stats \in [Elements -> IpStats] /\ stats[e] \in IpStats
    BY <1>0 DEF TypeOK, StatsTypeOK, CpuState
<1>2. \A c \in Cpus \ {d} : cpu'[c] = cpu[c]
    BY OwnRegisters DEF fw_prog, Run
<1>3. q = "packets" \/ (q \in L4Classes /\ q # "packets")
    <2>1. q = "packets" \/ q \in L4Classes
        BY DEF Quantities
    <2>2. "packets" \notin L4Classes
        BY DEF L4Classes
    <2> QED BY <2>1, <2>2
<1>4. cpu[d].cls # "packets"
    BY <1>0 DEF CpuRecord, L4Classes
<1>5. CASE CheckWindow(d)
    <2>1. /\ cpu[d].pc = "roll" /\ cpu'[d].pc \in {"shift", "count"}
          /\ cpu'[d].src = cpu[d].src /\ cpu'[d].cls = cpu[d].cls /\ cpu'[d].s = e
          /\ cpu'[d].pc = "count" => cpu'[d].tmp = stats[e].packets
        BY <1>0, <1>5 DEF CheckWindow, CpuRecord
    <2>2. stats' = [stats EXCEPT ![e] = stats[e]]
        BY <1>1, <1>5 DEF CheckWindow
    <2>3. (Due(cpu'[d], q) => Due(cpu[d], q))
          /\ (Loaded(cpu'[d], q) => cpu'[d].tmp = Count(stats[e], q))
        BY <2>1 DEF Due, Loaded, Before, Count
    <2> QED BY <1>0, <1>2, <2>1, <2>2, <2>3, EarnedStore
<1>6. CASE ComputeRate(d)
    <2>1. /\ cpu[d].pc = "rate" /\ cpu'[d].pc = "limit"
          /\ cpu'[d].src = cpu[d].src /\ cpu'[d].s = e
        BY <1>0, <1>6 DEF ComputeRate, CpuRecord
    <2>2. stats' = [stats EXCEPT ![e] = stats[e]]
        BY <1>1, <1>6 DEF ComputeRate
    <2>3. ~Due(cpu'[d], q) /\ ~Loaded(cpu'[d], q)
        BY <2>1 DEF Due, Loaded, Before
    <2> QED BY <1>0, <1>2, <2>1, <2>2, <2>3, EarnedStore
<1>7. CASE ShiftWindow(d)
    <2> DEFINE v == [stats[e] EXCEPT !.prev_packets = stats[e].packets]
    <2>1. /\ cpu[d].pc = "shift" /\ cpu'[d].pc = "reset" /\ stats' = [stats EXCEPT ![e] = v]
          /\ cpu'[d].src = cpu[d].src /\ cpu'[d].cls = cpu[d].cls /\ cpu'[d].s = e
        BY <1>0, <1>7 DEF ShiftWindow, CpuRecord
    <2>2. Count(v, q) = Count(stats[e], q)
        BY <1>1 DEF Count, IpStats
    <2>3. (Due(cpu'[d], q) => Due(cpu[d], q)) /\ ~Loaded(cpu'[d], q)
        BY <2>1 DEF Due, Loaded, Before
    <2> HIDE DEF v
    <2> QED BY <1>0, <1>2, <2>1, <2>2, <2>3, EarnedStore
<1>8. CASE ResetWindow(d)
    <2> DEFINE v == PacketsCleared(stats[e])
    <2>1. /\ cpu[d].pc = "reset" /\ cpu'[d].pc = "clear" /\ stats' = [stats EXCEPT ![e] = v]
          /\ cpu'[d].src = cpu[d].src /\ cpu'[d].cls = cpu[d].cls /\ cpu'[d].s = e
        BY <1>0, <1>8 DEF ResetWindow, CpuRecord
    <2>2. Count(v, q) = 0 \/ Count(v, q) = Count(stats[e], q)
        BY <1>1, <1>3 DEF Count, IpStats, PacketsCleared
    <2>3. (Due(cpu'[d], q) => Due(cpu[d], q)) /\ ~Loaded(cpu'[d], q)
        BY <2>1 DEF Due, Loaded, Before
    <2> HIDE DEF v
    <2> QED BY <1>0, <1>2, <2>1, <2>2, <2>3, EarnedStore
<1>12. CASE ClearClasses(d)
    <2> DEFINE v == ClassesCleared(stats[e])
    <2>1. /\ cpu[d].pc = "clear" /\ cpu'[d].pc = "start" /\ stats' = [stats EXCEPT ![e] = v]
          /\ cpu'[d].src = cpu[d].src /\ cpu'[d].cls = cpu[d].cls /\ cpu'[d].s = e
        BY <1>0, <1>12 DEF ClearClasses, CpuRecord
    <2>2. Count(v, q) = 0 \/ Count(v, q) = Count(stats[e], q)
        BY <1>1, <1>3 DEF Count, IpStats, ClassesCleared
    <2>3. (Due(cpu'[d], q) => Due(cpu[d], q)) /\ ~Loaded(cpu'[d], q)
        BY <2>1 DEF Due, Loaded, Before
    <2> HIDE DEF v
    <2> QED BY <1>0, <1>2, <2>1, <2>2, <2>3, EarnedStore
<1>9. CASE StartWindow(d)
    <2> DEFINE v == [stats[e] EXCEPT !.window_start = cpu[d].now]
    <2>1. /\ cpu[d].pc = "start" /\ cpu'[d].pc = "count" /\ stats' = [stats EXCEPT ![e] = v]
          /\ cpu'[d].src = cpu[d].src /\ cpu'[d].cls = cpu[d].cls /\ cpu'[d].s = e
          /\ cpu'[d].tmp = stats[e].packets
        BY <1>0, <1>9 DEF StartWindow, CpuRecord
    <2>2. Count(v, q) = Count(stats[e], q)
        BY <1>1 DEF Count, IpStats
    <2>3. (Due(cpu'[d], q) => Due(cpu[d], q))
          /\ (Loaded(cpu'[d], q) => cpu'[d].tmp = Count(stats[e], q))
        BY <2>1 DEF Due, Loaded, Before, Count
    <2> HIDE DEF v
    <2> QED BY <1>0, <1>2, <2>1, <2>2, <2>3, EarnedStore
<1>10. CASE StorePackets(d)
    <2> DEFINE v == [stats[e] EXCEPT !.packets = cpu[d].tmp + 1]
    <2>1. /\ cpu[d].pc = "count" /\ stats' = [stats EXCEPT ![e] = v]
          /\ cpu'[d].src = cpu[d].src /\ cpu'[d].cls = cpu[d].cls /\ cpu'[d].s = e
          /\ cpu'[d].pc \in {"l4", "rate"}
          /\ cpu'[d].pc = "l4" => cpu'[d].tmp = stats[e].l4[cpu[d].cls]
        BY <1>0, <1>10 DEF StorePackets, CpuRecord
    <2>2. q = "packets" => /\ Count(v, q) = cpu[d].tmp + 1 /\ Loaded(cpu[d], q)
                           /\ Due(cpu[d], q) /\ ~Due(cpu'[d], q)
        BY <1>1, <1>4, <2>1 DEF Count, IpStats, Loaded, Due, Before
    <2>3. q # "packets" => Count(v, q) = Count(stats[e], q)
        BY <1>1 DEF Count, IpStats
    <2>4. (Due(cpu'[d], q) => Due(cpu[d], q))
          /\ (Loaded(cpu'[d], q) => cpu'[d].tmp = Count(stats[e], q))
        BY <1>3, <1>4, <2>1 DEF Due, Loaded, Before, Count
    <2> HIDE DEF v
    <2> QED BY <1>0, <1>2, <2>1, <2>2, <2>3, <2>4, EarnedStore
<1>11. CASE StoreL4(d)
    <2> DEFINE v == [stats[e] EXCEPT !.l4[cpu[d].cls] = cpu[d].tmp + 1]
    <2>1. /\ cpu[d].pc = "l4" /\ stats' = [stats EXCEPT ![e] = v]
          /\ cpu'[d].src = cpu[d].src /\ cpu'[d].cls = cpu[d].cls /\ cpu'[d].s = e
          /\ cpu'[d].pc = "rate"
        BY <1>0, <1>11 DEF StoreL4, CpuRecord
    <2>2. q = cpu[d].cls => /\ Count(v, q) = cpu[d].tmp + 1 /\ Loaded(cpu[d], q)
                            /\ Due(cpu[d], q)
        BY <1>1, <1>3, <1>4, <2>1 DEF Count, IpStats, Loaded, Due
    <2>3. q # cpu[d].cls => Count(v, q) = Count(stats[e], q)
        BY <1>1, <1>3 DEF Count, IpStats
    <2>4. ~Due(cpu'[d], q) /\ ~Loaded(cpu'[d], q)
        BY <2>1 DEF Due, Loaded, Before
    <2> HIDE DEF v
    <2> QED BY <1>0, <1>2, <2>1, <2>2, <2>3, <2>4, EarnedStore
<1> QED BY <1>5, <1>6, <1>7, <1>8, <1>9, <1>10, <1>11, <1>12

\* A step that is not a step of a CPU.
LEMMA EarnedQuiet ==
  ASSUME NEW q, EarnedOK(q), cpu' = cpu, stats' = stats, sent' = sent,
         \A ip \in Sources, e \in Elements : UsedFor(ip, e)' => UsedFor(ip, e)
  PROVE  EarnedOK(q)'
<1>1. \A ip : Pending(ip, q)' = Pending(ip, q)
    BY DEF Pending
<1> QED BY <1>1 DEF EarnedOK, Pending

\* The arrival of a frame: one more is sent, and at most one more is due.
LEMMA EarnedArrival ==
  ASSUME IsFiniteSet(Cpus), TypeOK, TypeOK', sent \in [Sources -> Nat],
         NEW q \in Quantities, EarnedOK(q), NEW d \in Cpus, NEW f \in Frames,
         ReceiveIpv4(d, f), Firewall
  PROVE  /\ EarnedOK(q)' /\ sent' \in [Sources -> Nat]
         /\ \A ip \in Sources : sent[ip] <= sent'[ip]
<1> PICK src \in Sources : src = f.src
    BY ProgAssumption DEF FrameType
<1>0. cpu \in [Cpus -> CpuState] /\ elem' = elem /\ stats' = stats /\ watch' = watch
    BY DEF TypeOK, ReceiveIpv4, Firewall
<1>1. /\ cpu[d].pc = "idle" /\ cpu'[d].pc = "block" /\ cpu'[d].src = src
      /\ \A c \in Cpus \ {d} : cpu'[c] = cpu[c]
    BY <1>0 DEF ReceiveIpv4
<1>2. ASSUME NEW ip \in Sources
      PROVE  /\ Cardinality(Arrivals(ip)) \in {0, 1}
             /\ ip = src => Cardinality(Arrivals(ip)) = 1
    <2>1. CASE ip = src
        <3>1. Arrivals(ip) = {d}
            BY <1>1, <2>1 DEF Arrivals
        <3> QED BY <3>1, FS_Singleton
    <2>2. CASE ip # src
        <3>1. Arrivals(ip) = {}
            BY <1>1, <2>2 DEF Arrivals
        <3> QED BY <2>2, <3>1, FS_EmptySet
    <2> QED BY <2>1, <2>2
<1>3. /\ sent' \in [Sources -> Nat] /\ sent'[src] = sent[src] + 1
      /\ \A ip \in Sources : sent[ip] <= sent'[ip]
    <2>1. sent' = [ip \in Sources |-> sent[ip] + Cardinality(Arrivals(ip))]
        BY DEF Firewall
    <2>2. \A ip \in Sources : sent'[ip] \in {sent[ip], sent[ip] + 1}
        BY <1>2, <2>1
    <2>3. sent'[src] = sent[src] + 1
        BY <1>2, <2>1
    <2> QED BY <2>1, <2>2, <2>3
<1> DEFINE P(ip) == Cardinality(Pending(ip, q))
           N(ip) == Cardinality(Pending(ip, q)')
<1>4. ~Due(cpu[d], q) /\ ~Loaded(cpu'[d], q) /\ cpu'[d].pc \notin PointerPcs
    BY <1>1 DEF Due, Loaded, Before, PointerPcs
<1>5. ASSUME NEW ip \in Sources
      PROVE  /\ P(ip) \in Nat /\ N(ip) \in Nat /\ sent[ip] \in Nat /\ sent'[ip] \in Nat
             /\ N(ip) + sent[ip] <= P(ip) + sent'[ip]
    <2>0. P(ip) \in Nat /\ N(ip) \in Nat /\ sent[ip] \in Nat /\ sent'[ip] \in Nat
        BY <1>3, PendingType
    <2>1. CASE ip = src
        <3> DEFINE A == Pending(ip, q)
                   B == Pending(ip, q)'
        <3>1. B \in SUBSET (A \cup {d}) /\ IsFiniteSet(A) /\ IsFiniteSet(B)
            <4>1. B \in SUBSET (A \cup {d})
                BY <1>1 DEF Pending
            <4>2. IsFiniteSet(A) /\ IsFiniteSet(B)
                BY PendingType
            <4> QED BY <4>1, <4>2
        <3> HIDE DEF A, B
        <3>2. IsFiniteSet(A \cup {d}) /\ Cardinality(A \cup {d}) \in {Cardinality(A), Cardinality(A) + 1}
            BY <3>1, FS_AddElement
        <3>3. Cardinality(B) <= Cardinality(A \cup {d})
            BY <3>1, <3>2, FS_Subset
        <3>4. N(ip) <= P(ip) + 1
            <4>1. Cardinality(A) \in Nat /\ Cardinality(B) \in Nat
                BY <3>1, FS_CardinalityType
            <4>2. Cardinality(B) <= Cardinality(A) + 1
                BY <3>2, <3>3, <4>1
            <4> QED BY <4>2 DEF A, B
        <3> HIDE DEF N, P
        <3> QED BY <1>3, <2>0, <2>1, <3>4
    <2>2. CASE ip # src
        <3>1. Pending(ip, q)' \in SUBSET Pending(ip, q)
            BY <1>1, <2>2 DEF Pending
        <3>2. N(ip) <= P(ip)
            BY <3>1, PendingType, FS_Subset
        <3>3. sent[ip] <= sent'[ip]
            BY <1>3
        <3> HIDE DEF N, P
        <3> QED BY <2>0, <3>2, <3>3
    <2> QED BY <2>1, <2>2
<1>6. \A ip \in Sources, e \in Elements : UsedFor(ip, e)' => UsedFor(ip, e)
    BY <1>0, <1>1, <1>4, UsesKept
<1>7. \A e \in Elements : Count(stats[e], q) \in Nat
    BY CountType DEF TypeOK, StatsTypeOK
<1>8. ASSUME NEW ip \in Sources PROVE N(ip) <= sent'[ip]
    <2>1. P(ip) <= sent[ip]
        BY DEF EarnedOK
    <2> HIDE DEF N, P
    <2> QED BY <1>5, <2>1
<1>9. ASSUME NEW ip \in Sources, NEW e \in Elements, UsedFor(ip, e)'
      PROVE  Count(stats'[e], q) + N(ip) <= sent'[ip]
    <2>1. Count(stats[e], q) + P(ip) <= sent[ip]
        BY <1>6, <1>9 DEF EarnedOK
    <2> HIDE DEF N, P
    <2> QED BY <1>0, <1>5, <1>7, <2>1
<1>10. \A c \in Cpus : (Loaded(cpu[c], q) =>
                         cpu[c].tmp + Cardinality(Pending(cpu[c].src, q)) <= sent[cpu[c].src])'
    <2> SUFFICES ASSUME NEW c \in Cpus, Loaded(cpu'[c], q)
                 PROVE  cpu'[c].tmp + Cardinality(Pending(cpu[c].src, q)') <= sent'[cpu'[c].src]
        OBVIOUS
    <2>1. cpu'[c] = cpu[c]
        BY <1>1, <1>4
    <2>2. cpu[c].src \in Sources /\ cpu[c].tmp \in Nat
        BY <2>1 DEF TypeOK, CpuState, CpuRecord, Loaded
    <2> PICK ip \in Sources : ip = cpu[c].src
        BY <2>2
    <2>3. cpu[c].tmp + P(ip) <= sent[ip]
        BY <2>1 DEF EarnedOK
    <2>4. cpu[c].tmp + N(ip) <= sent'[ip]
        <3> HIDE DEF N, P
        <3> QED BY <1>5, <2>2, <2>3
    <2>5. Pending(cpu[c].src, q)' = Pending(ip, q)'
        BY <2>1 DEF Pending
    <2> QED BY <2>1, <2>4, <2>5
<1>11. EarnedOK(q)'
    BY <1>8, <1>9, <1>10 DEF EarnedOK
<1> QED BY <1>3, <1>11

\* A step of the firewall that brings no frame.
LEMMA SentKept ==
  ASSUME Firewall, sent \in [Sources -> Nat], \A ip \in Sources : Arrivals(ip) = {}
  PROVE  sent' = sent
<1>1. \A ip \in Sources : Cardinality(Arrivals(ip)) = 0
    BY FS_EmptySet
<1>2. sent' = [ip \in Sources |-> sent[ip] + Cardinality(Arrivals(ip))]
    BY DEF Firewall
<1>3. \A ip \in Sources : sent'[ip] = sent[ip]
    BY <1>1, <1>2
<1> QED BY <1>2, <1>3

\* What the copy of watch holds stays earned while the firewall runs.
LEMMA CopyKept ==
  ASSUME WatchTypeOK, sent \in [Sources -> Nat], sent' \in [Sources -> Nat], CopyOK,
         watch' = watch, \A ip \in Sources : sent[ip] <= sent'[ip]
  PROVE  CopyOK'
<1> SUFFICES ASSUME watch.pc \in {"copy", "check", "ban"} PROVE CopyOK'
    BY DEF CopyOK
<1>1. watch.key \in Sources /\ watch.s \in IpStats
    BY DEF WatchTypeOK
<1>2. watch.s.packets \in Nat /\ \A k \in L4Classes : watch.s.l4[k] \in Nat
    BY <1>1 DEF IpStats
<1> PICK key \in Sources : key = watch.key
    BY <1>1
<1>3. sent[key] \in Nat /\ sent'[key] \in Nat /\ sent[key] <= sent'[key]
    OBVIOUS
<1>4. watch.s.packets <= sent'[key]
    <2>1. watch.s.packets <= sent[key]
        BY DEF CopyOK
    <2> QED BY <1>2, <1>3, <2>1
<1>5. ASSUME watch.pc \in {"check", "ban"}, NEW k \in L4Classes PROVE watch.s.l4[k] <= sent'[key]
    <2>1. watch.s.l4[k] <= sent[key]
        BY <1>5 DEF CopyOK
    <2> QED BY <1>2, <1>3, <2>1
<1> QED BY <1>4, <1>5 DEF CopyOK

\* The firewall keeps every count earned.
LEMMA EarnedFirewall ==
  ASSUME IsFiniteSet(Cpus), WatchTypeOK, WatchTypeOK', NotShared, NotShared', Earned, Firewall
  PROVE  Earned'
<1>0. TypeOK /\ TypeOK' /\ watch' = watch /\ sent \in [Sources -> Nat]
      /\ \A q \in Quantities : EarnedOK(q)
    BY DEF WatchTypeOK, Firewall, Earned
<1>1. ASSUME \A ip \in Sources : Arrivals(ip) = {},
             \A q \in Quantities : sent' = sent => EarnedOK(q)'
      PROVE  Earned'
    <2>1. sent' = sent
        BY <1>0, <1>1, SentKept
    <2>2. \A ip \in Sources : sent[ip] <= sent'[ip]
        <3>1. \A ip \in Sources : sent[ip] \in Nat
            BY <1>0
        <3> QED BY <2>1, <3>1
    <2>3. CopyOK'
        BY <1>0, <2>1, <2>2, CopyKept DEF Earned
    <2> QED BY <1>0, <1>1, <2>1, <2>3 DEF Earned
<1>2. CASE cpu' = cpu /\ stats' = stats /\ elem' = elem
    <2>1. \A ip \in Sources : Arrivals(ip) = {}
        BY <1>2 DEF Arrivals
    <2>2. \A ip \in Sources, e \in Elements : UsedFor(ip, e)' => UsedFor(ip, e)
        BY <1>0, <1>2 DEF UsedFor
    <2>3. \A q \in Quantities : sent' = sent => EarnedOK(q)'
        BY <1>0, <1>2, <2>2, EarnedQuiet
    <2> QED BY <1>1, <2>1, <2>3
<1>3. ASSUME NEW d \in Cpus, NEW f \in Frames, ReceiveIpv4(d, f) PROVE Earned'
    <2>1. /\ \A q \in Quantities : EarnedOK(q)'
          /\ sent' \in [Sources -> Nat] /\ \A ip \in Sources : sent[ip] <= sent'[ip]
        <3>1. \A q \in Quantities : /\ EarnedOK(q)' /\ sent' \in [Sources -> Nat]
                                    /\ \A ip \in Sources : sent[ip] <= sent'[ip]
            BY <1>0, <1>3, EarnedArrival
        <3>2. "packets" \in Quantities
            BY DEF Quantities
        <3> QED BY <3>1, <3>2
    <2>2. CopyOK'
        BY <1>0, <2>1, CopyKept DEF Earned
    <2> QED BY <2>1, <2>2 DEF Earned
<1>4. ASSUME NEW d \in Cpus, Run(d) PROVE Earned'
    <2>1. cpu[d].pc # "idle"
        BY <1>4 DEF Run, LookupBlock, TestBlock, DeleteExpired, LookupRange, LookupStats,
                    InsertStats, CheckWindow, ShiftWindow, ResetWindow, ClearClasses,
                    StartWindow, StorePackets, StoreL4, ComputeRate, Limit
    <2>2. \A c \in Cpus \ {d} : cpu'[c] = cpu[c]
        BY <1>0, <1>4, OwnRegisters DEF fw_prog
    <2>3. \A ip \in Sources : Arrivals(ip) = {}
        BY <2>1, <2>2 DEF Arrivals
    <2>4. ASSUME NEW q \in Quantities, sent' = sent PROVE EarnedOK(q)'
        BY <1>0, <1>4, <2>4, EarnedRules, EarnedInsert, EarnedPointer DEF Run
    <2> QED BY <1>1, <2>3, <2>4
<1>5. CASE Tick \/ Command
    BY <1>2, <1>5, OthersKeepStats
<1>6. ASSUME NEW d \in Cpus, NEW f \in Frames, ReceiveRunt(d, f) \/ ReceiveUnruled(d, f)
      PROVE  Earned'
    BY <1>2, <1>6 DEF ReceiveRunt, ReceiveUnruled
<1> QED BY <1>3, <1>4, <1>5, <1>6 DEF Firewall, Next, fw_prog, Receive

\* The watch process copies earned counts only.
LEMMA EarnedWatch ==
  ASSUME IsFiniteSet(Cpus), WatchTypeOK, Earned, cmd_watch \/ on_sig \/ UNCHANGED wvars
  PROVE  Earned'
<1>0. /\ TypeOK /\ sent' = sent /\ sent \in [Sources -> Nat] /\ CopyOK
      /\ \A q \in Quantities : EarnedOK(q)
    BY DEF WatchTypeOK, Earned, cmd_watch, StartPass, ReadStats, CopyClasses, CheckKey, BanKey,
           Advance, on_sig, watchIdle, wvars
<1>1. UNCHANGED <<elem, stats, cpu>>
    BY OthersKeepStats
<1>2. ASSUME NEW ip \in Sources, NEW e \in Elements, UsedFor(ip, e), NEW q \in Quantities
      PROVE  Count(stats[e], q) <= sent[ip]
    <2>1. Count(stats[e], q) + Cardinality(Pending(ip, q)) <= sent[ip]
        BY <1>0, <1>2 DEF EarnedOK
    <2>2. Count(stats[e], q) \in Nat /\ Cardinality(Pending(ip, q)) \in Nat /\ sent[ip] \in Nat
        BY <1>0, CountType, PendingType DEF TypeOK, StatsTypeOK
    <2> QED BY <2>1, <2>2
<1>3. ASSUME \A ip \in Sources, e \in Elements : UsedFor(ip, e)' => UsedFor(ip, e), CopyOK'
      PROVE  Earned'
    BY <1>0, <1>1, <1>3, EarnedQuiet DEF Earned
<1>4. CASE ReadStats
    <2>1. watch.key \in Sources /\ watch \in [pc : {"sleep", "read", "copy", "check", "ban", "next", "done"},
                key : Sources \cup {Absent}, e : Elements \cup {Absent}, s : IpStats]
        BY <1>4 DEF ReadStats, WatchTypeOK
    <2>2. \/ watch'.pc = "next"
          \/ /\ watch'.pc = "copy" /\ watch'.key = watch.key /\ watch'.e = elem[watch.key]
             /\ watch'.s = [stats[elem[watch.key]] EXCEPT !.l4 = NoStats.l4]
             /\ elem[watch.key] # Absent
        BY <1>4, <2>1 DEF ReadStats
    <2>3. \A ip \in Sources, e \in Elements : UsedFor(ip, e)' => UsedFor(ip, e)
        BY <1>1, <2>2 DEF UsedFor
    <2>4. CopyOK'
        <3>1. CASE watch'.pc = "next"
            BY <3>1 DEF CopyOK
        <3>2. CASE watch'.pc = "copy"
            <4> PICK key \in Sources : key = watch.key
                BY <2>1
            <4>1. elem[key] \in Elements /\ UsedFor(key, elem[key])
                BY <1>0, <2>2, <3>2 DEF UsedFor, TypeOK, StatsTypeOK
            <4>2. stats[elem[key]] \in IpStats
                BY <1>0, <4>1 DEF TypeOK, StatsTypeOK
            <4>3. watch'.s.packets = Count(stats[elem[key]], "packets")
                BY <2>2, <3>2, <4>2 DEF Count, IpStats
            <4>4. watch'.s.packets <= sent'[watch'.key]
                BY <1>0, <1>2, <2>2, <3>2, <4>1, <4>3 DEF Quantities
            <4> QED BY <3>2, <4>4 DEF CopyOK
        <3> QED BY <2>2, <3>1, <3>2
    <2> QED BY <1>3, <2>3, <2>4
<1>5. CASE CopyClasses
    <2>1. watch.key \in Sources /\ watch.e \in Elements /\ watch.s \in IpStats
          /\ watch.pc = "copy" /\ watch'.pc = "check" /\ watch'.key = watch.key
          /\ watch'.s = [watch.s EXCEPT !.l4 = stats[watch.e].l4]
        BY <1>5 DEF CopyClasses, WatchTypeOK
    <2>2. \A ip \in Sources, e \in Elements : UsedFor(ip, e)' => UsedFor(ip, e)
        BY <1>1, <2>1 DEF UsedFor
    <2>3. UsedFor(watch.key, watch.e)
        BY <2>1 DEF UsedFor
    <2>4. watch'.s.packets = watch.s.packets /\ watch'.s.l4 = stats[watch.e].l4
        BY <2>1 DEF IpStats
    <2>5. ASSUME NEW k \in L4Classes PROVE watch'.s.l4[k] <= sent[watch.key]
        <3>1. k \in Quantities /\ Count(stats[watch.e], k) = stats[watch.e].l4[k]
            <4>1. k # "packets"
                BY DEF L4Classes
            <4> QED BY <4>1 DEF Quantities, Count
        <3> QED BY <1>2, <2>1, <2>3, <2>4, <3>1
    <2>6. CopyOK'
        BY <1>0, <2>1, <2>4, <2>5 DEF CopyOK
    <2> QED BY <1>3, <2>2, <2>6
<1>6. CASE CheckKey \/ BanKey
    <2>1. /\ watch.pc \in {"check", "ban"} /\ watch'.pc \in {"ban", "next"}
          /\ watch'.pc = "ban" => watch'.key = watch.key /\ watch'.s = watch.s
        BY <1>6 DEF CheckKey, BanKey, WatchTypeOK
    <2>2. \A ip \in Sources, e \in Elements : UsedFor(ip, e)' => UsedFor(ip, e)
        BY <1>1, <2>1 DEF UsedFor
    <2>3. CopyOK'
        BY <1>0, <2>1 DEF CopyOK
    <2> QED BY <1>3, <2>2, <2>3
<1>7. CASE StartPass \/ Advance
    <2>1. watch'.pc \in {"sleep", "read", "done"}
        <3>1. \A k : GoTo(k).pc \in {"sleep", "read"}
            BY DEF GoTo, Asleep
        <3>2. [Asleep EXCEPT !.pc = "done"].pc = "done"
            BY DEF Asleep
        <3> QED BY <1>7, <3>1, <3>2 DEF StartPass, Advance
    <2>2. \A ip \in Sources, e \in Elements : UsedFor(ip, e)' => UsedFor(ip, e)
        BY <1>1, <2>1 DEF UsedFor
    <2>3. CopyOK'
        BY <2>1 DEF CopyOK
    <2> QED BY <1>3, <2>2, <2>3
<1>8. CASE on_sig \/ UNCHANGED wvars
    <2>1. watch' = watch
        BY <1>8 DEF on_sig, wvars
    <2> QED BY <1>0, <1>1, <1>3, <2>1 DEF UsedFor, CopyOK
<1> QED BY <1>4, <1>5, <1>6, <1>7, <1>8 DEF cmd_watch

\* Before the first frame nothing is counted.
LEMMA EarnedInit == ASSUME WInit PROVE Earned
<1>1. \A ip \in Sources, q \in Quantities : Cardinality(Pending(ip, q)) = 0
    <2>1. \A ip \in Sources, q \in Quantities : Pending(ip, q) = {}
        BY DEF WInit, Init, Idle, Pending, Due, Before
    <2> QED BY <2>1, FS_EmptySet
<1>2. \A ip \in Sources, e \in Elements : ~UsedFor(ip, e)
    BY ProgAssumption DEF WInit, Init, Idle, UsedFor, PointerPcs, Asleep, Elements, Absent
<1>3. \A c \in Cpus, q \in Quantities : ~Loaded(cpu[c], q)
    BY DEF WInit, Init, Idle, Loaded
<1>4. \A ip \in Sources : sent[ip] = 0
    BY DEF WInit
<1>5. sent \in [Sources -> Nat] /\ CopyOK
    BY DEF WInit, Asleep, CopyOK
<1>6. ASSUME NEW q \in Quantities PROVE EarnedOK(q)
    <2>1. \A ip \in Sources : Cardinality(Pending(ip, q)) <= sent[ip]
        BY <1>1, <1>4
    <2> QED BY <1>2, <1>3, <2>1 DEF EarnedOK
<1> QED BY <1>5, <1>6 DEF Earned

\* As long as no element is used for two sources, every ban is earned, for
\* any number of CPUs and whatever increments they lose.
THEOREM EarnedUnlessShared == WSpec /\ []NotShared => []BanIsEarned
<1>0. IsFiniteSet(Cpus)
    BY WatchAssumption
<1>1. WInit => Earned
    BY EarnedInit
<1>2. WatchTypeOK /\ WatchTypeOK' /\ NotShared /\ NotShared' /\ Earned /\ [WNext]_wvars => Earned'
    BY <1>0, EarnedFirewall, EarnedWatch DEF WNext
<1>3. Earned => BanIsEarned
    BY DEF Earned, CopyOK, BanIsEarned
<1> QED BY <1>1, <1>2, <1>3, WatchTypes, PTL DEF WSpec

-----------------------------------------------------------------------------
(* When no element is used for two sources.                                *)

\* Every source has an element of its own, and a pointer that CPU c or watch
\* has looked up is still the one in the map.
Mapped(c) ==
  /\ \A ip, jp \in Sources : elem[ip] # Absent /\ elem[ip] = elem[jp] => ip = jp
  /\ cpu[c].pc \in PointerPcs => elem[cpu[c].src] = cpu[c].s
  /\ cpu[c].pc = "insert" => elem[cpu[c].src] = Absent
  /\ watch.pc = "copy" => elem[watch.key] = watch.e

\* The only CPU keeps the pointers valid, as nothing is evicted.
LEMMA MappedRun ==
  ASSUME WatchTypeOK, Cardinality(Sources) <= MaxIps, NEW c \in Cpus, Mapped(c), fw_prog(c),
         watch' = watch
  PROVE  Mapped(c)'
<1>0. /\ TypeOK /\ cpu \in [Cpus -> CpuState] /\ cpu[c] \in CpuRecord
      /\ Absent \notin Elements
      /\ cpu[c].pc # "idle" => cpu[c].src \in Sources
      /\ elem \in [Sources -> Elements \cup {Absent}]
    BY ProgAssumption DEF WatchTypeOK, TypeOK, StatsTypeOK, CpuState, Elements, Absent
<1>1. CASE InsertStats(c)
    <2>1. cpu[c].pc = "insert" /\ elem[cpu[c].src] = Absent /\ cpu'[c].pc = "limit"
        BY <1>0, <1>1 DEF InsertStats, Mapped, CpuRecord
    <2> PICK src \in Sources : src = cpu[c].src
        BY <1>0, <2>1
    <2>2. LruFree(elem, Elements) # {}
        BY <1>0, <2>1, RoomForSource
    <2> PICK f \in LruFree(elem, Elements) :
          elem' = [ip \in Sources |-> IF ip = cpu[c].src THEN f
                                      ELSE IF elem[ip] = f THEN Absent ELSE elem[ip]]
        BY <1>1, <2>2 DEF InsertStats, LruCandidates, LruAssign
    <2>3. f \in Elements /\ \A ip \in Sources : elem[ip] # f
        BY DEF LruFree
    <2>4. elem' = [elem EXCEPT ![src] = f]
        BY <1>0, <2>3
    <2>5. \A ip, jp \in Sources : elem'[ip] # Absent /\ elem'[ip] = elem'[jp] => ip = jp
        BY <1>0, <2>3, <2>4 DEF Mapped
    <2>6. watch.pc = "copy" => watch.key \in Sources /\ watch.e \in Elements
        BY DEF WatchTypeOK
    <2>7. watch'.pc = "copy" => elem'[watch'.key] = watch'.e
        BY <1>0, <2>1, <2>3, <2>4, <2>6 DEF Mapped
    <2> QED BY <2>1, <2>5, <2>7 DEF Mapped, PointerPcs
<1>2. ASSUME elem' = elem,
             cpu'[c].pc = "insert" => elem[cpu'[c].src] = Absent,
             cpu'[c].pc \in PointerPcs => elem[cpu'[c].src] = cpu'[c].s
      PROVE  Mapped(c)'
    BY <1>2 DEF Mapped
<1>3. CASE Receive(c)
    <2>1. elem' = elem /\ (cpu' = cpu \/ cpu'[c].pc = "block")
        BY <1>0, <1>3 DEF Receive, ReceiveRunt, ReceiveUnruled, ReceiveIpv4
    <2> QED BY <1>2, <2>1 DEF Mapped, PointerPcs
<1>4. CASE \/ LookupBlock(c) \/ TestBlock(c) \/ LookupRange(c) \/ Limit(c)
           \/ DeleteExpired(c)
    <2>1. elem' = elem
        BY <1>4 DEF LookupBlock, TestBlock, LookupRange, Limit, DeleteExpired
    <2>2. cpu'[c].pc \in {"idle", "test", "range", "expire", "stats"}
        BY <1>0, <1>4, RulesMove
    <2> QED BY <1>2, <2>1, <2>2 DEF PointerPcs
<1>5. CASE LookupStats(c)
    <2>1. /\ elem' = elem /\ cpu'[c].src = cpu[c].src /\ cpu'[c].s = elem[cpu[c].src]
          /\ cpu'[c].pc = IF elem[cpu[c].src] = Absent THEN "insert" ELSE "roll"
        BY <1>0, <1>5 DEF LookupStats, CpuRecord
    <2> QED BY <1>2, <2>1 DEF PointerPcs
<1>6. ASSUME elem' = elem, cpu[c].pc \in PointerPcs, cpu'[c].pc \in Pcs \ {"insert"},
             cpu'[c].src = cpu[c].src, cpu'[c].s = cpu[c].s
      PROVE  Mapped(c)'
    BY <1>2, <1>6 DEF Mapped
<1>7. CASE CheckWindow(c)
    BY <1>0, <1>6, <1>7 DEF CheckWindow, CpuRecord, PointerPcs, Pcs
<1>8. CASE ShiftWindow(c) \/ ResetWindow(c) \/ ClearClasses(c)
    BY <1>0, <1>6, <1>8 DEF ShiftWindow, ResetWindow, ClearClasses, CpuRecord, PointerPcs, Pcs
<1>9. CASE StartWindow(c)
    BY <1>0, <1>6, <1>9 DEF StartWindow, CpuRecord, PointerPcs, Pcs
<1>10. CASE StorePackets(c)
    BY <1>0, <1>6, <1>10 DEF StorePackets, CpuRecord, PointerPcs, Pcs
<1>11. CASE StoreL4(c)
    BY <1>0, <1>6, <1>11 DEF StoreL4, CpuRecord, PointerPcs, Pcs
<1>12. CASE ComputeRate(c)
    BY <1>0, <1>6, <1>12 DEF ComputeRate, CpuRecord, PointerPcs, Pcs
<1> QED BY <1>1, <1>3, <1>4, <1>5, <1>7, <1>8, <1>9, <1>10, <1>11, <1>12 DEF fw_prog, Run

\* One CPU, and a statistics map with an element for every source.
LEMMA MappedStep ==
  ASSUME WatchTypeOK, Cardinality(Sources) <= MaxIps, NEW c, Cpus = {c}, Mapped(c), [WNext]_wvars
  PROVE  Mapped(c)'
<1>1. CASE Firewall /\ fw_prog(c)
    BY <1>1, MappedRun DEF Firewall
<1>3. CASE UNCHANGED <<elem, stats, cpu>> /\ (watch' = watch \/ watch'.pc # "copy")
    BY <1>3 DEF Mapped
<1>4. CASE ReadStats
    <2>1. watch'.pc = "copy" => elem[watch'.key] = watch'.e
        BY <1>4 DEF ReadStats, WatchTypeOK
    <2>2. UNCHANGED <<elem, stats, cpu>>
        BY <1>4, OthersKeepStats DEF cmd_watch
    <2> QED BY <2>1, <2>2 DEF Mapped
<1>5. CASE StartPass \/ Advance
    <2>1. \A k : GoTo(k).pc # "copy" /\ [Asleep EXCEPT !.pc = "done"].pc # "copy"
        BY DEF GoTo, Asleep
    <2>2. watch'.pc # "copy"
        BY <1>5, <2>1 DEF StartPass, Advance
    <2> QED BY <1>3, <1>5, <2>2, OthersKeepStats DEF cmd_watch
<1>6. CASE CopyClasses \/ CheckKey \/ BanKey
    <2>1. watch'.pc # "copy"
        BY <1>6 DEF CopyClasses, CheckKey, BanKey, WatchTypeOK
    <2> QED BY <1>3, <1>6, <2>1, OthersKeepStats DEF cmd_watch
<1>7. CASE on_sig \/ UNCHANGED wvars \/ (Firewall /\ (Tick \/ Command))
    <2>1. watch' = watch
        BY <1>7 DEF on_sig, wvars, Firewall
    <2> QED BY <1>3, <1>7, <2>1, OthersKeepStats
<1> QED BY <1>1, <1>4, <1>5, <1>6, <1>7 DEF WNext, Firewall, Next, cmd_watch

\* A source is banned only on numbers it has reached itself: always when the
\* frames have one source, on however many CPUs they race; and for any
\* number of sources when one CPU receives them and none is ever evicted.
THEOREM BansEarned ==
  ASSUME \/ \E ip : Sources = {ip}
         \/ OneCpu /\ Cardinality(Sources) <= MaxIps
  PROVE  WSpec => []BanIsEarned
<1>1. CASE \E ip : Sources = {ip}
    <2>1. NotShared
        BY <1>1 DEF NotShared
    <2>2. []NotShared
        BY <2>1, PTL
    <2> QED BY <2>2, EarnedUnlessShared, PTL
<1>2. CASE OneCpu /\ Cardinality(Sources) <= MaxIps
    <2> PICK c : Cpus = {c}
        BY <1>2 DEF OneCpu
    <2>2. WInit => Mapped(c)
        BY DEF WInit, Init, Idle, Asleep, Mapped, PointerPcs
    <2>3. WatchTypeOK /\ Mapped(c) /\ [WNext]_wvars => Mapped(c)'
        BY <1>2, MappedStep
    <2>4. WatchTypeOK /\ Mapped(c) => NotShared
        <3> SUFFICES ASSUME Mapped(c), NEW ip \in Sources, NEW jp \in Sources, NEW e \in Elements,
                            UsedFor(ip, e), UsedFor(jp, e)
                     PROVE  ip = jp
            BY DEF NotShared
        <3>1. \A kp \in Sources : UsedFor(kp, e) => elem[kp] = e
            BY DEF UsedFor, Mapped
        <3>2. e # Absent
            BY ProgAssumption DEF Elements, Absent
        <3> QED BY <3>1, <3>2 DEF Mapped
    <2>5. WSpec => []NotShared
        BY <2>2, <2>3, <2>4, WatchTypes, PTL DEF WSpec
    <2> QED BY <2>5, EarnedUnlessShared, PTL
<1> QED BY <1>1, <1>2
-----------------------------------------------------------------------------
(* The walk of cmd_watch implements FwWalk.                                *)

\* No element of an LRU hash has two keys.
OneOwner(m) == \A x, y \in Sources : m[x] # Absent /\ m[x] = m[y] => x = y

KeysOwn == OneOwner(elem) /\ OneOwner(blockElem)

\* An LRU hash has a free element exactly if it has fewer keys than elements.
LEMMA OwnersFill ==
  ASSUME NEW n \in Nat, NEW m \in [Sources -> (1..n) \cup {Absent}], OneOwner(m)
  PROVE  Cardinality(Used(m)) < n <=> LruFree(m, 1..n) # {}
<1> DEFINE f == [k \in Used(m) |-> m[k]]
<1>1. f \in Injection(Used(m), 1..n)
    BY DEF Injection, IsInjective, Used, OneOwner
<1>2. f \in Surjection(Used(m), 1..n) <=> LruFree(m, 1..n) = {}
    <2>1. Absent \notin 1..n
        BY DEF Absent
    <2> QED BY <2>1 DEF Surjection, LruFree, Used
<1>3. IsFiniteSet(1..n) /\ Cardinality(1..n) = n
    BY FS_Interval
<1> HIDE DEF f
<1>4. /\ IsFiniteSet(Used(m)) /\ Cardinality(Used(m)) <= n
      /\ Cardinality(Used(m)) = n <=> f \in Surjection(Used(m), 1..n)
    BY <1>1, <1>3, FS_Injection
<1>5. Cardinality(Used(m)) \in Nat
    BY <1>4, FS_CardinalityType
<1> QED BY <1>2, <1>4, <1>5

\* FwWalk counts as everybody does.
LEMMA SameCardinality == \A S : Walk!Cardinality(S) = Cardinality(S)
  BY DEF Walk!Cardinality, Cardinality

\* What an update does to the keys is what FwWalk says.
LEMMA AssignKeys ==
  ASSUME NEW n \in Nat \ {0}, NEW m \in [Sources -> (1..n) \cup {Absent}], OneOwner(m),
         NEW k \in Sources, NEW e \in LruCandidates(m, 1..n)
  PROVE  /\ Used(LruAssign(m, k, e)) \in Walk!LruInsert(Used(m), n, k)
         /\ OneOwner(LruAssign(m, k, e))
<1>0. e \in 1..n /\ e # Absent /\ Absent \notin 1..n
    BY DEF LruCandidates, LruFree, Absent
<1>1. OneOwner(LruAssign(m, k, e))
    BY <1>0 DEF OneOwner, LruAssign
<1>2. CASE LruFree(m, 1..n) # {}
    <2>1. \A ip \in Sources : m[ip] # e
        BY <1>2 DEF LruCandidates, LruFree
    <2>2. Used(LruAssign(m, k, e)) = Used(m) \cup {k}
        BY <1>0, <2>1 DEF Used, LruAssign
    <2>3. Cardinality(Used(m)) < n
        BY <1>2, OwnersFill
    <2> QED BY <1>1, <2>2, <2>3, SameCardinality DEF Walk!LruInsert
<1>3. CASE LruFree(m, 1..n) = {}
    <2>1. PICK x \in Sources : m[x] = e
        BY <1>0, <1>3 DEF LruFree
    <2>2. x \in Used(m) /\ \A y \in Sources : m[y] = e => y = x
        BY <1>0, <2>1 DEF Used, OneOwner
    <2>3. Used(LruAssign(m, k, e)) = (Used(m) \ {x}) \cup {k}
        BY <1>0, <2>1, <2>2 DEF Used, LruAssign
    <2>4. ~(Cardinality(Used(m)) < n)
        BY <1>3, OwnersFill
    <2> QED BY <1>1, <2>2, <2>3, <2>4, SameCardinality DEF Walk!LruInsert
<1> QED BY <1>1, <1>2, <1>3

\* A deletion removes its key.
LEMMA DeleteKeys ==
  ASSUME NEW T, NEW m \in [Sources -> T], OneOwner(m), NEW k \in Sources
  PROVE  /\ Used([m EXCEPT ![k] = Absent]) = Used(m) \ {k}
         /\ OneOwner([m EXCEPT ![k] = Absent])
  BY DEF Used, OneOwner

\* A block, by a command or by watch, changes the keys of the block list as
\* FwWalk says.
LEMMA WalkBlock ==
  ASSUME TypeOK, KeysOwn, NEW k \in Sources, NEW sec, block_ip(k, sec), elem' = elem
  PROVE  KeysOwn' /\ Used(blockElem)' \in Walk!LruInsert(Used(blockElem), MaxBlock, k)
<1>1. blockElem \in [Sources -> (1..MaxBlock) \cup {Absent}] /\ MaxBlock \in Nat \ {0}
    BY ProgAssumption DEF TypeOK, RulesTypeOK, BlockElements
<1>2. PICK e \in LruCandidates(blockElem, 1..MaxBlock) : blockElem' = LruAssign(blockElem, k, e)
    BY DEF block_ip, BlockElements
<1> QED BY <1>1, <1>2, AssignKeys DEF KeysOwn

\* The firewall changes the keys of the two maps as FwWalk says.
LEMMA WalkFirewall ==
  ASSUME TypeOK, KeysOwn, [Next]_vars
  PROVE  /\ KeysOwn'
         /\ \/ Used(elem)' = Used(elem) /\ Used(blockElem)' = Used(blockElem)
            \/ \E k \in Sources :
                 /\ Used(elem)' \in Walk!LruInsert(Used(elem), MaxIps, k)
                 /\ Used(blockElem)' = Used(blockElem)
            \/ \E k \in Sources :
                 /\ Used(blockElem)' \in Walk!LruInsert(Used(blockElem), MaxBlock, k)
                 /\ Used(elem)' = Used(elem)
            \/ \E k \in Used(blockElem) :
                 /\ Used(blockElem)' = Used(blockElem) \ {k}
                 /\ Used(elem)' = Used(elem)
<1>0. /\ elem \in [Sources -> (1..MaxIps) \cup {Absent}] /\ MaxIps \in Nat \ {0}
      /\ blockElem \in [Sources -> (1..MaxBlock) \cup {Absent}] /\ MaxBlock \in Nat \ {0}
      /\ Used(blockElem) \subseteq Sources
    BY ProgAssumption DEF TypeOK, StatsTypeOK, RulesTypeOK, Elements, BlockElements, Used
<1>1. CASE elem' = elem /\ blockElem' = blockElem
    BY <1>1 DEF KeysOwn
<1>2. ASSUME NEW c \in Cpus, InsertStats(c) PROVE
        /\ KeysOwn' /\ blockElem' = blockElem
        /\ \E k \in Sources : Used(elem)' \in Walk!LruInsert(Used(elem), MaxIps, k)
    <2>1. cpu[c].src \in Sources
        BY <1>2 DEF InsertStats, TypeOK, CpuState
    <2>2. PICK e \in LruCandidates(elem, 1..MaxIps) : elem' = LruAssign(elem, cpu[c].src, e)
        BY <1>2 DEF InsertStats, Elements
    <2>3. /\ Used(elem)' \in Walk!LruInsert(Used(elem), MaxIps, cpu[c].src)
          /\ OneOwner(elem')
        BY <1>0, <2>1, <2>2, AssignKeys DEF KeysOwn
    <2>4. blockElem' = blockElem
        BY <1>2 DEF InsertStats, maps
    <2> QED BY <2>1, <2>3, <2>4 DEF KeysOwn
<1>3. ASSUME NEW k \in Sources, blockElem' = [blockElem EXCEPT ![k] = Absent], elem' = elem PROVE
        /\ KeysOwn' /\ Used(blockElem)' = Used(blockElem) \ {k}
    BY <1>0, <1>3, DeleteKeys DEF KeysOwn
<1>4. ASSUME NEW c \in Cpus, DeleteExpired(c)
      PROVE  /\ KeysOwn' /\ Used(elem)' = Used(elem)
             /\ \/ Used(blockElem)' = Used(blockElem)
                \/ \E k \in Used(blockElem) : Used(blockElem)' = Used(blockElem) \ {k}
    <2>1. cpu[c].src \in Sources /\ elem' = elem
          /\ blockElem' = [blockElem EXCEPT ![cpu[c].src] = Absent]
        BY <1>4 DEF DeleteExpired, TypeOK, CpuState
    <2>2. KeysOwn' /\ Used(blockElem)' = Used(blockElem) \ {cpu[c].src}
        BY <1>3, <2>1
    <2> QED BY <2>1, <2>2
<1>5. ASSUME NEW k \in Sources, cmd_unblock(k)
      PROVE  /\ KeysOwn' /\ Used(elem)' = Used(elem) /\ k \in Used(blockElem)
             /\ Used(blockElem)' = Used(blockElem) \ {k}
    <2>1. elem' = elem /\ blockElem[k] # Absent /\ blockElem' = [blockElem EXCEPT ![k] = Absent]
        BY <1>5 DEF cmd_unblock, dataPlane
    <2> QED BY <1>0, <1>3, <2>1 DEF Used
<1>6. ASSUME NEW k \in Sources, NEW sec \in BanSecs, cmd_block(k, sec)
      PROVE  /\ KeysOwn' /\ Used(elem)' = Used(elem)
             /\ Used(blockElem)' \in Walk!LruInsert(Used(blockElem), MaxBlock, k)
    BY <1>6, WalkBlock DEF cmd_block, dataPlane
<1>7. ASSUME NEW c \in Cpus, fw_prog(c), ~InsertStats(c), ~DeleteExpired(c)
      PROVE  elem' = elem /\ blockElem' = blockElem
    BY <1>7 DEF fw_prog, Receive, ReceiveRunt, ReceiveUnruled, ReceiveIpv4, Run, LookupBlock,
                TestBlock, LookupRange, LookupStats, CheckWindow, ShiftWindow,
                ResetWindow, ClearClasses, StartWindow, StorePackets, StoreL4, ComputeRate,
                Limit, maps
<1>8. CASE Tick \/ UNCHANGED vars
    BY <1>1, <1>8 DEF Tick, vars, maps
<1>9. CASE Command
    <2>1. CASE \E ip \in Sources, sec \in BanSecs : cmd_block(ip, sec)
        BY <1>6, <2>1
    <2>2. CASE \E ip \in Sources : cmd_unblock(ip)
        BY <1>5, <2>2
    <2>3. CASE elem' = elem /\ blockElem' = blockElem
        BY <1>1, <2>3
    <2> QED BY <1>9, <2>1, <2>2, <2>3
            DEF Command, cmd_range, cmd_unrange, Ratelimit, SetEnabled, dataPlane
<1>10. CASE \E c \in Cpus : fw_prog(c)
    BY <1>1, <1>2, <1>4, <1>7, <1>10
<1> QED BY <1>8, <1>9, <1>10 DEF Next
\* GoTo leads both to the same place.
LEMMA SameGoTo ==
  ASSUME NEW k
  PROVE  /\ GoTo(k).pc = IF k = Absent THEN "sleep" ELSE "read"
         /\ GoTo(k).key = k
  BY DEF GoTo, Asleep

\* A step of cmd_watch is a step of FwWalk.
LEMMA WalkStep ==
  ASSUME WatchTypeOK, KeysOwn, cmd_watch
  PROVE  KeysOwn' /\ Walk!Step
<1>0. TypeOK /\ ProcessOK(watch)
    BY DEF WatchTypeOK, ProcessOK
<1>1. CASE StartPass
    <2>1. UNCHANGED <<elem, blockElem, running>> /\ watch.pc = "sleep"
        BY <1>1 DEF StartPass, vars, maps, watchIdle
    <2>2. CASE running
        <3>1. watch' = GoTo(Walk!FirstKey)
            BY <1>1, <2>2 DEF StartPass
        <3>2. Walk!GoTo(Walk!FirstKey) /\ watch'.pc # "check"
            BY <3>1, SameGoTo DEF Walk!GoTo
        <3> QED BY <2>1, <2>2, <3>2 DEF KeysOwn, Walk!Step, Walk!StartPass, Walk!others
    <2>3. CASE ~running
        <3>1. watch'.pc = "done" /\ watch'.key = Absent
            BY <1>1, <2>3 DEF StartPass, Asleep
        <3> QED BY <2>1, <2>3, <3>1, <1>0 DEF KeysOwn, Walk!Step, Walk!StartPass, Walk!others
    <2> QED BY <2>2, <2>3
<1>2. CASE Advance
    <2>1. UNCHANGED <<elem, blockElem, running>> /\ watch.pc = "next"
        BY <1>2 DEF Advance, vars, maps, watchIdle
    <2>2. watch' = GoTo(Walk!NextKey(watch.key))
        BY <1>2 DEF Advance
    <2>3. Walk!GoTo(Walk!NextKey(watch.key)) /\ watch'.pc # "check"
        BY <2>2, SameGoTo DEF Walk!GoTo
    <2> QED BY <2>1, <2>3 DEF KeysOwn, Walk!Step, Walk!Advance, Walk!others
<1>3. CASE ReadStats
    <2>1. UNCHANGED <<elem, blockElem, running>> /\ watch.pc = "read" /\ watch.key \in Sources
        BY <1>0, <1>3 DEF ReadStats, vars, maps, ProcessOK
    <2>2. /\ watch'.key = watch.key
          /\ watch'.pc = IF watch.key \in Used(elem) THEN "copy" ELSE "next"
        BY <1>0, <1>3, <2>1 DEF ReadStats, Used, ProcessOK, TypeOK, StatsTypeOK
    <2>3. watch'.pc # "check"
        BY <2>2
    <2> QED BY <2>1, <2>2, <2>3 DEF KeysOwn, Walk!Step, Walk!Read, Walk!others
<1>4. CASE CopyClasses
    <2>1. UNCHANGED <<elem, blockElem, running>> /\ watch.pc = "copy"
        BY <1>4 DEF CopyClasses, vars, maps
    <2>2. watch'.key = watch.key /\ watch'.pc = "check"
        BY <1>0, <1>4 DEF CopyClasses, ProcessOK
    <2> QED BY <2>1, <2>2 DEF KeysOwn, Walk!Step, Walk!Copy, Walk!others
<1>5. CASE CheckKey
    <2>1. UNCHANGED <<elem, blockElem, running>> /\ watch.pc = "check" /\ watch.key \in Sources
        BY <1>0, <1>5 DEF CheckKey, vars, maps, watchIdle, ProcessOK
    <2>2. blocklist[watch.key] = Absent <=> watch.key \notin Used(blockElem)
        <3>1. blockElem[watch.key] # Absent => blockExp[blockElem[watch.key]] \in Nat
            BY <1>0, <2>1 DEF TypeOK, RulesTypeOK
        <3>2. DOMAIN blockElem = Sources
            BY <1>0 DEF TypeOK, RulesTypeOK
        <3> QED BY <2>1, <3>1, <3>2 DEF blocklist, Used, Absent
    <2>3. /\ watch'.key = watch.key
          /\ watch'.pc = IF watch.key \notin Used(blockElem) /\ Match(watch.s) THEN "ban" ELSE "next"
        BY <1>0, <1>5, <2>2 DEF CheckKey, ProcessOK
    <2>4. watch'.pc # "check"
        BY <2>3
    <2> QED BY <2>1, <2>3, <2>4 DEF KeysOwn, Walk!Step, Walk!Check, Walk!others
<1>6. CASE BanKey
    <2>1. UNCHANGED <<elem, running>> /\ watch.pc = "ban" /\ watch.key \in Sources
        BY <1>0, <1>6 DEF BanKey, dataPlane, ProcessOK
    <2>2. watch'.key = watch.key /\ watch'.pc = "next"
        BY <1>0, <1>6 DEF BanKey, ProcessOK
    <2>3. KeysOwn' /\ Used(blockElem)' \in Walk!LruInsert(Used(blockElem), MaxBlock, watch.key)
        BY <1>0, <1>6, <2>1, WalkBlock DEF BanKey
    <2> QED BY <2>1, <2>2, <2>3 DEF Walk!Step, Walk!Ban
<1> QED BY <1>1, <1>2, <1>3, <1>4, <1>5, <1>6 DEF cmd_watch

\* cmd_watch beside the firewall does step by step what FwWalk says, for any
\* number of sources and elements: what FwWalk promises of a walk under endless
\* traffic is about cmd_watch.
THEOREM WalkImplemented == WSpec => Walk!Init /\ [][Walk!Next]_(Walk!vars)
<1>1. WInit => Walk!Init /\ KeysOwn
    <2> SUFFICES ASSUME WInit PROVE Walk!Init /\ KeysOwn
        OBVIOUS
    <2>1. /\ elem = [ip \in Sources |-> Absent] /\ blockElem = [ip \in Sources |-> Absent]
          /\ running = TRUE /\ watch = Asleep
        BY DEF WInit, Init
    <2>2. Used(elem) = {} /\ Used(blockElem) = {} /\ KeysOwn
        BY <2>1 DEF Used, KeysOwn, OneOwner
    <2> QED BY <2>1, <2>2 DEF Walk!Init, Asleep
<1>2. WatchTypeOK /\ KeysOwn /\ [WNext]_wvars => KeysOwn' /\ [Walk!Next]_(Walk!vars)
    <2> SUFFICES ASSUME WatchTypeOK, KeysOwn, [WNext]_wvars
                 PROVE  KeysOwn' /\ [Walk!Next]_(Walk!vars)
        OBVIOUS
    <2>1. CASE cmd_watch
        BY <2>1, WalkStep DEF Walk!Next
    <2>2. CASE Firewall
        <3>1. Next /\ TypeOK /\ watch' = watch /\ running' = running
            BY <2>2 DEF Firewall, WatchTypeOK
        <3>2. Used(blockElem) \subseteq Sources
            BY <3>1 DEF TypeOK, RulesTypeOK, Used
        <3>3. CASE UNCHANGED <<Used(elem), Used(blockElem)>>
            BY <3>1, <3>3, WalkFirewall DEF Walk!vars, Walk!others
        <3>4. ASSUME NEW k \in Sources, UNCHANGED Used(blockElem),
                     Used(elem)' \in Walk!LruInsert(Used(elem), MaxIps, k)
              PROVE  Walk!Insert(k)
            BY <3>1, <3>4 DEF Walk!Insert
        <3>5. ASSUME NEW k \in Sources, UNCHANGED Used(elem),
                     Used(blockElem)' \in Walk!LruInsert(Used(blockElem), MaxBlock, k)
              PROVE  Walk!List(k)
            BY <3>1, <3>5 DEF Walk!List
        <3>6. ASSUME NEW k \in Used(blockElem), UNCHANGED Used(elem),
                     Used(blockElem)' = Used(blockElem) \ {k}
              PROVE  Walk!Unlist(k)
            BY <3>1, <3>6 DEF Walk!Unlist
        <3> QED BY <3>1, <3>2, <3>3, <3>4, <3>5, <3>6, WalkFirewall DEF Walk!Next
    <2>3. CASE on_sig
        BY <2>3 DEF on_sig, vars, maps, KeysOwn, Walk!on_sig, Walk!Next
    <2>4. CASE UNCHANGED wvars
        BY <2>4 DEF wvars, vars, maps, KeysOwn, Walk!vars, Walk!others
    <2> QED BY <2>1, <2>2, <2>3, <2>4 DEF WNext
<1> QED BY <1>1, <1>2, WatchTypes, PTL DEF WSpec
=============================================================================
