------------------------------- MODULE FwProofs ------------------------------
(***************************************************************************)
(* Proofs about the running firewall, for any number of CPUs and sources,  *)
(* any capacity of the maps and any arguments of the commands.             *)
(***************************************************************************)
EXTENDS FwCtl, FiniteSetTheorems, TLAPS

-----------------------------------------------------------------------------
(* Arithmetic of the 64-bit values.                                        *)

\* The remainder by a positive number is a natural number.
LEMMA ModNat == \A a \in Int, m \in Nat \ {0} : a % m \in Nat
  OBVIOUS

\* The quotient of a natural number by a positive one is a natural number.
LEMMA DivNat == \A a \in Nat, m \in Nat \ {0} : a \div m \in Nat
  OBVIOUS

\* A difference of __u64 values is one.
LEMMA Sub64Nat == \A a, b \in Int : Sub64(a, b) \in Nat
  BY ModNat, MapsAssumption DEF Sub64

\* The product of two naturals.
LEMMA MulNat == \A a, b \in Nat : a * b \in Nat
  OBVIOUS

\* The weighted rate is a natural number whatever the statistics are.
LEMMA RateNat == \A s \in IpStats, now \in Nat : Rate(s, now) \in Nat
<1> SUFFICES ASSUME NEW s \in IpStats, NEW now \in Nat PROVE Rate(s, now) \in Nat
    OBVIOUS
<1> DEFINE slot == Slot(s, now)
           weighted == (s.prev_packets * Sub64(FRAC, slot)) % WordMod
           current  == (s.packets * FRAC) % WordMod
<1>0. s.prev_packets \in Nat /\ s.packets \in Nat /\ s.window_start \in Nat
      /\ FRAC \in Nat \ {0} /\ FRAC_STEP \in Nat \ {0} /\ WordMod \in Nat \ {0}
    BY MapsAssumption, ProgAssumption DEF IpStats
<1>1. slot \in Nat
    <2>0. now \in Int /\ s.window_start \in Int
        BY <1>0
    <2>1. Sub64(now, s.window_start) \in Nat
        BY <2>0, Sub64Nat
    <2>2. Sub64(now, s.window_start) \div FRAC_STEP \in Nat
        BY <2>1, <1>0, DivNat
    <2> QED BY <2>2 DEF Slot
<1>2. Sub64(FRAC, slot) \in Nat
    <2> HIDE DEF slot
    <2>1. FRAC \in Int /\ slot \in Int
        BY <1>0, <1>1
    <2> QED BY <2>1, Sub64Nat
<1>3. weighted \in Nat
    <2> HIDE DEF slot
    <2>1. s.prev_packets * Sub64(FRAC, slot) \in Int
        BY <1>0, <1>2, MulNat
    <2> QED BY <2>1, <1>0, ModNat
<1>4. current \in Nat
    <2>1. s.packets * FRAC \in Int
        BY <1>0, MulNat
    <2> QED BY <2>1, <1>0, ModNat
<1>5. Rate(s, now) = ((weighted + current) % WordMod) \div FRAC
    BY DEF Rate
<1> HIDE DEF weighted, current
<1>6. (weighted + current) % WordMod \in Nat
    BY <1>0, <1>3, <1>4, ModNat
<1> QED BY <1>5, <1>6, <1>0, DivNat

\* The expiry time that a block command writes is a natural number.
LEMMA ExpiryNat == \A now \in Nat, sec \in Int : BlockExpiry(now, sec) \in Nat
<1> SUFFICES ASSUME NEW now \in Nat, NEW sec \in Int PROVE BlockExpiry(now, sec) \in Nat
    OBVIOUS
<1>1. sec * NsPerSec \in Int /\ WordMod \in Nat \ {0}
    BY MapsAssumption
<1>2. (sec * NsPerSec) % WordMod \in Nat
    BY <1>1, ModNat
<1>3. (now + ((sec * NsPerSec) % WordMod)) % WordMod \in Nat
    BY <1>1, <1>2, ModNat
<1> QED BY <1>3 DEF BlockExpiry

-----------------------------------------------------------------------------
(* Type correctness.                                                       *)

\* The initial state is well typed.
LEMMA InitType == Init => TypeOK
<1> SUFFICES ASSUME Init PROVE TypeOK
    OBVIOUS
<1>1. RulesTypeOK /\ VerdictTypeOK
    BY DEF Init, RulesTypeOK, VerdictTypeOK
<1>2. StatsTypeOK
    BY DEF Init, StatsTypeOK, NoStats, IpStats
<1>3. Idle \in CpuState
    BY DEF Idle, CpuState, CpuRecord, Pcs, PointerPcs
<1>4. cpu \in [Cpus -> CpuState]
    BY <1>3 DEF Init
<1> QED BY <1>1, <1>2, <1>4 DEF TypeOK

\* A CPU that moves to step pc keeps the rest of its registers well formed.
LEMMA CpuMoves ==
  ASSUME NEW r \in CpuState, NEW pc \in Pcs, r.pc # "idle",
         pc \in PointerPcs => r.s \in Elements, pc = "l4" => r.cls \in L4Classes,
         pc = "test" => r.exp \in BlockElements,
         NEW tmp \in Nat
  PROVE  /\ [r EXCEPT !.pc = pc] \in CpuState
         /\ [r EXCEPT !.pc = pc, !.tmp = tmp] \in CpuState
         /\ [r EXCEPT !.pc = pc, !.rate = tmp] \in CpuState
  BY DEF CpuState, CpuRecord

\* The counters stay natural numbers.
LEMMA CountedType ==
  ASSUME VerdictTypeOK, NEW c \in Cpus
  PROVE  \A rx \in {0, 1}, v \in {"none", "XDP_DROP", "XDP_PASS"} :
           Counted(c, rx, v) \in [Cpus -> [rx : Nat, dropped : Nat, passed : Nat]]
<1>1. counters[c].rx \in Nat /\ counters[c].dropped \in Nat /\ counters[c].passed \in Nat
    BY DEF VerdictTypeOK
<1>2. \A b : One(b) \in Nat
    BY DEF One
<1> QED BY <1>1, <1>2 DEF Counted, VerdictTypeOK

\* Returning a verdict preserves the types.
LEMMA ReturnType ==
  ASSUME TypeOK, NEW c \in Cpus, NEW v \in {"XDP_DROP", "XDP_PASS"}, Return(c, v)
  PROVE  VerdictTypeOK' /\ cpu' \in [Cpus -> CpuState]
<1>1. Idle \in CpuState
    BY DEF Idle, CpuState, CpuRecord, Pcs, PointerPcs
<1>2. cpu' \in [Cpus -> CpuState]
    BY <1>1 DEF Return, TypeOK
<1>3. VerdictTypeOK'
    BY CountedType DEF Return, TypeOK, VerdictTypeOK
<1> QED BY <1>2, <1>3

\* Receiving a frame preserves the types.
LEMMA ReceiveType ==
  ASSUME TypeOK, NEW c \in Cpus, Receive(c)
  PROVE  TypeOK'
<1> PICK f \in Frames : ReceiveRunt(c, f) \/ ReceiveUnruled(c, f) \/ ReceiveIpv4(c, f)
    BY DEF Receive
<1>1. CASE ReceiveRunt(c, f)
    BY <1>1 DEF ReceiveRunt, maps, TypeOK, RulesTypeOK, StatsTypeOK, VerdictTypeOK
<1>2. CASE ReceiveUnruled(c, f)
    BY <1>2, CountedType DEF ReceiveUnruled, maps, TypeOK, RulesTypeOK, StatsTypeOK,
                             VerdictTypeOK
<1>3. CASE ReceiveIpv4(c, f)
    <2>1. f.src \in Sources /\ Classify(f) \in L4Classes \cup {"none"}
        BY ProgAssumption DEF FrameType, Classify, L4Classes
    <2> DEFINE r == [pc |-> "block", src |-> f.src, cls |-> Classify(f), now |-> clock,
                     exp |-> Absent, s |-> Absent, tmp |-> 0, rate |-> 0]
    <2>2. r \in CpuState
        <3>1. clock \in Nat
            BY DEF TypeOK, RulesTypeOK
        <3> QED BY <2>1, <3>1 DEF CpuState, CpuRecord, Pcs, PointerPcs
    <2>3. cpu' = [cpu EXCEPT ![c] = r]
        BY <1>3 DEF ReceiveIpv4
    <2> HIDE DEF r
    <2>4. cpu' \in [Cpus -> CpuState]
        BY <2>2, <2>3 DEF TypeOK
    <2>5. VerdictTypeOK'
        BY <1>3, CountedType DEF ReceiveIpv4, TypeOK, VerdictTypeOK
    <2>6. RulesTypeOK' /\ StatsTypeOK'
        BY <1>3 DEF ReceiveIpv4, maps, TypeOK, RulesTypeOK, StatsTypeOK
    <2> QED BY <2>4, <2>5, <2>6 DEF TypeOK
<1> QED BY <1>1, <1>2, <1>3

\* The lookup in the block list preserves the types.
LEMMA LookupType ==
  ASSUME TypeOK, NEW c \in Cpus, LookupBlock(c)
  PROVE  TypeOK'
<1>1. RulesTypeOK' /\ StatsTypeOK' /\ VerdictTypeOK'
    BY DEF LookupBlock, maps, TypeOK, RulesTypeOK, StatsTypeOK, VerdictTypeOK
<1>2. /\ cpu[c] \in CpuState /\ cpu[c].pc = "block" /\ cpu[c].src \in Sources
      /\ blockElem[cpu[c].src] \in BlockElements \cup {Absent}
    BY DEF LookupBlock, TypeOK, RulesTypeOK, CpuState
<1>3. cpu'[c] \in CpuState
    BY <1>2 DEF LookupBlock, CpuState, CpuRecord, Pcs, PointerPcs, TypeOK
<1>4. cpu' \in [Cpus -> CpuState]
    BY <1>3 DEF LookupBlock, TypeOK
<1> QED BY <1>1, <1>4 DEF TypeOK

\* The rules that may return early preserve the types.
LEMMA RulesType ==
  ASSUME TypeOK, NEW c \in Cpus, TestBlock(c) \/ LookupRange(c) \/ Limit(c)
  PROVE  TypeOK'
<1>1. RulesTypeOK' /\ StatsTypeOK'
    BY DEF TestBlock, LookupRange, Limit, maps, TypeOK, RulesTypeOK, StatsTypeOK
<1>2. CASE \E v \in {"XDP_DROP", "XDP_PASS"} : Return(c, v)
    BY <1>1, <1>2, ReturnType DEF TypeOK
<1>3. CASE /\ cpu[c].pc = "range"
           /\ cpu' = [cpu EXCEPT ![c].pc = "stats"] /\ UNCHANGED <<counters, verdict>>
    <2>1. [cpu[c] EXCEPT !.pc = "stats"] \in CpuState
        <3>1. /\ cpu[c] \in CpuState /\ "stats" \in Pcs /\ "stats" \notin PointerPcs
              /\ "stats" # "l4" /\ "stats" # "test"
            BY DEF TypeOK, Pcs, PointerPcs
        <3> QED BY <1>3, <3>1, CpuMoves, 0 \in Nat
    <2>2. cpu' \in [Cpus -> CpuState]
        BY <1>3, <2>1 DEF TypeOK
    <2> QED BY <1>1, <1>3, <2>2 DEF TypeOK, VerdictTypeOK
<1>4. CASE /\ cpu[c].pc = "test" /\ UNCHANGED <<counters, verdict>>
           /\ cpu' = [cpu EXCEPT ![c].exp = Absent, ![c].pc = "expire"]
    <2>1. cpu[c] \in CpuState /\ cpu' = [cpu EXCEPT ![c] = [@ EXCEPT !.exp = Absent, !.pc = "expire"]]
        BY <1>4 DEF TypeOK
    <2>2. [cpu[c] EXCEPT !.exp = Absent, !.pc = "expire"] \in CpuState
        BY <1>4, <2>1 DEF CpuState, CpuRecord, Pcs, PointerPcs
    <2>3. cpu' \in [Cpus -> CpuState]
        BY <2>1, <2>2 DEF TypeOK
    <2> QED BY <1>1, <1>4, <2>3 DEF TypeOK, VerdictTypeOK
<1> QED BY <1>2, <1>3, <1>4 DEF TestBlock, LookupRange, Limit

\* A step within the statistics leaves rules, counters and verdicts alone and
\* moves the CPU on.
LEMMA StatsType ==
  ASSUME TypeOK, NEW c \in Cpus,
         \/ LookupStats(c) \/ CheckWindow(c) \/ ShiftWindow(c) \/ ResetWindow(c)
         \/ ClearClasses(c) \/ StartWindow(c) \/ StorePackets(c) \/ StoreL4(c) \/ ComputeRate(c)
  PROVE  TypeOK'
<1> DEFINE e == cpu[c].s
           cls == cpu[c].cls
<1>1. RulesTypeOK' /\ VerdictTypeOK' /\ elem' = elem
    BY DEF LookupStats, CheckWindow, ShiftWindow, ResetWindow, ClearClasses, StartWindow, StorePackets,
           StoreL4, ComputeRate, maps, TypeOK, RulesTypeOK, VerdictTypeOK
<1>2. cpu[c] \in CpuState /\ elem \in [Sources -> Elements \cup {Absent}]
      /\ stats \in [Elements -> IpStats] /\ cpu[c].now \in Nat /\ cpu[c].tmp \in Nat
    BY DEF TypeOK, StatsTypeOK, CpuState, CpuRecord
<1>3. ASSUME cpu[c].pc \in PointerPcs PROVE e \in Elements /\ stats[e] \in IpStats
    BY <1>2, <1>3 DEF CpuState
<1>4. CASE LookupStats(c)
    <2>1. cpu'[c] \in CpuState
        BY <1>2, <1>4 DEF LookupStats, CpuState, CpuRecord, Pcs, PointerPcs, TypeOK
    <2>2. cpu' \in [Cpus -> CpuState]
        BY <1>4, <2>1 DEF LookupStats, TypeOK
    <2> QED BY <1>1, <1>4, <2>2 DEF LookupStats, TypeOK, StatsTypeOK
<1>5. CASE CheckWindow(c)
    <2>1. cpu[c].pc \in PointerPcs /\ stats[e].packets \in Nat
        BY <1>5, <1>3 DEF CheckWindow, PointerPcs, IpStats
    <2>2. cpu'[c] \in CpuState
        BY <1>2, <1>5, <2>1 DEF CheckWindow, CpuState, CpuRecord, Pcs, PointerPcs, TypeOK
    <2>3. cpu' \in [Cpus -> CpuState]
        BY <1>5, <2>2 DEF CheckWindow, TypeOK
    <2> QED BY <1>1, <1>5, <2>3 DEF CheckWindow, TypeOK, StatsTypeOK
<1>6. CASE ShiftWindow(c)
    <2>1. cpu[c].pc \in PointerPcs
        BY <1>6 DEF ShiftWindow, PointerPcs
    <2>2. stats'[e] \in IpStats
        BY <1>2, <1>3, <1>6, <2>1 DEF ShiftWindow, IpStats, L4Classes, CpuState
    <2>3. StatsTypeOK'
        BY <1>1, <1>2, <1>6, <2>2 DEF ShiftWindow, StatsTypeOK
    <2>4. cpu'[c] \in CpuState
        BY <1>2, <1>3, <1>6, <2>1 DEF ShiftWindow, CpuState, CpuRecord, Pcs, PointerPcs, TypeOK, IpStats
    <2>5. cpu' \in [Cpus -> CpuState]
        BY <1>6, <2>4 DEF ShiftWindow, TypeOK
    <2> QED BY <1>1, <2>3, <2>5 DEF TypeOK
<1>7. CASE ResetWindow(c)
    <2>1. cpu[c].pc \in PointerPcs
        BY <1>7 DEF ResetWindow, PointerPcs
    <2>2. stats'[e] \in IpStats
        BY <1>2, <1>3, <1>7, <2>1 DEF ResetWindow, PacketsCleared, IpStats, L4Classes, CpuState
    <2>3. StatsTypeOK'
        BY <1>1, <1>2, <1>7, <2>2 DEF ResetWindow, PacketsCleared, StatsTypeOK
    <2>4. cpu'[c] \in CpuState
        BY <1>2, <1>3, <1>7, <2>1 DEF ResetWindow, CpuState, CpuRecord, Pcs, PointerPcs, TypeOK, IpStats
    <2>5. cpu' \in [Cpus -> CpuState]
        BY <1>7, <2>4 DEF ResetWindow, TypeOK
    <2> QED BY <1>1, <2>3, <2>5 DEF TypeOK
<1>12. CASE ClearClasses(c)
    <2>1. cpu[c].pc \in PointerPcs
        BY <1>12 DEF ClearClasses, PointerPcs
    <2>2. stats'[e] \in IpStats
        BY <1>2, <1>3, <1>12, <2>1 DEF ClearClasses, ClassesCleared, IpStats, L4Classes, CpuState
    <2>3. StatsTypeOK'
        BY <1>1, <1>2, <1>12, <2>2 DEF ClearClasses, ClassesCleared, StatsTypeOK
    <2>4. cpu'[c] \in CpuState
        BY <1>2, <1>3, <1>12, <2>1 DEF ClearClasses, CpuState, CpuRecord, Pcs, PointerPcs, TypeOK, IpStats
    <2>5. cpu' \in [Cpus -> CpuState]
        BY <1>12, <2>4 DEF ClearClasses, TypeOK
    <2> QED BY <1>1, <2>3, <2>5 DEF TypeOK
<1>8. CASE StartWindow(c)
    <2>1. cpu[c].pc \in PointerPcs
        BY <1>8 DEF StartWindow, PointerPcs
    <2>2. stats'[e] \in IpStats
        BY <1>2, <1>3, <1>8, <2>1 DEF StartWindow, IpStats, L4Classes, CpuState
    <2>3. StatsTypeOK'
        BY <1>1, <1>2, <1>8, <2>2 DEF StartWindow, StatsTypeOK
    <2>4. cpu'[c] \in CpuState
        BY <1>2, <1>3, <1>8, <2>1 DEF StartWindow, CpuState, CpuRecord, Pcs, PointerPcs, TypeOK, IpStats
    <2>5. cpu' \in [Cpus -> CpuState]
        BY <1>8, <2>4 DEF StartWindow, TypeOK
    <2> QED BY <1>1, <2>3, <2>5 DEF TypeOK
<1>9. CASE StorePackets(c)
    <2>1. cpu[c].pc \in PointerPcs
        BY <1>9 DEF StorePackets, PointerPcs
    <2>2. stats'[e] \in IpStats
        BY <1>2, <1>3, <1>9, <2>1 DEF StorePackets, IpStats, L4Classes, CpuState
    <2>3. StatsTypeOK'
        BY <1>1, <1>2, <1>9, <2>2 DEF StorePackets, StatsTypeOK
    <2>4. cpu'[c] \in CpuState
        BY <1>2, <1>3, <1>9, <2>1 DEF StorePackets, CpuState, CpuRecord, Pcs, PointerPcs, TypeOK, IpStats
    <2>5. cpu' \in [Cpus -> CpuState]
        BY <1>9, <2>4 DEF StorePackets, TypeOK
    <2> QED BY <1>1, <2>3, <2>5 DEF TypeOK
<1>10. CASE StoreL4(c)
    <2>1. cpu[c].pc \in PointerPcs
        BY <1>10 DEF StoreL4, PointerPcs
    <2>2. stats'[e] \in IpStats
        <3>1. /\ cls \in L4Classes /\ e \in Elements /\ stats[e] \in IpStats
              /\ cpu[c].tmp + 1 \in Nat
            BY <1>2, <1>3, <1>10, <2>1 DEF StoreL4, CpuState
        <3>2. stats'[e] = [stats[e] EXCEPT !.l4 = [@ EXCEPT ![cls] = cpu[c].tmp + 1]]
            BY <1>2, <1>10, <3>1 DEF StoreL4
        <3> QED BY <3>1, <3>2 DEF IpStats
    <2>3. StatsTypeOK'
        BY <1>1, <1>2, <1>10, <2>2 DEF StoreL4, StatsTypeOK
    <2>4. cpu'[c] \in CpuState
        BY <1>2, <1>3, <1>10, <2>1 DEF StoreL4, CpuState, CpuRecord, Pcs, PointerPcs, TypeOK, IpStats
    <2>5. cpu' \in [Cpus -> CpuState]
        BY <1>10, <2>4 DEF StoreL4, TypeOK
    <2> QED BY <1>1, <2>3, <2>5 DEF TypeOK
<1>11. CASE ComputeRate(c)
    <2>1. Rate(stats[e], cpu[c].now) \in Nat
        BY <1>2, <1>3, <1>11, RateNat DEF ComputeRate, PointerPcs
    <2>2. cpu'[c] \in CpuState
        BY <1>2, <1>11, <2>1 DEF ComputeRate, CpuState, CpuRecord, Pcs, PointerPcs, TypeOK
    <2>3. cpu' \in [Cpus -> CpuState]
        BY <1>11, <2>2 DEF ComputeRate, TypeOK
    <2> QED BY <1>1, <1>11, <2>3 DEF ComputeRate, TypeOK, StatsTypeOK
<1> QED BY <1>4, <1>5, <1>6, <1>7, <1>8, <1>9, <1>10, <1>11, <1>12

\* A frame from a new source preserves the types, whichever element it gets.
LEMMA InsertType ==
  ASSUME TypeOK, NEW c \in Cpus, InsertStats(c)
  PROVE  TypeOK'
<1>1. RulesTypeOK' /\ VerdictTypeOK'
    BY DEF InsertStats, maps, TypeOK, RulesTypeOK, VerdictTypeOK
<1>2. cpu[c] \in CpuState /\ cpu[c].now \in Nat
    BY DEF TypeOK, CpuState, CpuRecord
<1>3. StatsTypeOK'
    <2>1. LruCandidates(elem, Elements) \subseteq Elements
        BY DEF LruCandidates, LruFree
    <2>2. \A b : One(b) \in Nat
        BY DEF One
    <2> QED BY <1>2, <2>1, <2>2 DEF InsertStats, LruAssign, FirstStats, TypeOK, StatsTypeOK,
                                        IpStats
<1>4. cpu'[c] \in CpuState
    BY <1>2 DEF InsertStats, CpuState, CpuRecord, Pcs, PointerPcs, TypeOK
<1>5. cpu' \in [Cpus -> CpuState]
    BY <1>4 DEF InsertStats, TypeOK
<1> QED BY <1>1, <1>3, <1>5 DEF TypeOK

\* Deleting an expired entry preserves the types.
LEMMA DeleteType ==
  ASSUME TypeOK, NEW c \in Cpus, DeleteExpired(c)
  PROVE  TypeOK'
<1>1. RulesTypeOK'
    BY DEF DeleteExpired, TypeOK, RulesTypeOK
<1>2. StatsTypeOK' /\ VerdictTypeOK'
    BY DEF DeleteExpired, TypeOK, StatsTypeOK, VerdictTypeOK
<1>3. cpu'[c] \in CpuState
    BY DEF DeleteExpired, CpuState, CpuRecord, Pcs, PointerPcs, TypeOK
<1>4. cpu' \in [Cpus -> CpuState]
    BY <1>3 DEF DeleteExpired, TypeOK
<1> QED BY <1>1, <1>2, <1>4 DEF TypeOK

\* Every step of a CPU preserves the types.
LEMMA ProgType ==
  ASSUME TypeOK, NEW c \in Cpus, fw_prog(c)
  PROVE  TypeOK'
  BY ReceiveType, LookupType, RulesType, StatsType, InsertType, DeleteType DEF fw_prog, Run

\* What an update of the block list leaves behind is a block list.
LEMMA BlockIpType ==
  ASSUME TypeOK, NEW ip \in Sources, NEW sec \in Int, block_ip(ip, sec)
  PROVE  /\ blockElem' \in [Sources -> BlockElements \cup {Absent}]
         /\ blockExp' \in [BlockElements -> Nat]
<1>1. BlockExpiry(clock, sec) \in Nat
    BY ExpiryNat DEF TypeOK, RulesTypeOK
<1>2. PICK e \in LruCandidates(blockElem, BlockElements) :
        /\ blockElem' = LruAssign(blockElem, ip, e)
        /\ blockExp' = [blockExp EXCEPT ![e] = BlockExpiry(clock, sec)]
    BY DEF block_ip
<1>3. e \in BlockElements
    BY DEF LruCandidates, LruFree
<1> QED BY <1>1, <1>2, <1>3 DEF LruAssign, TypeOK, RulesTypeOK

\* The commands preserve the types.
LEMMA CommandType ==
  ASSUME TypeOK, Command
  PROVE  TypeOK'
<1>0. StatsTypeOK' /\ VerdictTypeOK' /\ cpu' \in [Cpus -> CpuState]
    BY DEF Command, cmd_block, cmd_unblock, cmd_range, cmd_unrange, Ratelimit, SetEnabled,
           dataPlane, TypeOK, StatsTypeOK, VerdictTypeOK
<1>1. ASSUME NEW ip \in Sources, NEW sec \in BanSecs, cmd_block(ip, sec)
      PROVE  RulesTypeOK'
    <2>1. sec \in Int
        BY CtlAssumption
    <2>2. /\ blockElem' \in [Sources -> BlockElements \cup {Absent}]
          /\ blockExp' \in [BlockElements -> Nat]
        BY <1>1, <2>1, BlockIpType DEF cmd_block
    <2> QED BY <1>1, <2>2 DEF cmd_block, TypeOK, RulesTypeOK
<1>2. ASSUME NEW ip \in Sources, cmd_unblock(ip) PROVE RulesTypeOK'
    BY <1>2 DEF cmd_unblock, TypeOK, RulesTypeOK
<1>3. ASSUME NEW arg \in CidrArgs, cmd_range(arg) \/ cmd_unrange(arg) PROVE RulesTypeOK'
    <2>1. arg[1] \in Addresses /\ arg[2] \in 0..AddrBits
        BY CtlAssumption
    <2>2. parse_cidr(arg[1], arg[2]) \in LpmKeys
        BY <2>1 DEF LpmKeys
    <2> QED BY <1>3, <2>2 DEF cmd_range, cmd_unrange, TypeOK, RulesTypeOK
<1>4. ASSUME NEW v \in PpsValues, Ratelimit(v) PROVE RulesTypeOK'
    BY <1>4, CtlAssumption DEF Ratelimit, TypeOK, RulesTypeOK
<1>5. ASSUME NEW b \in BOOLEAN, SetEnabled(b) PROVE RulesTypeOK'
    BY <1>5 DEF SetEnabled, TypeOK, RulesTypeOK
<1>6. RulesTypeOK'
    BY <1>1, <1>2, <1>3, <1>4, <1>5 DEF Command
<1> QED BY <1>0, <1>6 DEF TypeOK

\* Every step preserves the types.
LEMMA NextType == TypeOK /\ [Next]_vars => TypeOK'
<1> SUFFICES ASSUME TypeOK, [Next]_vars PROVE TypeOK'
    OBVIOUS
<1>1. CASE Tick
    BY <1>1 DEF Tick, maps, TypeOK, RulesTypeOK, StatsTypeOK, VerdictTypeOK
<1>2. CASE Command
    BY <1>2, CommandType
<1>3. CASE \E c \in Cpus : fw_prog(c)
    BY <1>3, ProgType
<1>4. CASE UNCHANGED vars
    BY <1>4 DEF vars, maps, TypeOK, RulesTypeOK, StatsTypeOK, VerdictTypeOK
<1> QED BY <1>1, <1>2, <1>3, <1>4 DEF Next

\* The firewall keeps its maps, counters and registers well formed; in
\* particular fw_prog never goes through a NULL pointer to the statistics,
\* whatever the LRU evicts in the meantime.
THEOREM TypeCorrect == Spec => []TypeOK
<1>1. Init => TypeOK
    BY InitType
<1>2. TypeOK /\ [Next]_vars => TypeOK'
    BY NextType
<1> QED BY <1>1, <1>2, PTL DEF Spec

-----------------------------------------------------------------------------
(* The registers of the CPUs.                                              *)

\* A CPU's own steps are the only ones that change its registers.
LEMMA OwnRegisters ==
  ASSUME TypeOK, NEW c \in Cpus, NEW d \in Cpus, c # d, fw_prog(d)
  PROVE  cpu'[c] = cpu[c] /\ verdict'[c] = verdict[c]
<1>0. cpu \in [Cpus -> CpuState] /\ DOMAIN verdict = Cpus
    BY DEF TypeOK, VerdictTypeOK
<1>1. CASE Receive(d)
    BY <1>0, <1>1 DEF Receive, ReceiveRunt, ReceiveUnruled, ReceiveIpv4
<1>2. CASE TestBlock(d) \/ LookupRange(d) \/ Limit(d)
    BY <1>0, <1>2 DEF TestBlock, LookupRange, Limit, Return
<1>3. CASE \/ LookupBlock(d) \/ DeleteExpired(d) \/ LookupStats(d) \/ InsertStats(d)
           \/ CheckWindow(d)
    BY <1>0, <1>3 DEF LookupBlock, DeleteExpired, LookupStats, InsertStats, CheckWindow
<1>4. CASE ShiftWindow(d) \/ ResetWindow(d) \/ ClearClasses(d) \/ StartWindow(d)
    BY <1>0, <1>4 DEF ShiftWindow, ResetWindow, ClearClasses, StartWindow
<1>5. CASE StorePackets(d) \/ StoreL4(d) \/ ComputeRate(d)
    BY <1>0, <1>5 DEF StorePackets, StoreL4, ComputeRate
<1> QED BY <1>1, <1>2, <1>3, <1>4, <1>5 DEF fw_prog, Run

-----------------------------------------------------------------------------
(* The elements of the LRU hashes.                                         *)

\* There are finitely many addresses.
LEMMA SourcesFinite == IsFiniteSet(Sources)
<1>1. 2^AddrBits \in Int
    BY MapsAssumption
<1>2. IsFiniteSet(Addresses)
    BY <1>1, FS_Interval DEF Addresses
<1> QED BY <1>2, ProgAssumption, FS_Subset

\* n elements, and fewer sources that hold one: some element is free.
LEMMA FewerOwners ==
  ASSUME NEW n \in Nat, NEW m, NEW others, IsFiniteSet(others), Cardinality(others) < n,
         \A ip \in Sources \ others : m[ip] \notin 1..n
  PROVE  LruFree(m, 1..n) # {}
<1> SUFFICES ASSUME LruFree(m, 1..n) = {} PROVE FALSE
    OBVIOUS
<1>1. \A e \in 1..n : \E ip \in Sources : m[ip] = e
    BY DEF LruFree
<1> DEFINE owner == [e \in 1..n |-> CHOOSE ip \in Sources : m[ip] = e]
<1>2. \A e \in 1..n : owner[e] \in Sources /\ m[owner[e]] = e
    BY <1>1
<1>3. owner \in [1..n -> others]
    BY <1>2
<1>4. IsFiniteSet(1..n) /\ Cardinality(1..n) = n
    <2>1. 1 \in Int /\ n \in Int
        OBVIOUS
    <2>2. IsFiniteSet(1..n) /\ Cardinality(1..n) = IF 1 > n THEN 0 ELSE n - 1 + 1
        BY <2>1, FS_Interval
    <2> QED BY <2>2
<1> HIDE DEF owner
<1>5. \E x, y \in 1..n : x # y /\ owner[x] = owner[y]
    BY <1>3, <1>4, FS_PigeonHole
<1> QED BY <1>2, <1>5

\* A source without an element of the statistics finds a free one, when there
\* are as many elements as sources.
LEMMA RoomForSource ==
  ASSUME TypeOK, Cardinality(Sources) <= MaxIps, NEW src \in Sources, elem[src] = Absent
  PROVE  LruFree(elem, Elements) # {}
<1> DEFINE others == Sources \ {src}
<1>1. MaxIps \in Nat /\ Absent \notin 1..MaxIps
    BY ProgAssumption DEF Absent
<1>2. IsFiniteSet(others) /\ Cardinality(others) = Cardinality(Sources) - 1
    BY SourcesFinite, FS_RemoveElement
<1>3. Cardinality(Sources) \in Nat
    BY SourcesFinite, FS_CardinalityType
<1>4. \A ip \in Sources \ others : elem[ip] \notin 1..MaxIps
    BY <1>1
<1> HIDE DEF others
<1>5. Cardinality(others) < MaxIps
    BY <1>1, <1>2, <1>3
<1> QED BY <1>1, <1>2, <1>4, <1>5, FewerOwners DEF Elements

-----------------------------------------------------------------------------
(* The counters of fw_stats.                                               *)

\* A step that counts nothing and neither starts nor ends a frame.
LEMMA BalanceKept ==
  ASSUME CountersBalance, counters' = counters,
         \A d \in Cpus : cpu'[d].pc = "idle" <=> cpu[d].pc = "idle"
  PROVE  CountersBalance'
  BY DEF CountersBalance, One

\* A frame in flight that ends is counted in dropped or in passed.
LEMMA BalanceReturn ==
  ASSUME TypeOK, CountersBalance, NEW c \in Cpus, cpu[c].pc # "idle",
         NEW v \in {"XDP_DROP", "XDP_PASS"}, Return(c, v)
  PROVE  CountersBalance'
  BY DEF TypeOK, VerdictTypeOK, CountersBalance, Return, Counted, One, Idle

\* The steps of fw_prog between arrival and verdict.
LEMMA BalanceRun ==
  ASSUME TypeOK, CountersBalance, NEW c \in Cpus, Run(c)
  PROVE  CountersBalance'
<1>0. cpu \in [Cpus -> CpuState]
    BY DEF TypeOK
<1>1. CASE TestBlock(c)
    <2>1. CASE InEffect(blockExp[cpu[c].exp], cpu[c].now)
        BY <1>1, <2>1, BalanceReturn DEF TestBlock
    <2>2. CASE ~InEffect(blockExp[cpu[c].exp], cpu[c].now)
        <3>1. /\ counters' = counters /\ cpu[c].pc = "test"
              /\ cpu' = [cpu EXCEPT ![c].exp = Absent, ![c].pc = "expire"]
            BY <1>1, <2>2 DEF TestBlock
        <3>2. \A d \in Cpus : cpu'[d].pc = "idle" <=> cpu[d].pc = "idle"
            BY <1>0, <3>1
        <3> QED BY <3>1, <3>2, BalanceKept
    <2> QED BY <2>1, <2>2
<1>2. CASE LookupRange(c)
    <2>1. CASE LpmLookup(ranges, cpu[c].src)
        BY <1>2, <2>1, BalanceReturn DEF LookupRange
    <2>2. CASE ~LpmLookup(ranges, cpu[c].src)
        <3>1. /\ counters' = counters /\ cpu[c].pc = "range"
              /\ cpu' = [cpu EXCEPT ![c].pc = "stats"]
            BY <1>2, <2>2 DEF LookupRange
        <3>2. \A d \in Cpus : cpu'[d].pc = "idle" <=> cpu[d].pc = "idle"
            BY <1>0, <3>1
        <3> QED BY <3>1, <3>2, BalanceKept
    <2> QED BY <2>1, <2>2
<1>3. CASE Limit(c)
    BY <1>3, BalanceReturn DEF Limit
<1>4. CASE LookupBlock(c) \/ DeleteExpired(c)
    <2>1. CASE LookupBlock(c)
        BY <1>0, <2>1, BalanceKept DEF LookupBlock
    <2>2. CASE DeleteExpired(c)
        BY <1>0, <2>2, BalanceKept DEF DeleteExpired
    <2> QED BY <1>4, <2>1, <2>2
<1>5. CASE LookupStats(c)
    BY <1>0, <1>5, BalanceKept DEF LookupStats
<1>6. CASE InsertStats(c)
    BY <1>0, <1>6, BalanceKept DEF InsertStats
<1>7. CASE CheckWindow(c)
    BY <1>0, <1>7, BalanceKept DEF CheckWindow
<1>8. CASE ShiftWindow(c) \/ ResetWindow(c) \/ ClearClasses(c) \/ StartWindow(c)
    <2>1. CASE ShiftWindow(c)
        BY <1>0, <2>1, BalanceKept DEF ShiftWindow
    <2>2. CASE ResetWindow(c)
        BY <1>0, <2>2, BalanceKept DEF ResetWindow
    <2>3. CASE ClearClasses(c)
        BY <1>0, <2>3, BalanceKept DEF ClearClasses
    <2>4. CASE StartWindow(c)
        BY <1>0, <2>4, BalanceKept DEF StartWindow
    <2> QED BY <1>8, <2>1, <2>2, <2>3, <2>4
<1>9. CASE StorePackets(c) \/ StoreL4(c)
    <2>1. CASE StorePackets(c)
        BY <1>0, <2>1, BalanceKept DEF StorePackets
    <2>2. CASE StoreL4(c)
        BY <1>0, <2>2, BalanceKept DEF StoreL4
    <2> QED BY <1>9, <2>1, <2>2
<1>10. CASE ComputeRate(c)
    BY <1>0, <1>10, BalanceKept DEF ComputeRate
<1> QED BY <1>1, <1>2, <1>3, <1>4, <1>5, <1>6, <1>7, <1>8, <1>9, <1>10 DEF Run

\* Every step keeps the counters balanced.
LEMMA NextBalance ==
  ASSUME TypeOK, CountersBalance, [Next]_vars
  PROVE  CountersBalance'
<1>1. CASE Tick \/ Command \/ UNCHANGED vars
    <2>1. counters' = counters /\ cpu' = cpu
        BY <1>1 DEF Tick, Command, cmd_block, cmd_unblock, cmd_range, cmd_unrange, Ratelimit,
                    SetEnabled, dataPlane, vars
    <2> QED BY <2>1, BalanceKept
<1>2. ASSUME NEW c \in Cpus, Receive(c) PROVE CountersBalance'
    <2> PICK f \in Frames : ReceiveRunt(c, f) \/ ReceiveUnruled(c, f) \/ ReceiveIpv4(c, f)
        BY <1>2 DEF Receive
    <2>1. CASE ReceiveRunt(c, f)
        BY <2>1, BalanceKept DEF ReceiveRunt
    <2>2. CASE ReceiveUnruled(c, f)
        BY <2>2 DEF ReceiveUnruled, Counted, One, CountersBalance, TypeOK, VerdictTypeOK
    <2>3. CASE ReceiveIpv4(c, f)
        BY <2>3 DEF ReceiveIpv4, Counted, One, CountersBalance, TypeOK, VerdictTypeOK
    <2> QED BY <2>1, <2>2, <2>3
<1> QED BY <1>1, <1>2, BalanceRun DEF Next, fw_prog

\* On every CPU rx = dropped + passed, plus one while a frame is in flight:
\* each early return of fw_prog counts its verdict, and counts it once.
THEOREM CountersCorrect == Spec => []CountersBalance
<1>1. Init => CountersBalance
    BY DEF Init, CountersBalance, Idle, One
<1>2. TypeOK /\ CountersBalance /\ [Next]_vars => CountersBalance'
    BY NextBalance
<1> QED BY <1>1, <1>2, TypeCorrect, PTL DEF Spec
=============================================================================
