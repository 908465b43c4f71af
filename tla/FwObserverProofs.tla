-------------------------- MODULE FwObserverProofs ---------------------------
(***************************************************************************)
(* Proofs about the three specifications that look at the data plane from  *)
(* outside, for any number of CPUs and sources, any capacity of the maps   *)
(* and any commands: the verdicts obey the rules (FwVerdict), the totals   *)
(* that `falconwall stats` prints are coherent whatever the CPUs do while  *)
(* the copy is made and lie between the counters at its two ends          *)
(* (FwStats), the slot that the rate limiter computes is one of its        *)
(* window, it lets through no more than its quota and drops nothing of a   *)
(* source that keeps to half the limit (FwRate).                           *)
(***************************************************************************)
EXTENDS FwVerdict, FwStats, FwRate, FwProofs, WellFoundedInduction

-----------------------------------------------------------------------------
(* Verdicts: what one step can do to the frame in flight on a CPU.         *)

\* The commands and the clock touch no register.
LEMMA ControlKeepsCpus ==
  ASSUME Tick \/ Command \/ UNCHANGED vars
  PROVE  cpu' = cpu /\ verdict' = verdict
  BY DEF Tick, Command, cmd_block, cmd_unblock, cmd_range, cmd_unrange, Ratelimit,
         SetEnabled, dataPlane, vars

\* How a frame in flight may move on: its source and time stamp stay, and it
\* leaves a rule only when the rule does not apply.
Onward(c) ==
  /\ cpu'[c].src = cpu[c].src
  /\ cpu'[c].now = cpu[c].now
  /\ cpu'[c].pc = "block" => cpu[c].pc = "block"
  /\ cpu'[c].pc = "test" =>
       \/ cpu[c].pc = "test" /\ cpu'[c].exp = cpu[c].exp
       \/ cpu[c].pc = "block" /\ cpu'[c].exp = blockElem[cpu[c].src]
  /\ cpu[c].pc = "block" =>
       \/ cpu'[c].pc \in {"block", "test"}
       \/ blockElem[cpu[c].src] = Absent
  /\ cpu[c].pc = "test" =>
       \/ cpu'[c].pc = "test"
       \/ ~InEffect(blockExp[cpu[c].exp], cpu[c].now)
  /\ cpu[c].pc \in {"block", "test", "expire", "range"} =>
       \/ cpu'[c].pc \in {"block", "test", "expire", "range"}
       \/ cpu[c].pc = "range" /\ ~LpmLookup(ranges, cpu[c].src)

\* A frame that stays in flight moves onward.
LEMMA FlightStep ==
  ASSUME TypeOK, [Next]_vars, NEW c \in Cpus, Busy(c), Busy(c)'
  PROVE  Onward(c)
<1>0. cpu \in [Cpus -> CpuState] /\ cpu[c] \in CpuRecord
    BY DEF TypeOK, CpuState
<1>1. CASE cpu'[c] = cpu[c]
    BY <1>1 DEF Onward
<1>2. CASE Receive(c)
    BY <1>2 DEF Receive, ReceiveRunt, ReceiveUnruled, ReceiveIpv4, Busy
<1>3. CASE LookupBlock(c)
    BY <1>0, <1>3 DEF LookupBlock, Onward, CpuRecord
<1>12. CASE TestBlock(c)
    <2>1. ~InEffect(blockExp[cpu[c].exp], cpu[c].now)
        BY <1>0, <1>12 DEF TestBlock, Return, Idle, Busy
    <2>2. /\ cpu' = [cpu EXCEPT ![c].exp = Absent, ![c].pc = "expire"]
          /\ cpu[c].pc = "test"
        BY <1>12, <2>1 DEF TestBlock
    <2> QED BY <1>0, <2>1, <2>2 DEF Onward, CpuRecord
<1>4. CASE LookupRange(c)
    <2>1. ~LpmLookup(ranges, cpu[c].src)
        BY <1>0, <1>4 DEF LookupRange, Return, Idle, Busy
    <2>2. cpu' = [cpu EXCEPT ![c].pc = "stats"] /\ cpu[c].pc = "range"
        BY <1>4, <2>1 DEF LookupRange
    <2> QED BY <1>0, <2>1, <2>2 DEF Onward, CpuRecord
<1>5. CASE DeleteExpired(c)
    BY <1>0, <1>5 DEF DeleteExpired, Onward, CpuRecord
<1>6. CASE Limit(c)
    BY <1>0, <1>6 DEF Limit, Return, Idle, Busy
<1>7. CASE LookupStats(c) \/ InsertStats(c) \/ CheckWindow(c)
    BY <1>0, <1>7 DEF LookupStats, InsertStats, CheckWindow, Onward, CpuRecord
<1>8. CASE ShiftWindow(c) \/ ResetWindow(c) \/ ClearClasses(c) \/ StartWindow(c)
    BY <1>0, <1>8 DEF ShiftWindow, ResetWindow, ClearClasses, StartWindow, Onward, CpuRecord
<1>9. CASE StorePackets(c) \/ StoreL4(c) \/ ComputeRate(c)
    BY <1>0, <1>9 DEF StorePackets, StoreL4, ComputeRate, Onward, CpuRecord
<1>10. CASE fw_prog(c)
    BY <1>2, <1>3, <1>4, <1>5, <1>6, <1>7, <1>8, <1>9, <1>10, <1>12 DEF fw_prog, Run
<1>11. CASE ~fw_prog(c)
    BY <1>1, <1>11, OwnRegisters, ControlKeepsCpus DEF Next
<1> QED BY <1>10, <1>11

\* How a step may change the block list: an entry stays or disappears and
\* every element keeps its expiry time, or one element is given to a source
\* with an expiry time computed from the current clock.
Relisted ==
  \/ /\ blockExp' = blockExp
     /\ \A ip \in Sources : blockElem'[ip] \in {blockElem[ip], Absent}
  \/ /\ clock' = clock
     /\ \E sec \in BanSecs, k \in Sources, e \in BlockElements :
          /\ blockElem' = LruAssign(blockElem, k, e)
          /\ blockExp' = [blockExp EXCEPT ![e] = BlockExpiry(clock, sec)]

\* Every step changes the block list in one of these ways.
LEMMA BlocklistStep ==
  ASSUME TypeOK, [Next]_vars
  PROVE  Relisted
<1>0. blockElem \in [Sources -> BlockElements \cup {Absent}]
    BY DEF TypeOK, RulesTypeOK
<1>1. ASSUME NEW k \in Sources, NEW sec \in BanSecs, cmd_block(k, sec)
      PROVE  Relisted
    <2>1. PICK e \in BlockElements :
            /\ blockElem' = LruAssign(blockElem, k, e)
            /\ blockExp' = [blockExp EXCEPT ![e] = BlockExpiry(clock, sec)]
        BY <1>1 DEF cmd_block, block_ip, LruCandidates, LruFree
    <2>2. clock' = clock
        BY <1>1 DEF cmd_block
    <2> QED BY <2>1, <2>2 DEF Relisted
<1>2. ASSUME NEW k \in Sources, cmd_unblock(k) PROVE Relisted
    BY <1>0, <1>2 DEF cmd_unblock, Relisted
<1>3. ASSUME NEW c \in Cpus, DeleteExpired(c) PROVE Relisted
    BY <1>0, <1>3 DEF DeleteExpired, Relisted
<1>4. CASE blockElem' = blockElem /\ blockExp' = blockExp
    BY <1>4 DEF Relisted
<1>5. CASE Tick \/ UNCHANGED vars
    BY <1>4, <1>5 DEF Tick, vars, maps
<1>6. CASE Command
    BY <1>1, <1>2, <1>4, <1>6 DEF Command, cmd_range, cmd_unrange, Ratelimit, SetEnabled
<1>7. ASSUME NEW c \in Cpus, fw_prog(c) PROVE Relisted
    BY <1>3, <1>4, <1>7 DEF fw_prog, Receive, Run, ReceiveRunt, ReceiveUnruled, ReceiveIpv4,
         LookupBlock, TestBlock, LookupRange, LookupStats, InsertStats, CheckWindow,
         ShiftWindow, ResetWindow, ClearClasses, StartWindow, StorePackets, StoreL4,
         ComputeRate, Limit, maps
<1> QED BY <1>5, <1>6, <1>7 DEF Next

\* The clock only moves forward, and within its bound.
LEMMA ClockStep ==
  ASSUME TypeOK, [Next]_vars
  PROVE  clock' \in Nat /\ clock <= clock' /\ (clock <= MaxTime => clock' <= MaxTime)
<1>1. clock \in Nat /\ MaxTime \in Nat
    BY CtlAssumption DEF TypeOK, RulesTypeOK
<1>2. CASE clock' = clock
    BY <1>1, <1>2
<1>3. CASE Tick
    BY <1>1, <1>3 DEF Tick
<1>4. CASE Command \/ UNCHANGED vars
    BY <1>2, <1>4 DEF Command, cmd_block, cmd_unblock, cmd_range, cmd_unrange, Ratelimit,
                      SetEnabled, vars
<1>5. ASSUME NEW c \in Cpus, fw_prog(c) PROVE clock' = clock
    BY <1>5 DEF fw_prog, Receive, Run, ReceiveRunt, ReceiveUnruled, ReceiveIpv4,
         LookupBlock, TestBlock, DeleteExpired, LookupRange, LookupStats, InsertStats,
         CheckWindow, ShiftWindow, ResetWindow, ClearClasses, StartWindow, StorePackets,
         StoreL4, ComputeRate, Limit
<1> QED BY <1>2, <1>3, <1>4, <1>5 DEF Next

\* Within the bounds of NoWrap an entry is in effect when it is written.
LEMMA FreshBlock ==
  ASSUME TypeOK, clock <= MaxTime, NEW sec \in BanSecs
  PROVE  InEffect(BlockExpiry(clock, sec), clock)
<1>0. /\ clock \in Nat /\ MaxTime \in Nat /\ sec \in Int
      /\ NsPerSec \in Nat \ {0} /\ WordMod \in Nat \ {0}
    BY MapsAssumption, CtlAssumption DEF TypeOK, RulesTypeOK
<1>1. CASE ~(sec > 0)
    BY <1>0, <1>1 DEF BlockExpiry, InEffect, Absent
<1>2. CASE sec > 0
    <2> DEFINE ns == sec * NsPerSec
    <2>1. ns \in Nat /\ MaxTime + ns < WordMod
        BY <1>0, <1>2, NoWrap
    <2>2. \A a \in Nat, m \in Nat \ {0} : a < m => a % m = a
        OBVIOUS
    <2>3. BlockExpiry(clock, sec) = (clock + (ns % WordMod)) % WordMod
        BY <1>2 DEF BlockExpiry
    <2> HIDE DEF ns
    <2>4. ns % WordMod = ns
        BY <1>0, <2>1, <2>2
    <2>5. (clock + ns) % WordMod = clock + ns
        BY <1>0, <2>1, <2>2
    <2> QED BY <1>0, <2>1, <2>3, <2>4, <2>5 DEF InEffect, Absent
<1> QED BY <1>1, <1>2

\* An entry that is in effect now was so at any earlier time.
LEMMA EarlierEffect ==
  ASSUME NEW exp \in Nat \cup {Absent}, NEW t \in Nat, NEW u \in Nat, t <= u,
         InEffect(exp, u)
  PROVE  InEffect(exp, t)
  BY DEF InEffect, Absent

-----------------------------------------------------------------------------
(* Verdicts: the inductive invariant.                                      *)

\* The frame's own steps leave the clock and the rules alone, but for the
\* delete of an expired block.
LEMMA OwnStep ==
  ASSUME TypeOK, Next, NEW c \in Cpus, Busy(c), cpu'[c] # cpu[c]
  PROVE  /\ clock' = clock /\ pps' = pps /\ ranges' = ranges
         /\ cpu[c].pc # "expire" => blockElem' = blockElem /\ blockExp' = blockExp
<1>1. fw_prog(c)
    BY OwnRegisters, ControlKeepsCpus DEF Next
<1>2. CASE Receive(c)
    BY <1>2 DEF Receive, ReceiveRunt, ReceiveUnruled, ReceiveIpv4, Busy
<1>3. CASE \/ LookupBlock(c) \/ TestBlock(c) \/ DeleteExpired(c)
           \/ LookupRange(c) \/ LookupStats(c)
    BY <1>3 DEF LookupBlock, TestBlock, DeleteExpired, LookupRange, LookupStats, maps
<1>4. CASE \/ InsertStats(c) \/ CheckWindow(c) \/ ShiftWindow(c)
           \/ ResetWindow(c) \/ ClearClasses(c)
    BY <1>4 DEF InsertStats, CheckWindow, ShiftWindow, ResetWindow, ClearClasses, maps
<1>5. CASE StartWindow(c) \/ StorePackets(c) \/ StoreL4(c) \/ ComputeRate(c) \/ Limit(c)
    BY <1>5 DEF StartWindow, StorePackets, StoreL4, ComputeRate, Limit, maps
<1> QED BY <1>1, <1>2, <1>3, <1>4, <1>5 DEF fw_prog, Run

\* A frame that has just arrived starts with the rules in force.
LEMMA ArrivalHistory ==
  ASSUME TypeOK, Next, Observe, NEW c \in Cpus, ~Busy(c), Busy(c)'
  PROVE  HistoryOK(c)'
<1>1. hist'[c] = [held |-> InForce(cpu[c].src)', seen |-> InForce(cpu[c].src)']
    BY DEF Observe, Observed
<1>2. fw_prog(c)
    BY OwnRegisters, ControlKeepsCpus DEF Next, Busy
<1>3. Receive(c)
    BY <1>2 DEF fw_prog, Run, LookupBlock, TestBlock, DeleteExpired, LookupRange, LookupStats,
         InsertStats, CheckWindow, ShiftWindow, ResetWindow, ClearClasses, StartWindow,
         StorePackets, StoreL4, ComputeRate, Limit, Busy
<1>4. PICK f \in Frames : ReceiveIpv4(c, f)
    BY <1>3 DEF Receive, ReceiveRunt, ReceiveUnruled, Busy
<1>5. cpu'[c].now = clock /\ clock' = clock /\ cpu'[c].pc = "block" /\ clock \in Nat
    BY <1>4 DEF ReceiveIpv4, TypeOK, RulesTypeOK
<1>6. InEffect(blocklist[cpu[c].src], cpu[c].now)' => "block" \in InForce(cpu[c].src)'
    BY <1>5 DEF InForce, Blocks, InEffect, Rules
<1> QED BY <1>1, <1>5, <1>6 DEF HistoryOK

\* A frame that stays in flight keeps its history in step.
LEMMA FlightHistory ==
  ASSUME TypeOK, TypeOK', HistoryInv, Next, Observe, NEW c \in Cpus, Busy(c), Busy(c)'
  PROVE  HistoryOK(c)'
<1> DEFINE src == cpu[c].src
           now == cpu[c].now
           force == InForce(cpu[c].src)'
<1>1. Onward(c) /\ Relisted /\ clock' \in Nat /\ clock <= clock' /\ clock <= MaxTime
    BY FlightStep, BlocklistStep, ClockStep DEF HistoryInv
<1>2. /\ HistoryOK(c) /\ clock \in Nat /\ now \in Nat /\ src \in Sources
      /\ blockElem \in [Sources -> BlockElements \cup {Absent}]
      /\ blockElem' \in [Sources -> BlockElements \cup {Absent}]
      /\ blockExp \in [BlockElements -> Nat]
      /\ blockExp' \in [BlockElements -> Nat]
      /\ cpu[c].pc = "test" => cpu[c].exp \in BlockElements
      /\ cpu'[c].pc = "test" => cpu'[c].exp \in BlockElements
      /\ Absent \notin BlockElements
    BY DEF HistoryInv, TypeOK, RulesTypeOK, CpuState, CpuRecord, Busy, BlockElements, Absent
<1>10. /\ now <= clock
       /\ hist[c].held \subseteq InForce(src)
       /\ cpu[c].pc = "test" /\ "block" \in hist[c].held => InEffect(blockExp[cpu[c].exp], now)
    BY <1>2 DEF HistoryOK
<1>11. blocklist[src] = IF blockElem[src] = Absent THEN Absent ELSE blockExp[blockElem[src]]
    BY <1>2 DEF blocklist
<1>12. /\ blocklist'[src] = IF blockElem'[src] = Absent THEN Absent ELSE blockExp'[blockElem'[src]]
       /\ \A ip \in Sources : blocklist'[ip] = IF blockElem'[ip] = Absent THEN Absent
                                             ELSE blockExp'[blockElem'[ip]]
    BY <1>2 DEF blocklist
<1>13. "block" \in hist[c].held => /\ blockElem[src] # Absent
                                  /\ InEffect(blockExp[blockElem[src]], now)
    <2>1. SUFFICES ASSUME "block" \in hist[c].held
                   PROVE  /\ blockElem[src] # Absent
                          /\ InEffect(blockExp[blockElem[src]], now)
        OBVIOUS
    <2>2. InEffect(blocklist[src], clock)
        BY <1>10, <2>1 DEF InForce, Blocks, InEffect
    <2>3. blockElem[src] # Absent /\ InEffect(blockExp[blockElem[src]], clock)
        BY <1>11, <2>2 DEF InEffect
    <2>4. blockExp[blockElem[src]] \in Nat \cup {Absent}
        BY <1>2, <2>3
    <2> QED BY <1>2, <1>10, <2>3, <2>4, EarlierEffect
<1>14. ASSUME clock' = clock, NEW sec \in BanSecs
       PROVE  /\ InEffect(BlockExpiry(clock, sec), clock')
              /\ InEffect(BlockExpiry(clock, sec), now)
    <2>1. BlockExpiry(clock, sec) \in Nat
        BY <1>2, ExpiryNat, CtlAssumption
    <2>2. InEffect(BlockExpiry(clock, sec), clock)
        BY <1>1, FreshBlock
    <2> QED BY <1>2, <1>10, <1>14, <2>1, <2>2, EarlierEffect
<1>0. /\ hist'[c].held \subseteq hist[c].held
      /\ hist'[c].held \subseteq force
      /\ hist'[c].seen = hist[c].seen \cup force \cup {r \in {"recycled"} : Recycled(c)'}
    <2>1. hist'[c].seen = hist[c].seen \cup force \cup {r \in {"recycled"} : Recycled(c)'}
        BY DEF Observe, Observed
    <2>2. CASE cpu'[c] = cpu[c]
        BY <2>1, <2>2 DEF Observe, Observed
    <2>3. CASE cpu'[c] # cpu[c]
        <3>1. hist'[c].held = hist[c].held
            BY <2>3 DEF Observe, Observed
        <3>3. cpu[c].pc = "expire" => "block" \notin hist[c].held
            BY <1>2 DEF HistoryOK
        <3>4. /\ clock' = clock /\ pps' = pps /\ ranges' = ranges
              /\ cpu[c].pc # "expire" => blocklist'[src] = blocklist[src]
            BY <1>11, <1>12, <2>3, OwnStep
        <3>5. cpu'[c].src = src
            BY <1>1 DEF Onward
        <3>6. \A r \in hist[c].held : r \in force
            BY <1>10, <3>3, <3>4, <3>5 DEF InForce, Blocks, InEffect
        <3> QED BY <2>1, <3>1, <3>6
    <2> QED BY <2>2, <2>3
<1>15. /\ force \subseteq hist'[c].seen
       /\ hist[c].seen \subseteq hist'[c].seen
       /\ Recycled(c)' => "recycled" \in hist'[c].seen
    BY <1>0
<1>16. blocklist'[src] # Absent /\ InEffect(blocklist'[src], clock') => "block" \in hist'[c].seen
    <2>1. cpu'[c].src = src
        BY <1>1 DEF Onward
    <2> QED BY <1>15, <2>1 DEF InForce, Blocks, InEffect, Rules
<1>3. (cpu[c].now <= clock)'
    BY <1>1, <1>2, <1>10 DEF Onward
<1>4. cpu'[c].pc \notin {"block", "test"} => "block" \notin hist'[c].held
    <2>1. CASE cpu[c].pc \notin {"block", "test"}
        BY <1>0, <1>2, <2>1 DEF HistoryOK
    <2>2. CASE cpu[c].pc \in {"block", "test"} /\ cpu'[c].pc \notin {"block", "test"}
        BY <1>0, <1>1, <1>10, <1>13, <2>2 DEF Onward
    <2> QED BY <2>1, <2>2
<1>5. cpu'[c].pc \notin {"block", "test", "expire", "range"} => "range" \notin hist'[c].held
    <2>1. CASE cpu[c].pc \notin {"block", "test", "expire", "range"}
        BY <1>0, <1>2, <2>1 DEF HistoryOK
    <2>2. CASE /\ cpu[c].pc \in {"block", "test", "expire", "range"}
               /\ cpu'[c].pc \notin {"block", "test", "expire", "range"}
        <3>1. ~LpmLookup(ranges, src)
            BY <1>1, <2>2 DEF Onward
        <3>2. "range" \notin InForce(src)
            BY <3>1 DEF InForce, Blocks, InEffect
        <3> QED BY <1>0, <1>10, <3>2
    <2> QED BY <2>1, <2>2
<1>6. cpu'[c].pc = "block" /\ InEffect(blocklist'[src], now) => "block" \in hist'[c].seen
    <2> SUFFICES ASSUME cpu'[c].pc = "block", InEffect(blocklist'[src], now)
                 PROVE  "block" \in hist'[c].seen
        OBVIOUS
    <2>1. blocklist'[src] # Absent
        BY DEF InEffect
    <2>2. CASE blocklist'[src] = blocklist[src]
        <3>1. cpu[c].pc = "block"
            BY <1>1 DEF Onward
        <3> QED BY <1>2, <1>15, <2>2, <3>1 DEF HistoryOK
    <2>3. CASE /\ blockExp' = blockExp
               /\ \A ip \in Sources : blockElem'[ip] \in {blockElem[ip], Absent}
        BY <1>2, <1>11, <1>12, <2>1, <2>2, <2>3
    <2>4. ASSUME clock' = clock, NEW sec \in BanSecs, NEW k \in Sources, NEW e \in BlockElements,
                 blockElem' = LruAssign(blockElem, k, e),
                 blockExp' = [blockExp EXCEPT ![e] = BlockExpiry(clock, sec)]
          PROVE  "block" \in hist'[c].seen
        <3>1. CASE blockElem'[src] = e
            <4>1. blocklist'[src] = BlockExpiry(clock, sec)
                BY <1>2, <1>12, <2>4, <3>1
            <4> QED BY <1>14, <1>16, <2>1, <2>4, <4>1
        <3>2. CASE blockElem'[src] # e
            <4>1. blockElem'[src] \in {blockElem[src], Absent}
                BY <1>2, <2>4, <3>2 DEF LruAssign
            <4>2. blockElem'[src] = blockElem[src] /\ blockElem[src] # Absent
                BY <1>12, <2>1, <4>1
            <4>3. blockExp'[blockElem[src]] = blockExp[blockElem[src]]
                BY <1>2, <2>4, <3>2, <4>2
            <4> QED BY <1>11, <1>12, <2>2, <4>2, <4>3
        <3> QED BY <3>1, <3>2
    <2> QED BY <1>1, <2>3, <2>4 DEF Relisted
<1>7. /\ cpu'[c].pc = "test" /\ InEffect(blockExp'[cpu'[c].exp], now)
            => hist'[c].seen \cap {"block", "recycled"} # {}
      /\ cpu'[c].pc = "test" /\ "block" \in hist'[c].held
            => InEffect(blockExp'[cpu'[c].exp], now)
    <2> DEFINE x == cpu'[c].exp
    <2> SUFFICES ASSUME cpu'[c].pc = "test"
                 PROVE  /\ InEffect(blockExp'[x], now)
                             => hist'[c].seen \cap {"block", "recycled"} # {}
                        /\ "block" \in hist'[c].held => InEffect(blockExp'[x], now)
        OBVIOUS
    <2>1. x \in BlockElements
        BY <1>2
    <2>2. CASE blockExp'[x] = blockExp[x] /\ cpu[c].pc = "test"
        <3>1. x = cpu[c].exp
            BY <1>1, <2>2 DEF Onward
        <3>2. InEffect(blockExp[x], now) => hist[c].seen \cap {"block", "recycled"} # {}
            BY <1>2, <2>2, <3>1 DEF HistoryOK
        <3> QED BY <1>0, <1>10, <1>15, <2>2, <3>1, <3>2
    <2>3. CASE blockExp'[x] = blockExp[x] /\ cpu[c].pc # "test"
        <3>1. cpu[c].pc = "block" /\ x = blockElem[src]
            BY <1>1, <2>3 DEF Onward
        <3>2. blocklist[src] = blockExp[x]
            BY <1>2, <1>11, <2>1, <3>1
        <3>3. InEffect(blockExp[x], now) => "block" \in hist[c].seen
            BY <1>2, <3>1, <3>2 DEF HistoryOK
        <3> QED BY <1>0, <1>13, <1>15, <2>3, <3>1, <3>3
    <2>4. ASSUME clock' = clock, NEW sec \in BanSecs, NEW k \in Sources, NEW e \in BlockElements,
                 blockElem' = LruAssign(blockElem, k, e),
                 blockExp' = [blockExp EXCEPT ![e] = BlockExpiry(clock, sec)]
          PROVE  /\ InEffect(blockExp'[x], now)
                      => hist'[c].seen \cap {"block", "recycled"} # {}
                 /\ "block" \in hist'[c].held => InEffect(blockExp'[x], now)
        <3>1. CASE x = e
            <4>1. blockExp'[x] = BlockExpiry(clock, sec) /\ blockElem'[k] = x
                BY <1>2, <2>4, <3>1 DEF LruAssign
            <4>2. blocklist'[k] = BlockExpiry(clock, sec) /\ BlockExpiry(clock, sec) # Absent
                BY <1>2, <1>12, <1>14, <2>1, <2>4, <4>1 DEF InEffect
            <4>3. CASE k = src
                BY <1>14, <1>16, <2>4, <4>1, <4>2, <4>3
            <4>4. CASE k # src
                <5>1. cpu'[c].src = src
                    BY <1>1 DEF Onward
                <5>2. Blocks(blocklist'[k], clock')
                    BY <1>14, <2>4, <4>2 DEF Blocks, InEffect
                <5>3. Recycled(c)'
                    BY <4>1, <4>4, <5>1, <5>2 DEF Recycled
                <5> QED BY <1>14, <1>15, <2>4, <4>1, <5>3
            <4> QED BY <4>3, <4>4
        <3>2. CASE x # e
            <4>1. blockExp'[x] = blockExp[x]
                BY <1>2, <2>1, <2>4, <3>2
            <4> QED BY <2>2, <2>3, <4>1
        <3> QED BY <3>1, <3>2
    <2> QED BY <1>1, <2>2, <2>3, <2>4 DEF Relisted
<1>8. cpu'[c].src = src /\ cpu'[c].now = now
    BY <1>1 DEF Onward
<1> QED BY <1>0, <1>3, <1>4, <1>5, <1>6, <1>7, <1>8, <1>15 DEF HistoryOK

\* Every step keeps the histories in step with the frames.
LEMMA HistoryStep ==
  ASSUME TypeOK, TypeOK', HistoryInv, [VNext]_vvars
  PROVE  HistoryInv'
<1>1. CASE UNCHANGED vvars
    BY <1>1 DEF vvars, vars, maps, HistoryInv, HistoryOK, Busy, InForce, blocklist
<1>2. CASE VNext
    <2>1. Next /\ Observe
        BY <1>2 DEF VNext
    <2>2. clock' <= MaxTime
        BY <2>1, ClockStep DEF HistoryInv
    <2>3. hist' \in [Cpus -> [held : SUBSET Rules, seen : SUBSET (Rules \cup {"recycled"})]]
        <3>1. \A ip : InForce(ip)' \subseteq Rules
            BY DEF InForce, Blocks, InEffect
        <3>2. \A c \in Cpus : Observed(c) \in [held : SUBSET Rules,
                                             seen : SUBSET (Rules \cup {"recycled"})]
            BY <3>1 DEF Observed, NoHistory, HistoryInv
        <3> QED BY <2>1, <3>2 DEF Observe
    <2>4. ASSUME NEW c \in Cpus, Busy(c)' PROVE HistoryOK(c)'
        BY <2>1, <2>4, ArrivalHistory, FlightHistory
    <2> QED BY <2>2, <2>3, <2>4 DEF HistoryInv
<1> QED BY <1>1, <1>2

\* For any number of CPUs, commands and frames: a rule that fw_prog has gone
\* past for a frame has not been in force for the whole flight of the frame,
\* whatever the commands, the clock and the other CPUs did in between.
THEOREM HistoryInvariant == VSpec => [](TypeOK /\ HistoryInv)
<1>1. VInit => TypeOK /\ HistoryInv
    <2> SUFFICES ASSUME VInit PROVE TypeOK /\ HistoryInv
        OBVIOUS
    <2>1. Init
        BY DEF VInit
    <2>2. HistoryInv
        BY CtlAssumption DEF VInit, Init, Idle, NoHistory, HistoryInv, Busy
    <2> QED BY <2>1, <2>2, InitType
<1>2. TypeOK /\ HistoryInv /\ [VNext]_vvars => TypeOK' /\ HistoryInv'
    <2> SUFFICES ASSUME TypeOK, HistoryInv, [VNext]_vvars PROVE TypeOK' /\ HistoryInv'
        OBVIOUS
    <2>1. [Next]_vars
        BY DEF VNext, vvars
    <2>2. TypeOK'
        BY <2>1, NextType
    <2> QED BY <2>2, HistoryStep
<1> QED BY <1>1, <1>2, PTL DEF VSpec

-----------------------------------------------------------------------------
(* Verdicts: the theorems.                                                 *)

\* Which rule returned, when a frame in flight ends.
LEMMA ReturnStep ==
  ASSUME TypeOK, [Next]_vars, NEW c \in Cpus, NEW v, Returns(c, v)
  PROVE  \/ /\ v = "XDP_DROP" /\ cpu[c].pc = "test"
            /\ InEffect(blockExp[cpu[c].exp], cpu[c].now)
         \/ /\ v = "XDP_DROP" /\ cpu[c].pc = "range"
            /\ LpmLookup(ranges, cpu[c].src)
         \/ /\ cpu[c].pc = "limit"
            /\ v = IF OverLimit(cpu[c].rate) THEN "XDP_DROP" ELSE "XDP_PASS"
<1>0. cpu \in [Cpus -> CpuState] /\ cpu[c] \in CpuRecord /\ c \in DOMAIN verdict
    BY DEF TypeOK, CpuState, VerdictTypeOK
<1>1. fw_prog(c)
    BY OwnRegisters, ControlKeepsCpus DEF Next, Returns, Busy
<1>2. CASE TestBlock(c)
    BY <1>0, <1>2 DEF TestBlock, Return, Returns, Busy, CpuRecord
<1>3. CASE LookupRange(c)
    BY <1>0, <1>3 DEF LookupRange, Return, Returns, Busy, CpuRecord
<1>4. CASE Limit(c)
    BY <1>0, <1>4 DEF Limit, Return, Returns
<1>5. ~Receive(c)
    BY DEF Receive, ReceiveRunt, ReceiveUnruled, ReceiveIpv4, Returns, Busy
<1>6. ~(DeleteExpired(c) \/ LookupStats(c) \/ InsertStats(c) \/ CheckWindow(c))
    BY <1>0 DEF DeleteExpired, LookupStats, InsertStats, CheckWindow, Returns, Busy, CpuRecord
<1>9. ~LookupBlock(c)
    BY <1>0 DEF LookupBlock, Returns, Busy, CpuRecord
<1>7. ~(ShiftWindow(c) \/ ResetWindow(c) \/ ClearClasses(c) \/ StartWindow(c))
    BY <1>0 DEF ShiftWindow, ResetWindow, ClearClasses, StartWindow, Returns, Busy, CpuRecord
<1>8. ~(StorePackets(c) \/ StoreL4(c) \/ ComputeRate(c))
    BY <1>0 DEF StorePackets, StoreL4, ComputeRate, Returns, Busy, CpuRecord
<1> QED BY <1>1, <1>2, <1>3, <1>4, <1>5, <1>6, <1>7, <1>8, <1>9 DEF fw_prog, Run

\* A source that is blocked, or inside a dropped range, for the whole flight
\* of its frame does not get it through, whatever commands, expiries,
\* deletions and evictions happen around it.
THEOREM BlockedNeverPass == VSpec => NoPassWhileHeld
<1> DEFINE Step == \A c \in Cpus : Returns(c, "XDP_PASS") => hist[c].held \subseteq {"limit"}
<1>1. TypeOK /\ HistoryInv /\ [VNext]_vvars => [Step]_vvars
    <2> SUFFICES ASSUME TypeOK, HistoryInv, [VNext]_vvars,
                        NEW c \in Cpus, Returns(c, "XDP_PASS")
                 PROVE  hist[c].held \subseteq {"limit"}
        OBVIOUS
    <2>1. [Next]_vars
        BY DEF VNext, vvars
    <2>2. cpu[c].pc = "limit"
        BY <2>1, ReturnStep
    <2>3. HistoryOK(c) /\ hist[c].held \subseteq Rules
        BY DEF HistoryInv, Returns
    <2> QED BY <2>2, <2>3 DEF HistoryOK, Rules
<1> QED BY <1>1, HistoryInvariant, PTL DEF VSpec, NoPassWhileHeld

\* A frame is dropped only if a rule was in force against its source at some
\* moment of its flight, or the element of the block list that its lookup had
\* found was given to a block of another source before it was read.
THEOREM DropsHaveCause == VSpec => NoDropWithoutCause
<1> DEFINE Step == \A c \in Cpus : Returns(c, "XDP_DROP") => hist[c].seen # {}
<1>1. TypeOK /\ HistoryInv /\ [VNext]_vvars => [Step]_vvars
    <2> SUFFICES ASSUME TypeOK, HistoryInv, [VNext]_vvars,
                        NEW c \in Cpus, Returns(c, "XDP_DROP")
                 PROVE  hist[c].seen # {}
        OBVIOUS
    <2>1. [Next]_vars
        BY DEF VNext, vvars
    <2>2. HistoryOK(c)
        BY DEF HistoryInv, Returns
    <2>3. CASE cpu[c].pc = "test" /\ InEffect(blockExp[cpu[c].exp], cpu[c].now)
        BY <2>2, <2>3 DEF HistoryOK
    <2>4. CASE LpmLookup(ranges, cpu[c].src)
        BY <2>2, <2>4 DEF HistoryOK, InForce, Rules
    <2>5. CASE OverLimit(cpu[c].rate)
        BY <2>2, <2>5 DEF HistoryOK, InForce, Rules, OverLimit
    <2> QED BY <2>1, <2>3, <2>4, <2>5, ReturnStep
<1> QED BY <1>1, HistoryInvariant, PTL DEF VSpec, NoDropWithoutCause

-----------------------------------------------------------------------------
(* Sums over a finite set, for any number of terms.  The induction theorems *)
(* of the library are about an operator; here what is to be proved is a     *)
(* set, and the least element outside it leads to a contradiction.          *)

\* A set of natural numbers that is not empty has a least element.  With it an
\* induction is a search for the least counterexample.
LEMMA LeastNatural ==
  ASSUME NEW T, T \subseteq Nat, T # {}
  PROVE  \E n \in T : \A m \in T : n <= m
<1> DEFINE R == OpToRel(<, Nat)
<1>1. IsWellFoundedOn(R, Nat)
    BY NatLessThanWellFounded, Zenon
<1>2. \A x, y \in Nat : y < x => <<y, x>> \in R
    BY DEF OpToRel
<1> HIDE DEF R
<1>3. \E x \in T : \A y \in T : ~ (<<y, x>> \in R)
    BY <1>1, WFMin, Zenon
<1>4. PICK x \in T : \A y \in T : ~ (<<y, x>> \in R)
    BY <1>3
<1>5. ASSUME NEW y \in T PROVE x <= y
    <2>1. x \in Nat /\ y \in Nat
        OBVIOUS
    <2>2. ~(y < x)
        BY <1>2, <1>4, <2>1
    <2> QED BY <2>1, <2>2
<1> QED BY <1>5

\* What contains 0 and with each number the next one contains all up to N.
LEMMA NatsUpTo ==
  ASSUME NEW N \in Nat, NEW T, 0 \in T, \A n \in 0..(N - 1) : n \in T => n + 1 \in T
  PROVE  0..N \subseteq T
<1> DEFINE C == {n \in 0..N : n \notin T}
<1> SUFFICES ASSUME C # {} PROVE FALSE
    OBVIOUS
<1>1. C \subseteq Nat
    OBVIOUS
<1>2. PICK n \in C : \A m \in C : n <= m
    <2> HIDE DEF C
    <2> QED BY <1>1, LeastNatural
<1>3. n # 0
    OBVIOUS
<1>4. n - 1 \in 0..(N - 1) /\ n - 1 \notin C
    BY <1>2, <1>3
<1> QED BY <1>4

\* The recursion of the fold behind SumFunctionOnSet.
Pick(s) == CHOOSE x \in s : TRUE
FoldStep(fold, f, s) == IF s = {} THEN 0 ELSE f[Pick(s)] + fold[s \ {Pick(s)}]
IsFold(fold, f, S) == fold = [s \in SUBSET S |-> FoldStep(fold, f, s)]

\* A fold takes an element out of the set, which makes it smaller.
LEMMA PickFacts ==
  ASSUME NEW s, IsFiniteSet(s), s # {}
  PROVE  /\ Pick(s) \in s /\ IsFiniteSet(s \ {Pick(s)})
         /\ Cardinality(s) \in Nat /\ Cardinality(s \ {Pick(s)}) = Cardinality(s) - 1
<1>1. Pick(s) \in s
    BY Zenon DEF Pick
<1> QED BY <1>1, FS_RemoveElement, FS_CardinalityType

\* There is a function that satisfies the recursion of the fold.
LEMMA SumExists ==
  ASSUME NEW S, IsFiniteSet(S), NEW f
  PROVE  \E fold : IsFold(fold, f, S)
<1> DEFINE N == Cardinality(S)
           Part(n) == {s \in SUBSET S : Cardinality(s) <= n}
           T == {n \in 0..N : \E fold : \A s \in Part(n) : fold[s] = FoldStep(fold, f, s)}
<1>0. /\ N \in Nat
      /\ \A s \in SUBSET S :
           IsFiniteSet(s) /\ Cardinality(s) \in Nat /\ Cardinality(s) <= N
    BY FS_CardinalityType, FS_Subset
<1>1. 0 \in T
  <2> DEFINE fold == [s \in SUBSET S |-> 0]
  <2>1. ASSUME NEW s \in Part(0) PROVE fold[s] = FoldStep(fold, f, s)
    <3>1. s = {}
      BY <1>0, FS_EmptySet
    <3> QED BY <3>1 DEF FoldStep
  <2>2. 0 \in 0..N
    BY <1>0
  <2> QED BY <2>1, <2>2
<1>2. ASSUME NEW n \in 0..(N - 1), n \in T PROVE n + 1 \in T
  <2>1. PICK r : \A s \in Part(n) : r[s] = FoldStep(r, f, s)
     BY <1>2
  <2> DEFINE fold == [s \in SUBSET S |-> IF Cardinality(s) <= n THEN r[s] ELSE FoldStep(r, f, s)]
  <2>2. ASSUME NEW s \in Part(n + 1) PROVE fold[s] = FoldStep(fold, f, s)
    <3>0. fold[s] = FoldStep(r, f, s)
      BY <2>1
    <3>1. CASE s = {}
      BY <3>0, <3>1 DEF FoldStep
    <3>2. CASE s # {}
      <4> DEFINE u == s \ {Pick(s)}
      <4>1. IsFiniteSet(s)
        BY <1>0
      <4>2. u \in SUBSET S /\ Cardinality(s) \in Nat /\ Cardinality(u) = Cardinality(s) - 1
        BY <4>1, <3>2, PickFacts
      <4>3. fold[u] = r[u]
        <5>1. Cardinality(u) <= n
          <6> HIDE DEF u
          <6>1. Cardinality(s) <= n + 1 /\ n \in Int
            OBVIOUS
          <6> QED BY <4>2, <6>1
        <5> HIDE DEF u
        <5> QED BY <4>2, <5>1
      <4> QED BY <3>0, <3>2, <4>3 DEF FoldStep
    <3> QED BY <3>1, <3>2
  <2>3. n + 1 \in 0..N
    BY <1>0
  <2> QED BY <2>2, <2>3
<1>3. N \in T
  <2> HIDE DEF T, N
  <2>1. 0..N \subseteq T
    BY <1>0, <1>1, <1>2, NatsUpTo
  <2> QED BY <2>1, <1>0
<1>4. PICK r : \A s \in Part(N) : r[s] = FoldStep(r, f, s)
  BY <1>3
<1>5. Part(N) = SUBSET S
  BY <1>0
<1> DEFINE fold == [s \in SUBSET S |-> r[s]]
<1>6. ASSUME NEW s \in SUBSET S PROVE fold[s] = FoldStep(fold, f, s)
  <2>1. fold[s] = FoldStep(r, f, s)
    BY <1>4, <1>5
  <2>2. s \ {Pick(s)} \in SUBSET S
    OBVIOUS
  <2> QED BY <2>1, <2>2 DEF FoldStep
<1>7. IsFold(fold, f, S)
  BY <1>6 DEF IsFold
<1> QED BY <1>7

\* The sum is a value of such a function.
LEMMA SumSteps ==
  ASSUME NEW S, IsFiniteSet(S), NEW f
  PROVE  \E fold : IsFold(fold, f, S) /\ SumFunctionOnSet(f, S) = fold[S]
<1> DEFINE fold == CHOOSE fold : IsFold(fold, f, S)
<1>1. IsFold(fold, f, S)
   BY SumExists, Zenon
<1>2. SumFunctionOnSet(f, S) = fold[S]
   BY DEF SumFunctionOnSet, FoldFunctionOnSet, MapThenFoldSet, IsFold, FoldStep, Pick
<1> QED BY <1>1, <1>2, Zenon
\* Induction over the subsets of a finite set.
LEMMA SubsetInduction ==
  ASSUME NEW S, IsFiniteSet(S), NEW D,
         \A s \in SUBSET S : (\A x \in s : s \ {x} \in D) => s \in D
  PROVE  SUBSET S \subseteq D
<1> SUFFICES ASSUME NEW s0 \in SUBSET S, s0 \notin D PROVE FALSE
    OBVIOUS
<1> DEFINE T == {n \in Nat : \E s \in SUBSET S : s \notin D /\ Cardinality(s) = n}
<1>0. \A s \in SUBSET S : IsFiniteSet(s) /\ Cardinality(s) \in Nat
    BY FS_CardinalityType, FS_Subset
<1>1. T # {} /\ T \subseteq Nat
    BY <1>0
<1>2. PICK n \in T : \A m \in T : n <= m
    <2> HIDE DEF T
    <2> QED BY <1>1, LeastNatural
<1>3. PICK s \in SUBSET S : s \notin D /\ Cardinality(s) = n
    OBVIOUS
<1>4. PICK x \in s : s \ {x} \notin D
    BY <1>3
<1>5. Cardinality(s \ {x}) = n - 1
    BY <1>0, <1>3, FS_RemoveElement
<1>6. n - 1 \in T
    BY <1>0, <1>4, <1>5
<1> QED BY <1>2, <1>6

\* The recursion gives a set the same sum wherever it comes from.
LEMMA SumAgrees ==
  ASSUME NEW S, IsFiniteSet(S), NEW f, NEW fold, IsFold(fold, f, S), NEW t \in SUBSET S
  PROVE  fold[t] = SumFunctionOnSet(f, t)
<1>0. IsFiniteSet(t)
    BY FS_Subset
<1>1. PICK other : IsFold(other, f, t) /\ SumFunctionOnSet(f, t) = other[t]
    BY <1>0, SumSteps
<1> DEFINE D == {s \in SUBSET t : fold[s] = other[s]}
<1>2. ASSUME NEW s \in SUBSET t, \A x \in s : s \ {x} \in D PROVE s \in D
    <2>1. fold[s] = FoldStep(fold, f, s) /\ other[s] = FoldStep(other, f, s)
        BY <1>1 DEF IsFold
    <2>2. CASE s = {}
        BY <2>1, <2>2 DEF FoldStep
    <2>3. CASE s # {}
        <3>1. Pick(s) \in s
            BY <2>3, <1>0, FS_Subset, PickFacts
        <3>2. fold[s \ {Pick(s)}] = other[s \ {Pick(s)}]
            BY <1>2, <3>1
        <3> QED BY <2>1, <3>2 DEF FoldStep
    <2> QED BY <2>2, <2>3
<1>3. SUBSET t \subseteq D
    <2> HIDE DEF D
    <2> QED BY <1>0, <1>2, SubsetInduction
<1> QED BY <1>1, <1>3

\* One step of the fold.
LEMMA SumUnfold ==
  ASSUME NEW S, IsFiniteSet(S), NEW f
  PROVE  SumFunctionOnSet(f, S) =
           IF S = {} THEN 0 ELSE f[Pick(S)] + SumFunctionOnSet(f, S \ {Pick(S)})
<1>1. PICK fold : IsFold(fold, f, S) /\ SumFunctionOnSet(f, S) = fold[S]
    BY SumSteps
<1>2. fold[S] = FoldStep(fold, f, S)
    BY <1>1 DEF IsFold
<1>3. fold[S \ {Pick(S)}] = SumFunctionOnSet(f, S \ {Pick(S)})
    BY <1>1, SumAgrees
<1> QED BY <1>1, <1>2, <1>3 DEF FoldStep

\* Nothing adds up to 0.
LEMMA SumEmpty == ASSUME NEW f PROVE SumFunctionOnSet(f, {}) = 0
<1>1. IsFiniteSet({})
    BY FS_EmptySet
<1> QED BY <1>1, SumUnfold

\* A sum of natural numbers is one.
LEMMA SumNat ==
  ASSUME NEW S, IsFiniteSet(S), NEW f, \A x \in S : f[x] \in Nat
  PROVE  SumFunctionOnSet(f, S) \in Nat
<1> DEFINE D == {s \in SUBSET S : SumFunctionOnSet(f, s) \in Nat}
<1>1. ASSUME NEW s \in SUBSET S, \A x \in s : s \ {x} \in D PROVE s \in D
    <2>1. IsFiniteSet(s)
        BY FS_Subset
    <2>2. s # {} => Pick(s) \in s
        BY <2>1, PickFacts
    <2>3. SumFunctionOnSet(f, s) =
            IF s = {} THEN 0 ELSE f[Pick(s)] + SumFunctionOnSet(f, s \ {Pick(s)})
        BY <2>1, SumUnfold
    <2>4. s # {} => f[Pick(s)] \in Nat /\ SumFunctionOnSet(f, s \ {Pick(s)}) \in Nat
        BY <1>1, <2>2
    <2> QED BY <2>3, <2>4
<1>2. SUBSET S \subseteq D
    <2> HIDE DEF D
    <2> QED BY <1>1, SubsetInduction
<1> QED BY <1>2

\* Any element may be taken out first.
LEMMA SumRemove ==
  ASSUME NEW S, IsFiniteSet(S), NEW f, \A x \in S : f[x] \in Nat, NEW x0 \in S
  PROVE  SumFunctionOnSet(f, S) = f[x0] + SumFunctionOnSet(f, S \ {x0})
<1> DEFINE Sum(s) == SumFunctionOnSet(f, s)
           D == {s \in SUBSET S : \A x \in s : Sum(s) = f[x] + Sum(s \ {x})}
<1>1. \A s \in SUBSET S : IsFiniteSet(s) /\ Sum(s) \in Nat
    BY FS_Subset, SumNat
<1>2. ASSUME NEW s \in SUBSET S, \A x \in s : s \ {x} \in D PROVE s \in D
    <2> SUFFICES ASSUME NEW x \in s PROVE Sum(s) = f[x] + Sum(s \ {x})
        OBVIOUS
    <2> DEFINE y == Pick(s)
    <2>1. y \in s /\ Sum(s) = f[y] + Sum(s \ {y})
        BY <1>1, SumUnfold, PickFacts
    <2> HIDE DEF y
    <2>2. CASE x # y
        <3>1. Sum(s \ {y}) = f[x] + Sum((s \ {y}) \ {x})
            BY <1>2, <2>1, <2>2
        <3>2. Sum(s \ {x}) = f[y] + Sum((s \ {x}) \ {y})
            BY <1>2, <2>1, <2>2
        <3>3. (s \ {x}) \ {y} = (s \ {y}) \ {x} /\ (s \ {y}) \ {x} \in SUBSET S
            OBVIOUS
        <3>4. f[x] \in Nat /\ f[y] \in Nat /\ Sum((s \ {y}) \ {x}) \in Nat
            BY <1>1, <2>1, <3>3
        <3> HIDE DEF Sum
        <3> QED BY <2>1, <3>1, <3>2, <3>3, <3>4
    <2> QED BY <2>1, <2>2
<1>3. SUBSET S \subseteq D
    <2> HIDE DEF D
    <2> QED BY <1>2, SubsetInduction
<1> QED BY <1>3

\* Larger terms have a larger sum.
LEMMA SumMono ==
  ASSUME NEW S, IsFiniteSet(S), NEW f, NEW g,
         \A x \in S : f[x] \in Nat /\ g[x] \in Nat /\ f[x] <= g[x]
  PROVE  SumFunctionOnSet(f, S) <= SumFunctionOnSet(g, S)
<1> DEFINE F(s) == SumFunctionOnSet(f, s)
           G(s) == SumFunctionOnSet(g, s)
           D == {s \in SUBSET S : F(s) <= G(s)}
<1>1. \A s \in SUBSET S : IsFiniteSet(s) /\ F(s) \in Nat /\ G(s) \in Nat
    BY FS_Subset, SumNat
<1>2. ASSUME NEW s \in SUBSET S, \A x \in s : s \ {x} \in D PROVE s \in D
    <2>1. CASE s = {}
        <3>1. F({}) = 0 /\ G({}) = 0
            BY SumEmpty
        <3> QED BY <2>1, <3>1
    <2>2. CASE s # {}
        <3> PICK x \in s : TRUE
            BY <2>2
        <3>1. F(s) = f[x] + F(s \ {x}) /\ G(s) = g[x] + G(s \ {x})
            BY <1>1, SumRemove
        <3>2. F(s \ {x}) <= G(s \ {x}) /\ s \ {x} \in SUBSET S
            BY <1>2
        <3>3. /\ f[x] \in Nat /\ g[x] \in Nat /\ f[x] <= g[x]
              /\ F(s \ {x}) \in Nat /\ G(s \ {x}) \in Nat
            BY <1>1, <3>2
        <3>4. F(s) <= G(s)
            <4> HIDE DEF F, G
            <4> QED BY <3>1, <3>2, <3>3
        <3> QED BY <3>4
    <2> QED BY <2>1, <2>2
<1>3. SUBSET S \subseteq D
    <2> HIDE DEF D
    <2> QED BY <1>2, SubsetInduction
<1> QED BY <1>3

\* The sum depends only on the terms.
LEMMA SumSame ==
  ASSUME NEW S, IsFiniteSet(S), NEW f, NEW g, \A x \in S : f[x] \in Nat /\ f[x] = g[x]
  PROVE  SumFunctionOnSet(f, S) = SumFunctionOnSet(g, S)
<1>1. \A x \in S : /\ f[x] \in Nat /\ g[x] \in Nat
                   /\ f[x] <= g[x] /\ g[x] <= f[x]
    OBVIOUS
<1>2. SumFunctionOnSet(f, S) <= SumFunctionOnSet(g, S)
    BY <1>1, SumMono
<1>3. SumFunctionOnSet(g, S) <= SumFunctionOnSet(f, S)
    BY <1>1, SumMono
<1>4. SumFunctionOnSet(f, S) \in Nat /\ SumFunctionOnSet(g, S) \in Nat
    BY <1>1, SumNat
<1> QED BY <1>2, <1>3, <1>4

\* A sum may be split into two parts.
LEMMA SumSplit ==
  ASSUME NEW S, IsFiniteSet(S), NEW f, \A x \in S : f[x] \in Nat, NEW A \in SUBSET S
  PROVE  SumFunctionOnSet(f, S) = SumFunctionOnSet(f, A) + SumFunctionOnSet(f, S \ A)
<1> DEFINE Sum(s) == SumFunctionOnSet(f, s)
           D == {s \in SUBSET S : Sum(s) = Sum(s \cap A) + Sum(s \ A)}
<1>1. \A s \in SUBSET S : IsFiniteSet(s) /\ Sum(s) \in Nat
    BY FS_Subset, SumNat
<1>2. ASSUME NEW s \in SUBSET S, \A x \in s : s \ {x} \in D PROVE s \in D
    <2>1. CASE s = {}
        <3>1. s \cap A = {} /\ s \ A = {} /\ Sum({}) = 0
            BY <2>1, SumEmpty
        <3> QED BY <2>1, <3>1
    <2>2. CASE s # {}
        <3> PICK x \in s : TRUE
            BY <2>2
        <3> DEFINE u == s \ {x}
        <3>1. Sum(s) = f[x] + Sum(u)
            BY <1>1, SumRemove
        <3>2. Sum(u) = Sum(u \cap A) + Sum(u \ A)
            BY <1>2
        <3>3. f[x] \in Nat /\ Sum(u \cap A) \in Nat /\ Sum(u \ A) \in Nat
            BY <1>1
        <3>4. Sum(s) = Sum(s \cap A) + Sum(s \ A)
            <4>1. CASE x \in A
                <5>0. s \ A = u \ A /\ (s \cap A) \ {x} = u \cap A
                    BY <4>1
                <5>1. Sum(s \ A) = Sum(u \ A) /\ Sum((s \cap A) \ {x}) = Sum(u \cap A)
                    BY <5>0
                <5>2. Sum(s \cap A) = f[x] + Sum((s \cap A) \ {x})
                    BY <1>1, <4>1, SumRemove
                <5> HIDE DEF Sum, u
                <5> QED BY <3>1, <3>2, <3>3, <5>1, <5>2
            <4>2. CASE x \notin A
                <5>0. s \cap A = u \cap A /\ (s \ A) \ {x} = u \ A
                    BY <4>2
                <5>1. Sum(s \cap A) = Sum(u \cap A) /\ Sum((s \ A) \ {x}) = Sum(u \ A)
                    BY <5>0
                <5>2. Sum(s \ A) = f[x] + Sum((s \ A) \ {x})
                    BY <1>1, <4>2, SumRemove
                <5> HIDE DEF Sum, u
                <5> QED BY <3>1, <3>2, <3>3, <5>1, <5>2
            <4> QED BY <4>1, <4>2
        <3> QED BY <3>4
    <2> QED BY <2>1, <2>2
<1>3. SUBSET S \subseteq D
    <2> HIDE DEF D
    <2> QED BY <1>2, SubsetInduction
<1>4. S \cap A = A /\ Sum(S) = Sum(S \cap A) + Sum(S \ A)
    BY <1>3
<1> QED BY <1>4

-----------------------------------------------------------------------------
(* The totals: the inductive invariant.                                    *)

ReaderTypeOK ==
  /\ reader \in [pc : {"wait", "copy", "print"}, i : Nat, w : 1..3,
                 total : [{"rx", "dropped", "passed"} -> Nat]]
  /\ reader.pc = "copy" => reader.i \in Cpus

\* How far the received frames of the copy may be ahead of those it shows as
\* decided: one for each CPU that has been copied, and, in the middle of a
\* CPU, what the words that are still to be read are sure to add.
CopyBounded ==
  LET t == reader.total
      c == counters[reader.i]
      ahead(n) == t["rx"] <= t["dropped"] + t["passed"] + n
  IN  /\ reader.pc = "copy" /\ reader.w = 1 => ahead(reader.i)
      /\ reader.pc = "copy" /\ reader.w = 2 => ahead(reader.i + 1 + c.dropped + c.passed)
      /\ reader.pc = "copy" /\ reader.w = 3 => ahead(reader.i + 1 + c.passed)
      /\ reader.pc = "print" => ahead(ncpu)

StatsInv == TypeOK /\ CountersBalance /\ ReaderTypeOK /\ CopyBounded

-----------------------------------------------------------------------------
(* The totals: its preservation.                                           *)

\* The words of struct Counters.
LEMMA WordFacts ==
  /\ Range(Words) = {"rx", "dropped", "passed"} /\ Len(Words) = 3
  /\ Words[1] = "rx" /\ Words[2] = "dropped" /\ Words[3] = "passed"
<1>1. /\ DOMAIN Words = 1..3 /\ Len(Words) = 3
      /\ Words[1] = "rx" /\ Words[2] = "dropped" /\ Words[3] = "passed"
    BY DEF Words
<1>2. 1..3 = {1, 2, 3}
    OBVIOUS
<1> QED BY <1>1, <1>2 DEF Range

\* fw_prog only adds to its counters.
LEMMA CountersGrow ==
  ASSUME TypeOK, [Next]_vars, NEW c \in Cpus
  PROVE  /\ counters[c].rx <= counters'[c].rx
         /\ counters[c].dropped <= counters'[c].dropped
         /\ counters[c].passed <= counters'[c].passed
<1>0. /\ counters \in [Cpus -> [rx : Nat, dropped : Nat, passed : Nat]]
      /\ counters[c].rx \in Nat /\ counters[c].dropped \in Nat /\ counters[c].passed \in Nat
    BY DEF TypeOK, VerdictTypeOK
<1>1. CASE counters' = counters
    BY <1>0, <1>1
<1>2. ASSUME NEW d \in Cpus, NEW n \in {0, 1}, NEW v, counters' = Counted(d, n, v)
      PROVE  /\ counters[c].rx <= counters'[c].rx
             /\ counters[c].dropped <= counters'[c].dropped
             /\ counters[c].passed <= counters'[c].passed
    BY <1>0, <1>2 DEF Counted, One
<1>3. CASE Tick \/ Command \/ UNCHANGED vars
    BY <1>1, <1>3 DEF Tick, Command, cmd_block, cmd_unblock, cmd_range, cmd_unrange, Ratelimit,
                      SetEnabled, dataPlane, vars
<1>4. ASSUME NEW d \in Cpus, Receive(d)
      PROVE  counters' = counters \/ \E n \in {0, 1}, v \in {"none", "XDP_DROP", "XDP_PASS"} :
                                        counters' = Counted(d, n, v)
    BY <1>4 DEF Receive, ReceiveRunt, ReceiveUnruled, ReceiveIpv4
<1>5. ASSUME NEW d \in Cpus, Run(d)
      PROVE  counters' = counters \/ \E n \in {0, 1}, v \in {"none", "XDP_DROP", "XDP_PASS"} :
                                        counters' = Counted(d, n, v)
    BY <1>5 DEF Run, LookupBlock, TestBlock, DeleteExpired, LookupRange, LookupStats,
                InsertStats, CheckWindow, ShiftWindow, ResetWindow, ClearClasses, StartWindow,
                StorePackets, StoreL4, ComputeRate, Limit, Return
<1> QED BY <1>1, <1>2, <1>3, <1>4, <1>5 DEF Next, fw_prog

\* The steps of the firewall can only widen the bound.
LEMMA FirewallBounded ==
  ASSUME StatsInv, [Next]_vars, UNCHANGED reader
  PROVE  StatsInv'
<1>0. TypeOK' /\ CountersBalance'
    BY NextType, NextBalance DEF StatsInv
<1>1. ReaderTypeOK'
    BY DEF StatsInv, ReaderTypeOK
<1>2. CopyBounded'
    <2> DEFINE i == reader.i
    <2>0. /\ reader.total["rx"] \in Nat /\ reader.total["dropped"] \in Nat
          /\ reader.total["passed"] \in Nat /\ i \in Nat /\ ncpu \in Nat
        BY StatsAssumption DEF StatsInv, ReaderTypeOK
    <2>1. CASE reader.pc # "copy"
        BY <2>0, <2>1 DEF StatsInv, CopyBounded
    <2>2. CASE reader.pc = "copy"
        <3>1. i \in Cpus
            BY <2>2 DEF StatsInv, ReaderTypeOK
        <3>2. /\ counters[i].dropped <= counters'[i].dropped
              /\ counters[i].passed <= counters'[i].passed
            BY <3>1, CountersGrow DEF StatsInv
        <3>3. /\ counters[i].dropped \in Nat /\ counters[i].passed \in Nat
              /\ counters'[i].dropped \in Nat /\ counters'[i].passed \in Nat
            BY <1>0, <3>1 DEF StatsInv, TypeOK, VerdictTypeOK
        <3> QED BY <2>0, <2>2, <3>2, <3>3 DEF StatsInv, CopyBounded
    <2> QED BY <2>1, <2>2
<1> QED BY <1>0, <1>1, <1>2 DEF StatsInv

\* What a copied word adds on one side it adds on the other.
LEMMA WordAdds ==
  /\ \A a, d, p, i, x, y, z \in Nat :
       a <= d + p + i /\ x <= y + z + 1 => a + x <= d + p + (i + 1 + y + z)
  /\ \A a, d, p, i, y, z \in Nat :
       a <= d + p + (i + 1 + y + z) => a <= (d + y) + p + (i + 1 + z)
  OBVIOUS

\* Copying a word keeps the bound: rx is read first, and by then at most one
\* frame of the CPU is neither dropped nor passed.
LEMMA CopyWordBounded ==
  ASSUME StatsInv, CopyWord
  PROVE  ReaderTypeOK' /\ CopyBounded'
<1> USE WordFacts, StatsAssumption
<1> PICK i \in Cpus, w \in {1, 2, 3} : i = reader.i /\ w = reader.w
    BY DEF StatsInv, ReaderTypeOK, CopyWord
<1> PICK t, k : t = reader.total /\ k = Words[w]
    OBVIOUS
<1>0. /\ i \in Nat /\ reader.pc = "copy" /\ ncpu \in Nat /\ k \in {"rx", "dropped", "passed"}
      /\ t \in [{"rx", "dropped", "passed"} -> Nat]
      /\ t["rx"] \in Nat /\ t["dropped"] \in Nat /\ t["passed"] \in Nat
    BY DEF StatsInv, ReaderTypeOK, CopyWord
<1>1. counters[i].rx \in Nat /\ counters[i].dropped \in Nat /\ counters[i].passed \in Nat
    BY DEF StatsInv, TypeOK, VerdictTypeOK
<1>2. counters[i].rx <= counters[i].dropped + counters[i].passed + 1
    BY <1>1 DEF StatsInv, CountersBalance, One
<1>3. /\ reader'.pc = IF w = 3 /\ i = ncpu - 1 THEN "print" ELSE "copy"
      /\ reader'.i = IF w = 3 THEN i + 1 ELSE i
      /\ reader'.w = IF w = 3 THEN 1 ELSE w + 1
      /\ reader'.total = [t EXCEPT ![k] = t[k] + counters[i][k]]
      /\ counters' = counters
    BY DEF CopyWord, vars
<1>4. reader' = [pc |-> reader'.pc, i |-> reader'.i, w |-> reader'.w, total |-> reader'.total]
    BY DEF CopyWord
<1>5. counters[i][k] \in Nat
    BY <1>1
<1>6. reader'.total \in [{"rx", "dropped", "passed"} -> Nat]
    <2>1. t[k] \in Nat
        BY <1>0
    <2>2. t[k] + counters[i][k] \in Nat
        BY <1>5, <2>1
    <2> QED BY <1>0, <1>3, <2>2
<1>7. reader'.pc = "copy" => reader'.i \in Cpus
    BY <1>0, <1>3
<1>8. ReaderTypeOK'
    BY <1>0, <1>3, <1>4, <1>6, <1>7 DEF ReaderTypeOK
<1>9. CASE w = 1
    <2>1. /\ reader'.total["rx"] = t["rx"] + counters[i].rx
          /\ reader'.total["dropped"] = t["dropped"] /\ reader'.total["passed"] = t["passed"]
        BY <1>0, <1>3, <1>9
    <2>2. t["rx"] <= t["dropped"] + t["passed"] + i
        BY <1>0, <1>9 DEF StatsInv, CopyBounded
    <2>3. reader'.pc = "copy" /\ reader'.i = i /\ reader'.w = 2
        BY <1>3, <1>9
    <2>4. t["rx"] + counters[i].rx <=
            t["dropped"] + t["passed"] + (i + 1 + counters[i].dropped + counters[i].passed)
        <3> HIDE WordFacts, StatsAssumption
        <3>1. \A a, d, p \in Nat : a <= d + p + i =>
                a + counters[i].rx <= d + p + (i + 1 + counters[i].dropped + counters[i].passed)
            BY <1>0, <1>1, <1>2, WordAdds, Zenon
        <3> QED BY <1>0, <2>2, <3>1, Zenon
    <2>5. CopyBounded'
        <3>1. counters'[reader'.i] = counters[i]
            BY <1>3, <2>3
        <3> QED BY <1>0, <1>1, <2>1, <2>3, <2>4, <3>1 DEF CopyBounded
    <2> QED BY <1>8, <2>5
<1>10. CASE w = 2
    <2>1. /\ reader'.total["dropped"] = t["dropped"] + counters[i].dropped
          /\ reader'.total["rx"] = t["rx"] /\ reader'.total["passed"] = t["passed"]
        BY <1>0, <1>3, <1>10
    <2>2. t["rx"] <= t["dropped"] + t["passed"] + (i + 1 + counters[i].dropped + counters[i].passed)
        BY <1>0, <1>10 DEF StatsInv, CopyBounded
    <2>3. reader'.pc = "copy" /\ reader'.i = i /\ reader'.w = 3
        BY <1>3, <1>10
    <2>4. t["rx"] <= (t["dropped"] + counters[i].dropped) + t["passed"]
                       + (i + 1 + counters[i].passed)
        BY <1>0, <1>1, <2>2, WordAdds
    <2>5. CopyBounded'
        <3>1. counters'[reader'.i] = counters[i]
            BY <1>3, <2>3
        <3> QED BY <1>0, <1>1, <2>1, <2>3, <2>4, <3>1 DEF CopyBounded
    <2> QED BY <1>8, <2>5
<1>11. CASE w = 3
    <2>1. /\ reader'.total["passed"] = t["passed"] + counters[i].passed
          /\ reader'.total["rx"] = t["rx"] /\ reader'.total["dropped"] = t["dropped"]
        BY <1>0, <1>3, <1>11
    <2>2. t["rx"] <= t["dropped"] + t["passed"] + (i + 1 + counters[i].passed)
        BY <1>0, <1>11 DEF StatsInv, CopyBounded
    <2>3. /\ reader'.i = i + 1 /\ reader'.w = 1
          /\ reader'.pc = "print" => i + 1 = ncpu
        BY <1>0, <1>3, <1>11
    <2>4. t["rx"] <= t["dropped"] + (t["passed"] + counters[i].passed) + (i + 1)
        BY <1>0, <1>1, <2>2
    <2>5. CopyBounded'
        BY <2>1, <2>3, <2>4 DEF CopyBounded
    <2> QED BY <1>8, <2>5
<1> QED BY <1>8, <1>9, <1>10, <1>11

\* Every step preserves the invariant.
LEMMA StatsStep == StatsInv /\ [SNext]_svars => StatsInv'
<1> USE WordFacts, StatsAssumption
<1> SUFFICES ASSUME StatsInv, [SNext]_svars PROVE StatsInv'
    OBVIOUS
<1>1. CASE (Next /\ UNCHANGED <<reader, before>>) \/ UNCHANGED svars
    BY <1>1, FirewallBounded DEF svars
<1>2. ASSUME UNCHANGED vars PROVE TypeOK' /\ CountersBalance'
    BY <1>2, NextType, NextBalance DEF StatsInv
<1>3. CASE BeginLookup
    <2>1. reader' = [pc |-> "copy", i |-> 0, w |-> 1, total |-> Zero]
        BY <1>3 DEF BeginLookup, Fresh
    <2>2. Zero["rx"] = 0 /\ Zero["dropped"] = 0 /\ Zero["passed"] = 0
          /\ Zero \in [{"rx", "dropped", "passed"} -> Nat]
        BY DEF Zero
    <2>3. ReaderTypeOK'
        BY <2>1, <2>2 DEF ReaderTypeOK
    <2>4. CopyBounded'
        BY <2>1, <2>2 DEF CopyBounded
    <2> QED BY <1>2, <1>3, <2>3, <2>4 DEF BeginLookup, StatsInv
<1>4. CASE CopyWord
    BY <1>2, <1>4, CopyWordBounded DEF CopyWord, StatsInv
<1>5. CASE PrintTotal
    <2>1. ReaderTypeOK' /\ reader'.pc = "wait"
        BY <1>5 DEF PrintTotal, StatsInv, ReaderTypeOK
    <2>2. CopyBounded'
        BY <2>1 DEF CopyBounded
    <2> QED BY <1>2, <1>5, <2>1, <2>2 DEF PrintTotal, StatsInv
<1> QED BY <1>1, <1>3, <1>4, <1>5 DEF SNext, print_stats

\* It holds before the first line.
LEMMA StatsInit == SInit => StatsInv
<1> SUFFICES ASSUME SInit PROVE StatsInv
    OBVIOUS
<1>1. TypeOK /\ CountersBalance
    BY InitType DEF SInit, Init, CountersBalance, Idle, One
<1>2. ReaderTypeOK /\ CopyBounded
    BY WordFacts DEF SInit, ReaderTypeOK, CopyBounded, Zero
<1> QED BY <1>1, <1>2 DEF StatsInv

\* In every line that `stats` or the daemon prints, for any number of CPUs,
\* at most one frame of each CPU is received and neither dropped nor passed.
THEOREM LineIsCoherent == SSpec => []OneUnaccounted
<1>1. StatsInv => OneUnaccounted
    BY DEF StatsInv, CopyBounded, OneUnaccounted
<1> QED BY <1>1, StatsInit, StatsStep, PTL DEF SSpec

-----------------------------------------------------------------------------
(* The totals: each lies between the truth before and the truth after.     *)

\* The counters of one kind, and the CPUs whose k-th word has been copied.
Column(w) == [c \in Cpus |-> counters[c][w]]
Copied(k) == {c \in Cpus : c < reader.i \/ (c = reader.i /\ k < reader.w)}

\* What has been copied is not more than the CPUs that it comes from have
\* counted by now, and with what is still to be copied it is not less than
\* all of them had when the copy began.
CopyBetween ==
  /\ before \in [{"rx", "dropped", "passed"} -> Nat]
  /\ reader.pc = "print" => reader.i = ncpu
  /\ reader.pc # "wait" => \A k \in 1..3 :
       LET w == Words[k]
       IN  /\ reader.total[w] <= SumFunctionOnSet(Column(w), Copied(k))
           /\ before[w] <= reader.total[w] + SumFunctionOnSet(Column(w), Cpus \ Copied(k))

\* There are finitely many CPUs, and each word is a natural number.
LEMMA ColumnFacts ==
  ASSUME TypeOK, NEW w \in {"rx", "dropped", "passed"}
  PROVE  IsFiniteSet(Cpus) /\ Column(w) \in [Cpus -> Nat]
<1>1. IsFiniteSet(Cpus)
    BY StatsAssumption, FS_Interval
<1>2. ASSUME NEW c \in Cpus PROVE counters[c][w] \in Nat
    <2>1. counters[c] \in [rx : Nat, dropped : Nat, passed : Nat]
        BY DEF TypeOK, VerdictTypeOK
    <2> QED BY <2>1
<1> QED BY <1>1, <1>2 DEF Column

\* The sum of a part of a column is a natural number.
LEMMA PartSum ==
  ASSUME TypeOK, NEW w \in {"rx", "dropped", "passed"}, NEW S \in SUBSET Cpus
  PROVE  SumFunctionOnSet(Column(w), S) \in Nat
<1>1. IsFiniteSet(S) /\ \A c \in S : Column(w)[c] \in Nat
    BY ColumnFacts, FS_Subset
<1> QED BY <1>1, SumNat

\* The true total is the sum of its column.
LEMMA TruthIsSum ==
  ASSUME NEW w \in {"rx", "dropped", "passed"}
  PROVE  Truth[w] = SumFunctionOnSet(Column(w), Cpus)
<1>1. DOMAIN Column(w) = Cpus
    BY DEF Column
<1>2. Truth[w] = FoldFunction(+, 0, Column(w))
    BY WordFacts DEF Truth, Column
<1> QED BY <1>1, <1>2 DEF FoldFunction, SumFunctionOnSet

\* No word of a CPU ever falls.
LEMMA GrowWord ==
  ASSUME TypeOK, [Next]_vars, NEW w \in {"rx", "dropped", "passed"}, NEW c \in Cpus
  PROVE  Column(w)[c] <= Column(w)'[c]
<1>1. /\ counters[c].dropped <= counters'[c].dropped
      /\ counters[c].passed <= counters'[c].passed
      /\ counters[c].rx <= counters'[c].rx
    BY CountersGrow
<1> QED BY <1>1 DEF Column

\* What the CPUs count meanwhile can only widen the bounds.
LEMMA FirewallBetween ==
  ASSUME TypeOK, TypeOK', ReaderTypeOK, CopyBetween, [Next]_vars, UNCHANGED <<reader, before>>
  PROVE  CopyBetween'
<1> SUFFICES ASSUME reader.pc # "wait", NEW k \in 1..3
             PROVE  /\ reader.total[Words[k]] <= SumFunctionOnSet(Column(Words[k])', Copied(k))
                    /\ before[Words[k]] <= reader.total[Words[k]]
                                   + SumFunctionOnSet(Column(Words[k])', Cpus \ Copied(k))
    BY DEF CopyBetween, Copied
<1> PICK w \in {"rx", "dropped", "passed"} : w = Words[k]
    BY WordFacts
<1> DEFINE S == Copied(k)
           f == Column(w)
           g == Column(w)'
<1>1. S \in SUBSET Cpus /\ Cpus \ S \in SUBSET Cpus
    BY DEF Copied
<1>2. /\ f \in [Cpus -> Nat] /\ g \in [Cpus -> Nat] /\ IsFiniteSet(Cpus)
      /\ \A c \in Cpus : f[c] <= g[c]
    <2>1. f \in [Cpus -> Nat] /\ IsFiniteSet(Cpus)
        BY ColumnFacts
    <2>2. ASSUME NEW c \in Cpus PROVE counters'[c][w] \in Nat
        <3>1. counters'[c] \in [rx : Nat, dropped : Nat, passed : Nat]
            BY DEF TypeOK, VerdictTypeOK
        <3> QED BY <3>1
    <2>3. g \in [Cpus -> Nat]
        BY <2>2 DEF Column
    <2> QED BY <2>1, <2>3, GrowWord
<1>3. ASSUME NEW R \in SUBSET Cpus
      PROVE  /\ SumFunctionOnSet(f, R) <= SumFunctionOnSet(g, R)
             /\ SumFunctionOnSet(f, R) \in Nat /\ SumFunctionOnSet(g, R) \in Nat
    <2> HIDE DEF f, g
    <2>1. IsFiniteSet(R) /\ \A c \in R : f[c] \in Nat /\ g[c] \in Nat /\ f[c] <= g[c]
        BY <1>2, FS_Subset
    <2> QED BY <2>1, SumMono, SumNat
<1>4. /\ reader.total[w] <= SumFunctionOnSet(f, S)
      /\ before[w] <= reader.total[w] + SumFunctionOnSet(f, Cpus \ S)
    BY DEF CopyBetween
<1>5. reader.total[w] \in Nat /\ before[w] \in Nat
    BY DEF ReaderTypeOK, CopyBetween
<1> HIDE DEF S, f, g
<1>6. /\ reader.total[w] <= SumFunctionOnSet(g, S)
      /\ before[w] <= reader.total[w] + SumFunctionOnSet(g, Cpus \ S)
    <2>1. /\ SumFunctionOnSet(f, S) <= SumFunctionOnSet(g, S)
          /\ SumFunctionOnSet(f, S) \in Nat /\ SumFunctionOnSet(g, S) \in Nat
        BY <1>1, <1>3
    <2>2. /\ SumFunctionOnSet(f, Cpus \ S) <= SumFunctionOnSet(g, Cpus \ S)
          /\ SumFunctionOnSet(f, Cpus \ S) \in Nat /\ SumFunctionOnSet(g, Cpus \ S) \in Nat
        BY <1>1, <1>3
    <2> QED BY <1>4, <1>5, <2>1, <2>2
<1> QED BY <1>6 DEF S, g

\* The copy of the next word moves one CPU from what is still to be copied to
\* what has been copied.
LEMMA CopyWordBetween ==
  ASSUME TypeOK, ReaderTypeOK, ReaderTypeOK', CopyBetween, CopyWord
  PROVE  CopyBetween'
<1> USE WordFacts, StatsAssumption
<1> PICK i \in Cpus, v \in 1..3 : i = reader.i /\ v = reader.w
    BY DEF ReaderTypeOK, CopyWord
<1>1. /\ reader.pc = "copy" /\ counters' = counters /\ before' = before
      /\ reader'.pc = IF v = 3 /\ i = ncpu - 1 THEN "print" ELSE "copy"
      /\ reader'.i = IF v = 3 THEN i + 1 ELSE i
      /\ reader'.w = IF v = 3 THEN 1 ELSE v + 1
      /\ reader'.total = [reader.total EXCEPT ![Words[v]] = @ + counters[i][Words[v]]]
    BY DEF CopyWord, vars
<1>2. reader'.pc = "print" => reader'.i = ncpu
    BY <1>1
<1>3. ASSUME NEW k \in 1..3
      PROVE  /\ reader'.total[Words[k]] <= SumFunctionOnSet(Column(Words[k])', Copied(k)')
             /\ before[Words[k]] <= reader'.total[Words[k]]
                            + SumFunctionOnSet(Column(Words[k])', Cpus \ Copied(k)')
    <2> PICK w \in {"rx", "dropped", "passed"} : w = Words[k]
        OBVIOUS
    <2> DEFINE f == Column(w)
               S == Copied(k)
    <2>1. f \in [Cpus -> Nat] /\ IsFiniteSet(Cpus) /\ Column(w)' = f /\ S \in SUBSET Cpus
        BY <1>1, ColumnFacts DEF Column, Copied
    <2>2. /\ reader.total[w] <= SumFunctionOnSet(f, S)
          /\ before[w] <= reader.total[w] + SumFunctionOnSet(f, Cpus \ S)
        BY <1>1 DEF CopyBetween
    <2>3. reader.total[w] \in Nat /\ before[w] \in Nat
        BY DEF ReaderTypeOK, CopyBetween
    <2>4. CASE k = v
        <3>1. /\ i \in Nat /\ i \notin S
              /\ Copied(k)' = S \cup {i}
            BY <1>1, <2>4 DEF Copied
        <3>2. reader'.total[w] = reader.total[w] + f[i]
            BY <1>1, <2>4 DEF ReaderTypeOK, Column
        <3> DEFINE T == S \cup {i}
        <3>3. IsFiniteSet(T) /\ IsFiniteSet(Cpus \ S) /\ T \ {i} = S /\ (Cpus \ S) \ {i} = Cpus \ T
            BY <2>1, <3>1, FS_Subset
        <3> HIDE DEF f, S, T
        <3>4. SumFunctionOnSet(f, T) = f[i] + SumFunctionOnSet(f, S)
            <4>1. i \in T /\ \A c \in T : f[c] \in Nat
                BY <2>1 DEF T
            <4> QED BY <4>1, <3>3, SumRemove
        <3>5. SumFunctionOnSet(f, Cpus \ S) = f[i] + SumFunctionOnSet(f, Cpus \ T)
            <4>1. i \in Cpus \ S /\ \A c \in Cpus \ S : f[c] \in Nat
                BY <2>1, <3>1
            <4> QED BY <4>1, <3>3, SumRemove
        <3>6. /\ f[i] \in Nat /\ SumFunctionOnSet(f, S) \in Nat
              /\ SumFunctionOnSet(f, Cpus \ T) \in Nat
            <4>1. S \in SUBSET Cpus /\ Cpus \ T \in SUBSET Cpus
                BY <2>1
            <4> QED BY <4>1, <2>1, PartSum DEF f
        <3>7. /\ reader.total[w] + f[i] <= SumFunctionOnSet(f, T)
              /\ before[w] <= reader.total[w] + f[i] + SumFunctionOnSet(f, Cpus \ T)
            BY <2>2, <2>3, <3>4, <3>5, <3>6
        <3> QED BY <2>1, <3>1, <3>2, <3>7 DEF f, T
    <2>5. CASE k # v
        <3>1. Copied(k)' = S
            BY <1>1, <2>5 DEF Copied
        <3>2. reader'.total[w] = reader.total[w]
            BY <1>1, <2>5 DEF ReaderTypeOK
        <3> QED BY <2>1, <2>2, <3>1, <3>2
    <2> QED BY <2>4, <2>5
<1>4. before' \in [{"rx", "dropped", "passed"} -> Nat]
    BY <1>1 DEF CopyBetween
<1> QED BY <1>1, <1>2, <1>3, <1>4 DEF CopyBetween

\* A line starts from nothing, and remembers the truth.
LEMMA BeginBetween ==
  ASSUME TypeOK, CopyBetween, BeginLookup
  PROVE  CopyBetween'
<1> USE WordFacts, StatsAssumption
<1>1. /\ reader' = [pc |-> "copy", i |-> 0, w |-> 1, total |-> Zero]
      /\ before' = Truth /\ counters' = counters
    BY DEF BeginLookup, Fresh, vars
<1>2. ASSUME NEW w \in {"rx", "dropped", "passed"}
      PROVE  Truth[w] = SumFunctionOnSet(Column(w), Cpus) /\ Truth[w] \in Nat
    BY TruthIsSum, PartSum
<1>3. before' \in [{"rx", "dropped", "passed"} -> Nat]
    BY <1>1, <1>2 DEF Truth
<1>4. ASSUME NEW k \in 1..3
      PROVE  /\ reader'.total[Words[k]] <= SumFunctionOnSet(Column(Words[k])', Copied(k)')
             /\ before'[Words[k]] <= reader'.total[Words[k]]
                            + SumFunctionOnSet(Column(Words[k])', Cpus \ Copied(k)')
    <2> PICK w \in {"rx", "dropped", "passed"} : w = Words[k]
        OBVIOUS
    <2>1. Column(w)' = Column(w) /\ reader'.total[w] = 0 /\ before'[w] = Truth[w]
        BY <1>1 DEF Column, Zero
    <2>2. Copied(k)' = {}
        BY <1>1 DEF Copied
    <2>3. SumFunctionOnSet(Column(w), {}) = 0 /\ Cpus \ {} = Cpus
        BY SumEmpty
    <2> QED BY <1>2, <2>1, <2>2, <2>3
<1> QED BY <1>1, <1>3, <1>4 DEF CopyBetween

\* No number of a line is one that the counters did not have while the line
\* was made, for any number of CPUs: it lies between the true total when the
\* lookup began and the true total when the line is printed.
THEOREM LineIsTrue == SSpec => []PrintedBetween
<1> DEFINE Inv == StatsInv /\ CopyBetween
<1>1. SInit => Inv
    <2> SUFFICES ASSUME SInit PROVE Inv
        OBVIOUS
    <2>1. CopyBetween
        BY WordFacts DEF SInit, CopyBetween, Zero
    <2> QED BY <2>1, StatsInit
<1>2. Inv /\ [SNext]_svars => Inv'
    <2> SUFFICES ASSUME StatsInv, CopyBetween, [SNext]_svars PROVE StatsInv' /\ CopyBetween'
        OBVIOUS
    <2>1. StatsInv'
        BY StatsStep
    <2>2. TypeOK /\ TypeOK' /\ ReaderTypeOK /\ ReaderTypeOK'
        BY <2>1 DEF StatsInv
    <2>3. CASE (Next /\ UNCHANGED <<reader, before>>) \/ UNCHANGED svars
        BY <2>1, <2>2, <2>3, FirewallBetween DEF svars
    <2>4. CASE BeginLookup \/ CopyWord
        BY <2>1, <2>2, <2>4, BeginBetween, CopyWordBetween
    <2>5. CASE PrintTotal
        <3>1. reader'.pc = "wait" /\ before' = before
            BY <2>2, <2>5 DEF PrintTotal, ReaderTypeOK
        <3> QED BY <2>1, <3>1 DEF CopyBetween
    <2> QED BY <2>1, <2>3, <2>4, <2>5 DEF SNext, print_stats
<1>3. Inv => PrintedBetween
    <2> SUFFICES ASSUME StatsInv, CopyBetween, reader.pc = "print",
                        NEW w \in {"rx", "dropped", "passed"}
                 PROVE  before[w] <= reader.total[w] /\ reader.total[w] <= Truth[w]
        BY WordFacts DEF PrintedBetween
    <2> PICK k \in 1..3 : Words[k] = w
        BY WordFacts
    <2>1. Copied(k) = Cpus /\ Cpus \ Copied(k) = {}
        BY StatsAssumption DEF Copied, CopyBetween
    <2>2. /\ reader.total[w] <= SumFunctionOnSet(Column(w), Cpus)
          /\ before[w] <= reader.total[w] + SumFunctionOnSet(Column(w), {})
        BY <2>1 DEF CopyBetween
    <2>3. SumFunctionOnSet(Column(w), {}) = 0
        BY SumEmpty
    <2>4. reader.total[w] \in Nat /\ before[w] \in Nat
        BY DEF StatsInv, ReaderTypeOK, CopyBetween
    <2> QED BY <2>2, <2>3, <2>4, TruthIsSum
<1> QED BY <1>1, <1>2, <1>3, PTL DEF SSpec

-----------------------------------------------------------------------------
(* The slot of the sliding window.                                         *)

\* On CPU c, from the check of the window to the computation of the rate, the
\* frame lies in the window that the element records.
InWindow(c) ==
  cpu[c].pc \in {"count", "l4", "rate"} =>
    Sub64(cpu[c].now, stats[cpu[c].s].window_start) < WINDOW_NS

\* A time of n slots of m ticks falls in one of the n slots.
LEMMA SlotOf == \A x, n \in Nat, m \in Nat \ {0} : x < n * m => x \div m \in 0..(n - 1)
  OBVIOUS

\* The time between two readings of the clock is a natural number.
LEMMA Elapsed == \A a, b \in Nat : Sub64(a, b) \in Nat
  BY Sub64Nat

\* A window that starts now has not lasted.
LEMMA FreshWindow == \A t \in Nat : Sub64(t, t) < WINDOW_NS
<1> SUFFICES ASSUME NEW t \in Nat PROVE Sub64(t, t) < WINDOW_NS
    OBVIOUS
<1>1. 0 < FRAC * FRAC_STEP
    BY ProgAssumption
<1>2. t - t = 0 /\ 0 % WordMod = 0
    BY MapsAssumption
<1> QED BY <1>1, <1>2 DEF Sub64, WINDOW_NS

\* A step of CPU c keeps its frame in the window: a rollover starts one now,
\* and the stores of the counts leave window_start alone.
LEMMA InWindowRun ==
  ASSUME TypeOK, NEW c \in Cpus, InWindow(c), fw_prog(c)
  PROVE  InWindow(c)'
<1> DEFINE e == cpu[c].s
<1>0. /\ cpu \in [Cpus -> CpuState] /\ cpu[c] \in CpuRecord
      /\ stats \in [Elements -> IpStats]
      /\ cpu[c].pc \in PointerPcs => e \in Elements
    BY DEF TypeOK, StatsTypeOK, CpuState
<1>1. CASE cpu'[c].pc \notin {"count", "l4", "rate"}
    BY <1>1 DEF InWindow
<1>2. CASE Receive(c)
    BY <1>0, <1>2 DEF Receive, ReceiveRunt, ReceiveUnruled, ReceiveIpv4, InWindow
<1>3. CASE LookupRange(c) \/ Limit(c) \/ DeleteExpired(c) \/ TestBlock(c)
    <2>1. CASE \E v : Return(c, v)
        BY <1>0, <1>1, <2>1 DEF Return, Idle
    <2>2. CASE \/ \E pc \in {"range", "stats"} : cpu' = [cpu EXCEPT ![c].pc = pc]
               \/ cpu' = [cpu EXCEPT ![c].exp = Absent, ![c].pc = "expire"]
        BY <1>0, <1>1, <2>2 DEF CpuRecord
    <2> QED BY <1>3, <2>1, <2>2 DEF LookupRange, Limit, DeleteExpired, TestBlock
<1>12. CASE LookupBlock(c)
    BY <1>0, <1>1, <1>12 DEF LookupBlock, CpuRecord
<1>4. CASE LookupStats(c)
    BY <1>0, <1>1, <1>4 DEF LookupStats, CpuRecord
<1>5. CASE InsertStats(c)
    BY <1>0, <1>1, <1>5 DEF InsertStats, CpuRecord
<1>6. CASE ShiftWindow(c) \/ ResetWindow(c) \/ ClearClasses(c)
    BY <1>0, <1>1, <1>6 DEF ShiftWindow, ResetWindow, ClearClasses, CpuRecord
<1>7. CASE ComputeRate(c)
    BY <1>0, <1>1, <1>7 DEF ComputeRate, CpuRecord
<1>8. CASE CheckWindow(c)
    <2>1. /\ stats' = stats /\ cpu'[c].now = cpu[c].now /\ cpu'[c].s = e
          /\ cpu'[c].pc = IF WindowOver(stats[e], cpu[c].now) THEN "shift" ELSE "count"
        <3> DEFINE over == WindowOver(stats[e], cpu[c].now)
        <3>1. cpu' = [cpu EXCEPT ![c].pc = IF over THEN "shift" ELSE "count",
                                 ![c].tmp = IF over THEN 0 ELSE stats[e].packets]
            BY <1>8 DEF CheckWindow
        <3> HIDE DEF over
        <3>2. cpu'[c].now = cpu[c].now /\ cpu'[c].s = e
              /\ cpu'[c].pc = IF over THEN "shift" ELSE "count"
            BY <1>0, <3>1 DEF CpuRecord
        <3> QED BY <1>8, <3>2 DEF CheckWindow, over
    <2>2. e \in Elements /\ cpu[c].now \in Nat
        BY <1>0, <1>8 DEF CheckWindow, PointerPcs, CpuRecord
    <2>3. stats[e].window_start \in Nat
        BY <1>0, <2>2 DEF IpStats
    <2>4. Sub64(cpu[c].now, stats[e].window_start) \in Nat
        BY <2>2, <2>3, Elapsed, Zenon
    <2>5. WINDOW_NS \in Nat
        BY ProgAssumption, MulNat DEF WINDOW_NS
    <2> QED BY <2>1, <2>4, <2>5 DEF InWindow, WindowOver
<1>9. CASE StartWindow(c)
    <2>1. e \in Elements /\ cpu[c].now \in Nat
        BY <1>0, <1>9 DEF StartWindow, PointerPcs, CpuRecord
    <2>2. stats' = [stats EXCEPT ![e].window_start = cpu[c].now]
          /\ cpu'[c].now = cpu[c].now /\ cpu'[c].s = e
        BY <1>0, <1>9 DEF StartWindow, CpuRecord
    <2>3. stats'[e].window_start = cpu[c].now
        BY <1>0, <2>1, <2>2 DEF IpStats
    <2> QED BY <2>1, <2>2, <2>3, FreshWindow DEF InWindow
<1>10. CASE StorePackets(c)
    <2>1. /\ e \in Elements /\ cpu[c].pc = "count"
          /\ stats' = [stats EXCEPT ![e].packets = cpu[c].tmp + 1]
        BY <1>0, <1>10 DEF StorePackets, PointerPcs
    <2>2. cpu'[c].now = cpu[c].now /\ cpu'[c].s = e
        BY <1>0, <1>10 DEF StorePackets, CpuRecord
    <2>3. stats'[e].window_start = stats[e].window_start
        BY <1>0, <2>1 DEF IpStats
    <2> QED BY <2>1, <2>2, <2>3 DEF InWindow
<1>11. CASE StoreL4(c)
    <2>1. /\ e \in Elements /\ cpu[c].pc = "l4"
          /\ stats' = [stats EXCEPT ![e].l4[cpu[c].cls] = cpu[c].tmp + 1]
        BY <1>0, <1>11 DEF StoreL4, PointerPcs
    <2>2. cpu'[c].now = cpu[c].now /\ cpu'[c].s = e
        BY <1>0, <1>11 DEF StoreL4, CpuRecord
    <2>3. stats'[e].window_start = stats[e].window_start
        BY <1>0, <2>1 DEF IpStats
    <2> QED BY <2>1, <2>2, <2>3 DEF InWindow
<1> QED BY <1>2, <1>3, <1>4, <1>5, <1>6, <1>7, <1>8, <1>9, <1>10, <1>11, <1>12
        DEF fw_prog, Run

\* When one CPU receives all frames, the slot is always one of the FRAC slots
\* of the window, as the comment "0 .. 1023" of fw_prog says, for any window
\* and any clock: the difference that the slot is computed from never wraps.
THEOREM SlotAlwaysInRange == ASSUME \E c : Cpus = {c} PROVE RSpec => []SlotInRange
<1> PICK c : Cpus = {c}
    OBVIOUS
<1>1. RInit => TypeOK /\ InWindow(c)
    BY InitType DEF RInit, Init, Idle, InWindow
<1>2. TypeOK /\ InWindow(c) /\ [RNext]_rvars => TypeOK' /\ InWindow(c)'
    <2> SUFFICES ASSUME TypeOK, InWindow(c), [RNext]_rvars PROVE TypeOK' /\ InWindow(c)'
        OBVIOUS
    <2>1. [Next]_vars
        BY DEF RNext, rvars
    <2>2. TypeOK'
        BY <2>1, NextType
    <2>3. CASE fw_prog(c)
        BY <2>2, <2>3, InWindowRun
    <2>4. CASE Tick \/ Command \/ UNCHANGED vars
        BY <2>2, <2>4 DEF Tick, Command, cmd_block, cmd_unblock, cmd_range, cmd_unrange,
                          Ratelimit, SetEnabled, dataPlane, vars, InWindow
    <2> QED BY <2>1, <2>3, <2>4 DEF Next
<1>3. TypeOK /\ InWindow(c) => SlotInRange
    <2> SUFFICES ASSUME TypeOK, InWindow(c), cpu[c].pc = "rate"
                 PROVE  Slot(stats[cpu[c].s], cpu[c].now) \in 0..(FRAC - 1)
        BY DEF SlotInRange
    <2> DEFINE x == Sub64(cpu[c].now, stats[cpu[c].s].window_start)
    <2>1. cpu[c].now \in Nat /\ stats[cpu[c].s].window_start \in Nat
        <3>1. cpu[c] \in CpuState /\ stats \in [Elements -> IpStats]
            BY DEF TypeOK, StatsTypeOK
        <3>2. cpu[c].now \in Nat /\ cpu[c].s \in Elements
            BY <3>1 DEF CpuState, CpuRecord, PointerPcs
        <3> QED BY <3>1, <3>2 DEF IpStats
    <2>2. x \in Nat /\ x < FRAC * FRAC_STEP
        <3>1. x \in Nat
            BY <2>1, Elapsed, Zenon
        <3>2. x < WINDOW_NS
            BY DEF InWindow
        <3> HIDE DEF x
        <3> QED BY <3>1, <3>2 DEF WINDOW_NS
    <2> HIDE DEF x
    <2>3. x \div FRAC_STEP \in 0..(FRAC - 1)
        BY <2>2, SlotOf, ProgAssumption
    <2> QED BY <2>3 DEF Slot, x
<1> QED BY <1>1, <1>2, <1>3, PTL DEF RSpec

-----------------------------------------------------------------------------
(* The limiter: the books that fw_ip_stats keeps of a source.              *)

\* The CPU that handles frames of ip is at this step of fw_prog.
Phase(r, ip) == IF r.src = ip THEN r.pc ELSE "idle"

\* A frame in one of these phases is not in packets yet, or already is.
Uncounted == {"block", "test", "expire", "range", "stats", "insert", "roll", "shift",
              "reset", "clear", "start", "count"}
InCount == {"l4", "rate", "limit"}

\* The frames that `count` has from time `from` on.
Since(count, from) == Within(count, from - 1, MaxTime)

\* The frames that `count` has in the window's length that begins at `from`.
Stretch(count, from) == Within(count, from - 1, from - 1 + WINDOW_NS)

\* What the statistics s of a source know of its frames that got through (tf):
\* those of the current window are in packets, those in the length of one
\* before it in prev_packets, and neither are more than a limit p allows.
PassedOK(ph, s, tf, p) ==
  /\ \A t \in Times : tf[t] > 0 => t < s.window_start + WINDOW_NS
  /\ ph \in {"reset", "clear", "start"} => Since(tf, s.window_start) <= s.prev_packets
  /\ ph \notin {"reset", "clear", "start"} =>
       /\ Since(tf, s.window_start) + One(ph \in InCount) <= s.packets
       /\ Stretch(tf, s.window_start - WINDOW_NS) <= s.prev_packets
  /\ p > 0 => /\ Since(tf, s.window_start) <= p
              /\ Stretch(tf, s.window_start - WINDOW_NS) <= p

\* now lies in the window of s.
Inside(s, now) == s.window_start <= now /\ now < s.window_start + WINDOW_NS

\* What s says of the frames that the source has sent (sf): packets counts no
\* frame of another time than the window's, and there was a window's length
\* with at least prev_packets.
SentOK(ph, now, s, sf) ==
  /\ s.packets + One(ph \in Uncounted /\ Inside(s, now)) <= Stretch(sf, s.window_start)
  /\ \E t \in Times : s.prev_packets <= Within(sf, t - WINDOW_NS, t)

\* FRAC times the rate before it is rounded, without overflow.
Weighted(s, now) ==
  s.prev_packets * (FRAC - (now - s.window_start) \div FRAC_STEP) + s.packets * FRAC

\* What the registers r of a CPU that is in phase ph of a frame say about s.
FrameOK(ph, r, s, rx) ==
  /\ ph \in {"clear", "start"} => s.packets = 0
  /\ ph = "count" => r.tmp = s.packets
  /\ ph \in {"count", "l4", "rate", "limit"} => Inside(s, r.now)
  /\ ph \in {"shift", "reset", "clear", "start"} => s.window_start + WINDOW_NS <= r.now
  /\ s.packets + One(ph \in Uncounted) <= rx
  /\ s.prev_packets <= rx
  /\ ph = "limit" => /\ FRAC * r.rate <= Weighted(s, r.now)
                     /\ Weighted(s, r.now) < FRAC * r.rate + FRAC

\* The books of a source: statistics, frames and registers agree.
Books(ph, r, s, tf, sf, p, rx) ==
  PassedOK(ph, s, tf, p) /\ SentOK(ph, r.now, s, sf) /\ FrameOK(ph, r, s, rx)

\* The meter counts frames at times that exist.
MeterTypeOK ==
  /\ sent \in [Sources -> [Times -> Nat]]
  /\ through \in [Sources -> [Times -> Nat]]
  /\ clock <= MaxTime

\* The frame in flight on c was stamped before now and counted as sent.
Stamped(c) ==
  /\ counters[c].rx <= MaxRx
  /\ cpu[c].pc # "idle" => /\ cpu[c].now <= clock /\ sent[cpu[c].src][cpu[c].now] > 0
                           /\ counters[c].rx > 0

\* Every source has an element of its own, and CPU c's pointer is still the
\* one in the map.
Owned(c) ==
  /\ \A ip, jp \in Sources : elem[ip] # Absent /\ elem[ip] = elem[jp] => ip = jp
  /\ cpu[c].pc \in PointerPcs => elem[cpu[c].src] = cpu[c].s
  /\ cpu[c].pc = "insert" => elem[cpu[c].src] = Absent
  /\ cpu[c].pc = "limit" => elem[cpu[c].src] # Absent

\* No window began after the frame in flight was stamped.
Aged(c) ==
  \A ip \in Sources : elem[ip] # Absent =>
    stats[elem[ip]].window_start <= IF cpu[c].pc = "idle" THEN clock ELSE cpu[c].now

\* The books of a source are those of its element; without one, nothing
\* has got through.
BooksOK(c, ip) ==
  /\ elem[ip] = Absent => \A t \in Times : through[ip][t] = 0
  /\ elem[ip] # Absent =>
       Books(Phase(cpu[c], ip), cpu[c], stats[elem[ip]], through[ip], sent[ip], pps,
             counters[c].rx)

\* The invariant of the limiter, on the one CPU c.
LimitInv(c) ==
  /\ TypeOK /\ MeterTypeOK /\ Stamped(c) /\ Owned(c) /\ Aged(c)
  /\ \A ip \in Sources : BooksOK(c, ip)

\* The window is a natural number, at least 1, of slots.
LEMMA WindowNat == WINDOW_NS \in Nat /\ WINDOW_NS > 0
<1>1. FRAC * FRAC_STEP \in Nat /\ FRAC * FRAC_STEP > 0
    BY ProgAssumption
<1> QED BY <1>1 DEF WINDOW_NS

\* The times of an interval.
Span(from, to) == {t \in Times : from < t /\ t <= to}

\* An interval of times is finite.
LEMMA SpanFinite == \A a, b \in Int : IsFiniteSet(Span(a, b)) /\ Span(a, b) \subseteq Times
<1>1. IsFiniteSet(Times)
    <2>1. 0 \in Int /\ MaxTime \in Int
        BY CtlAssumption
    <2> QED BY <2>1, FS_Interval DEF Times
<1> QED BY <1>1, FS_Subset DEF Span

\* A count of frames over an interval is a natural number.
LEMMA WithinNat ==
  ASSUME NEW f \in [Times -> Nat], NEW a \in Int, NEW b \in Int
  PROVE  Within(f, a, b) \in Nat
<1>1. IsFiniteSet(Span(a, b)) /\ \A x \in Span(a, b) : f[x] \in Nat
    BY SpanFinite
<1>2. SumFunctionOnSet(f, Span(a, b)) \in Nat
    BY <1>1, SumNat
<1> QED BY <1>2 DEF Within, Span

\* There are no more frames in a part of an interval than in all of it.
LEMMA WithinPart ==
  ASSUME NEW f \in [Times -> Nat], NEW a \in Int, NEW b \in Int, NEW c \in Int, NEW d \in Int,
         \A t \in Times : a < t /\ t <= b => c < t /\ t <= d
  PROVE  Within(f, a, b) <= Within(f, c, d)
<1>1. /\ IsFiniteSet(Span(c, d)) /\ \A x \in Span(c, d) : f[x] \in Nat
      /\ Span(a, b) \in SUBSET Span(c, d)
    BY SpanFinite DEF Span
<1>2. SumFunctionOnSet(f, Span(c, d)) =
        SumFunctionOnSet(f, Span(a, b)) + SumFunctionOnSet(f, Span(c, d) \ Span(a, b))
    BY <1>1, SumSplit
<1>3. /\ SumFunctionOnSet(f, Span(a, b)) \in Nat
      /\ SumFunctionOnSet(f, Span(c, d) \ Span(a, b)) \in Nat
    <2>1. IsFiniteSet(Span(a, b)) /\ IsFiniteSet(Span(c, d) \ Span(a, b))
        BY <1>1, FS_Subset
    <2>2. \A x \in Span(a, b) : f[x] \in Nat
        BY <1>1
    <2>3. \A x \in Span(c, d) \ Span(a, b) : f[x] \in Nat
        BY <1>1
    <2> QED BY <2>1, <2>2, <2>3, SumNat
<1>4. SumFunctionOnSet(f, Span(a, b)) <= SumFunctionOnSet(f, Span(c, d))
    BY <1>2, <1>3
<1> QED BY <1>4 DEF Within, Span

\* An interval in two parts.
LEMMA WithinSplit ==
  ASSUME NEW f \in [Times -> Nat], NEW a \in Int, NEW m \in Int, NEW b \in Int,
         a <= m, m <= b
  PROVE  Within(f, a, b) = Within(f, a, m) + Within(f, m, b)
<1>1. /\ IsFiniteSet(Span(a, b)) /\ \A x \in Span(a, b) : f[x] \in Nat
      /\ Span(a, m) \in SUBSET Span(a, b)
      /\ Span(a, b) \ Span(a, m) = Span(m, b)
    <2>1. \A t \in Times : t \in Int
        BY CtlAssumption DEF Times
    <2>2. \A t \in Times : /\ a < t /\ t <= m => t <= b
                           /\ a < t /\ t <= b => ~(a < t /\ t <= m) <=> m < t
                           /\ m < t => a < t
        BY <2>1
    <2>3. Span(a, m) \in SUBSET Span(a, b) /\ Span(a, b) \ Span(a, m) = Span(m, b)
        BY <2>2 DEF Span
    <2>4. IsFiniteSet(Span(a, b)) /\ Span(a, b) \subseteq Times
        BY SpanFinite
    <2> QED BY <2>3, <2>4
<1>2. SumFunctionOnSet(f, Span(a, b)) =
        SumFunctionOnSet(f, Span(a, m)) + SumFunctionOnSet(f, Span(a, b) \ Span(a, m))
    BY <1>1, SumSplit
<1> QED BY <1>1, <1>2 DEF Within, Span

\* An interval without frames.
LEMMA WithinNone ==
  ASSUME NEW f \in [Times -> Nat], NEW a \in Int, NEW b \in Int,
         \A t \in Times : a < t /\ t <= b => f[t] = 0
  PROVE  Within(f, a, b) = 0
<1> DEFINE S == Span(a, b)
           D == {s \in SUBSET S : SumFunctionOnSet(f, s) = 0}
<1>1. IsFiniteSet(S) /\ \A x \in S : f[x] = 0
    BY SpanFinite DEF Span
<1>2. ASSUME NEW s \in SUBSET S, \A x \in s : s \ {x} \in D PROVE s \in D
    <2>1. CASE s = {}
        <3>1. SumFunctionOnSet(f, {}) = 0
            BY SumEmpty
        <3> QED BY <2>1, <3>1
    <2>2. CASE s # {}
        <3> PICK x \in s : TRUE
            BY <2>2
        <3>1. IsFiniteSet(s) /\ \A y \in s : f[y] \in Nat
            BY <1>1, FS_Subset
        <3>2. SumFunctionOnSet(f, s) = f[x] + SumFunctionOnSet(f, s \ {x})
            BY <3>1, SumRemove
        <3>3. f[x] = 0 /\ SumFunctionOnSet(f, s \ {x}) = 0
            BY <1>1, <1>2
        <3> QED BY <3>2, <3>3
    <2> QED BY <2>1, <2>2
<1>3. SUBSET S \subseteq D
    <2> HIDE DEF D, S
    <2> QED BY <1>1, <1>2, SubsetInduction
<1>4. SumFunctionOnSet(f, S) = 0
    BY <1>3
<1> QED BY <1>4 DEF Within, Span

\* g has one frame more than f, at time u.
OneMore(f, g, u) ==
  /\ f \in [Times -> Nat] /\ g \in [Times -> Nat] /\ u \in Times
  /\ \A t \in Times : g[t] = f[t] + One(t = u)

\* One frame more is in an interval or it is not.
LEMMA WithinOneMore ==
  ASSUME NEW f, NEW g, NEW u, OneMore(f, g, u), NEW a \in Int, NEW b \in Int
  PROVE  Within(g, a, b) = Within(f, a, b) + One(a < u /\ u <= b)
<1> DEFINE S == Span(a, b)
<1>1. /\ IsFiniteSet(S) /\ \A x \in S : f[x] \in Nat /\ g[x] \in Nat
      /\ \A x \in S : x # u => f[x] = g[x]
    BY SpanFinite DEF OneMore, One
<1>2. CASE u \notin S
    <2>1. \A x \in S : f[x] \in Nat /\ f[x] = g[x]
        BY <1>1, <1>2
    <2>2. SumFunctionOnSet(f, S) = SumFunctionOnSet(g, S)
        BY <1>1, <2>1, SumSame
    <2>3. ~(a < u /\ u <= b)
        BY <1>2 DEF OneMore, Span
    <2>4. Within(f, a, b) \in Nat
        BY WithinNat DEF OneMore
    <2> QED BY <2>2, <2>3, <2>4 DEF Within, Span, One
<1>3. CASE u \in S
    <2>1. /\ SumFunctionOnSet(f, S) = f[u] + SumFunctionOnSet(f, S \ {u})
          /\ SumFunctionOnSet(g, S) = g[u] + SumFunctionOnSet(g, S \ {u})
        BY <1>1, <1>3, SumRemove
    <2>2. IsFiniteSet(S \ {u}) /\ \A x \in S \ {u} : f[x] \in Nat /\ f[x] = g[x]
        BY <1>1, FS_Subset
    <2>3. SumFunctionOnSet(f, S \ {u}) = SumFunctionOnSet(g, S \ {u})
        BY <2>2, SumSame
    <2>4. SumFunctionOnSet(f, S \ {u}) \in Nat
        BY <2>2, SumNat
    <2>5. f[u] \in Nat /\ g[u] = f[u] + 1 /\ a < u /\ u <= b
        BY <1>3 DEF OneMore, One, Span
    <2>6. SumFunctionOnSet(g, S) = SumFunctionOnSet(f, S) + 1
        <3> HIDE DEF S
        <3> QED BY <2>1, <2>3, <2>4, <2>5
    <2> QED BY <2>5, <2>6 DEF Within, Span, One
<1> QED BY <1>2, <1>3

\* An interval in which there is a frame.
LEMMA WithinSome ==
  ASSUME NEW f \in [Times -> Nat], NEW a \in Int, NEW b \in Int, NEW u \in Times,
         f[u] > 0, a < u, u <= b
  PROVE  Within(f, a, b) >= 1
<1> DEFINE S == Span(a, b)
<1>1. IsFiniteSet(S) /\ u \in S /\ \A x \in S : f[x] \in Nat
    BY SpanFinite DEF Span
<1>2. SumFunctionOnSet(f, S) = f[u] + SumFunctionOnSet(f, S \ {u})
    BY <1>1, SumRemove
<1>3. SumFunctionOnSet(f, S \ {u}) \in Nat
    <2>1. IsFiniteSet(S \ {u}) /\ \A x \in S \ {u} : f[x] \in Nat
        BY <1>1, FS_Subset
    <2> QED BY <2>1, SumNat
<1>4. f[u] \in Nat
    OBVIOUS
<1>5. SumFunctionOnSet(f, S) >= 1
    <2> HIDE DEF S
    <2> QED BY <1>2, <1>3, <1>4
<1> QED BY <1>5 DEF Within, Span

-----------------------------------------------------------------------------
(* How the books of one source change, step by step.                       *)

\* The types of what the books are about.
Entries(r, s, tf, sf, p, rx) ==
  /\ r \in CpuRecord /\ s \in IpStats
  /\ tf \in [Times -> Nat] /\ sf \in [Times -> Nat]
  /\ p \in Nat /\ rx \in Nat

\* The numbers in the books.
LEMMA EntryFacts ==
  ASSUME NEW r, NEW s, NEW tf, NEW sf, NEW p, NEW rx, Entries(r, s, tf, sf, p, rx)
  PROVE  /\ s.window_start \in Nat /\ s.prev_packets \in Nat /\ s.packets \in Nat
         /\ r.now \in Nat /\ r.tmp \in Nat /\ r.rate \in Nat
         /\ Since(tf, s.window_start) \in Nat
         /\ Stretch(tf, s.window_start - WINDOW_NS) \in Nat
         /\ Stretch(sf, s.window_start) \in Nat
         /\ p \in Nat /\ rx \in Nat /\ WINDOW_NS \in Nat /\ WINDOW_NS > 0 /\ MaxTime \in Nat
<1>1. s.window_start \in Nat /\ s.prev_packets \in Nat /\ s.packets \in Nat
    BY DEF Entries, IpStats
<1>2. r.now \in Nat /\ r.tmp \in Nat /\ r.rate \in Nat
    BY DEF Entries, CpuRecord
<1>3. MaxTime \in Nat /\ WINDOW_NS \in Nat /\ WINDOW_NS > 0
    BY CtlAssumption, WindowNat
<1>4. Since(tf, s.window_start) \in Nat
    <2>1. s.window_start - 1 \in Int /\ MaxTime \in Int
        BY <1>1, <1>3
    <2> QED BY <2>1, WithinNat DEF Since, Entries
<1>5. ASSUME NEW x \in Int, NEW f \in [Times -> Nat] PROVE Stretch(f, x) \in Nat
    <2>1. x - 1 \in Int /\ x - 1 + WINDOW_NS \in Int
        BY <1>3
    <2> QED BY <2>1, WithinNat DEF Stretch
<1>6. s.window_start \in Int /\ s.window_start - WINDOW_NS \in Int
    BY <1>1, <1>3
<1> QED BY <1>1, <1>2, <1>3, <1>4, <1>5, <1>6 DEF Entries

\* A step that does not touch the statistics, to a phase that claims no more.
LEMMA BooksMove ==
  ASSUME NEW r, NEW r2, NEW s, NEW tf, NEW sf, NEW p, NEW rx, NEW ph, NEW ph2,
         Entries(r, s, tf, sf, p, rx), Books(ph, r, s, tf, sf, p, rx), r2.now = r.now,
         ph \notin {"reset", "clear", "start"}, ph2 \in InCount => ph \in InCount,
         ph2 \in Uncounted => ph \in Uncounted,
         ph2 \notin {"shift", "reset", "clear", "start", "count", "l4", "rate", "limit"}
  PROVE  Books(ph2, r2, s, tf, sf, p, rx)
<1>1. PassedOK(ph2, s, tf, p)
    BY EntryFacts DEF Books, PassedOK, One
<1>2. SentOK(ph2, r2.now, s, sf)
    <2>1. s.packets + One(ph2 \in Uncounted /\ Inside(s, r.now)) <= Stretch(sf, s.window_start)
        BY EntryFacts DEF Books, SentOK, One
    <2> QED BY <2>1 DEF Books, SentOK
<1>3. FrameOK(ph2, r2, s, rx)
    BY EntryFacts DEF Books, FrameOK, One
<1> QED BY <1>1, <1>2, <1>3 DEF Books

\* A frame of the source arrives.
LEMMA BooksArrive ==
  ASSUME NEW r, NEW r2, NEW s, NEW tf, NEW sf, NEW sf2, NEW p, NEW rx,
         Entries(r, s, tf, sf, p, rx), Books("idle", r, s, tf, sf, p, rx),
         Entries(r2, s, tf, sf2, p, rx + 1),
         OneMore(sf, sf2, r2.now)
  PROVE  Books("block", r2, s, tf, sf2, p, rx + 1)
<1>0. WINDOW_NS \in Nat /\ s.window_start \in Nat /\ r2.now \in Nat /\ s.packets \in Nat
      /\ s.prev_packets \in Nat
    BY EntryFacts
<1>1. PassedOK("block", s, tf, p)
    BY DEF Books, PassedOK, One, InCount
<1>2. SentOK("block", r2.now, s, sf2)
    <2>1. \A a, b \in Int :
            Within(sf2, a, b) = Within(sf, a, b) + One(a < r2.now /\ r2.now <= b)
        BY WithinOneMore
    <2>2. \A a, b \in Int : Within(sf, a, b) \in Nat
        BY WithinNat DEF Entries
    <2>3. s.packets + One(Inside(s, r2.now)) <= Stretch(sf2, s.window_start)
        <3>1. s.window_start - 1 \in Int /\ s.window_start - 1 + WINDOW_NS \in Int
            BY <1>0
        <3>2. Stretch(sf2, s.window_start) = Stretch(sf, s.window_start) +
                One(s.window_start - 1 < r2.now /\ r2.now <= s.window_start - 1 + WINDOW_NS)
            BY <2>1, <3>1 DEF Stretch
        <3>3. s.packets <= Stretch(sf, s.window_start)
            <4>1. s.packets + 0 <= Stretch(sf, s.window_start)
                BY DEF Books, SentOK, One, Uncounted
            <4> QED BY <1>0, <4>1
        <3>4. Stretch(sf, s.window_start) \in Nat
            BY <2>2, <3>1 DEF Stretch
        <3>5. Inside(s, r2.now) <=>
                s.window_start - 1 < r2.now /\ r2.now <= s.window_start - 1 + WINDOW_NS
            BY <1>0 DEF Inside
        <3> QED BY <1>0, <3>2, <3>3, <3>4, <3>5 DEF One
    <2>4. \E t \in Times : s.prev_packets <= Within(sf2, t - WINDOW_NS, t)
        <3>1. PICK t \in Times : s.prev_packets <= Within(sf, t - WINDOW_NS, t)
            BY DEF Books, SentOK
        <3>2. t \in Int /\ t - WINDOW_NS \in Int
            BY <1>0, CtlAssumption DEF Times
        <3>3. ASSUME NEW a \in Int, NEW b \in Int
              PROVE  Within(sf, a, b) <= Within(sf2, a, b) /\ Within(sf2, a, b) \in Nat
            <4>1. /\ Within(sf2, a, b) = Within(sf, a, b) + One(a < r2.now /\ r2.now <= b)
                  /\ Within(sf, a, b) \in Nat
                BY <2>1, <2>2
            <4> QED BY <4>1 DEF One
        <3>4. /\ Within(sf, t - WINDOW_NS, t) <= Within(sf2, t - WINDOW_NS, t)
              /\ Within(sf, t - WINDOW_NS, t) \in Nat /\ Within(sf2, t - WINDOW_NS, t) \in Nat
            BY <2>2, <3>2, <3>3
        <3> QED BY <1>0, <3>1, <3>4
    <2> QED BY <2>3, <2>4 DEF SentOK, Uncounted, One
<1>3. FrameOK("block", r2, s, rx + 1)
    BY EntryFacts DEF Books, FrameOK, One, Uncounted
<1> QED BY <1>1, <1>2, <1>3 DEF Books

\* The window is over, or the frame belongs to it.
LEMMA BooksCheck ==
  ASSUME NEW r, NEW r2, NEW s, NEW tf, NEW sf, NEW p, NEW rx,
         Entries(r, s, tf, sf, p, rx), Books("roll", r, s, tf, sf, p, rx), r2.now = r.now,
         s.window_start <= r.now
  PROVE  /\ s.window_start + WINDOW_NS <= r.now => Books("shift", r2, s, tf, sf, p, rx)
         /\ r.now < s.window_start + WINDOW_NS /\ r2.tmp = s.packets
              => Books("count", r2, s, tf, sf, p, rx)
<1>1. PassedOK("shift", s, tf, p) /\ PassedOK("count", s, tf, p)
    BY EntryFacts DEF Books, PassedOK, One, InCount
<1>2. SentOK("shift", r2.now, s, sf) /\ SentOK("count", r2.now, s, sf)
    BY EntryFacts DEF Books, SentOK, One, Uncounted
<1>3. s.window_start + WINDOW_NS <= r.now => FrameOK("shift", r2, s, rx)
    BY EntryFacts DEF Books, FrameOK, One, Uncounted
<1>4. r.now < s.window_start + WINDOW_NS /\ r2.tmp = s.packets => FrameOK("count", r2, s, rx)
    BY EntryFacts DEF Books, FrameOK, One, Uncounted, Inside
<1> QED BY <1>1, <1>2, <1>3, <1>4 DEF Books

\* The count of the window that is over becomes the previous one: it bounds
\* what got through since that window began, and was sent in its length.
LEMMA BooksShift ==
  ASSUME NEW r, NEW r2, NEW s, NEW s2, NEW tf, NEW sf, NEW p, NEW rx,
         Entries(r, s, tf, sf, p, rx), Books("shift", r, s, tf, sf, p, rx), r2.now = r.now,
         r.now <= MaxTime, s2.window_start = s.window_start, s2.packets = s.packets,
         s2.prev_packets = s.packets
  PROVE  Books("reset", r2, s2, tf, sf, p, rx)
<1>1. PassedOK("reset", s2, tf, p)
    BY EntryFacts DEF Books, PassedOK, One, InCount
<1>2. SentOK("reset", r2.now, s2, sf)
    <2>0. s.window_start + WINDOW_NS <= r.now
        BY DEF Books, FrameOK
    <2>1. s.packets + One(FALSE) <= Stretch(sf, s.window_start)
        BY <2>0, EntryFacts DEF Books, SentOK, Inside, Uncounted, One
    <2>2. s.packets <= Stretch(sf, s.window_start)
        BY <2>1, EntryFacts DEF One
    <2> DEFINE t == s.window_start - 1 + WINDOW_NS
    <2>3. t \in Times /\ t - WINDOW_NS = s.window_start - 1
        BY <2>0, EntryFacts DEF Times
    <2>4. s2.prev_packets <= Within(sf, t - WINDOW_NS, t)
        BY <2>2, <2>3 DEF Stretch
    <2>5. s2.packets + One("reset" \in Uncounted /\ Inside(s2, r2.now))
            <= Stretch(sf, s2.window_start)
        BY <2>0, <2>2, EntryFacts DEF Inside, One
    <2> QED BY <2>3, <2>4, <2>5 DEF SentOK
<1>3. FrameOK("reset", r2, s2, rx)
    BY EntryFacts DEF Books, FrameOK, One, Uncounted
<1> QED BY <1>1, <1>2, <1>3 DEF Books

\* The count of packets is cleared.
LEMMA BooksReset ==
  ASSUME NEW r, NEW r2, NEW s, NEW s2, NEW tf, NEW sf, NEW p, NEW rx,
         Entries(r, s, tf, sf, p, rx), Books("reset", r, s, tf, sf, p, rx), r2.now = r.now,
         s2.window_start = s.window_start, s2.packets = 0, s2.prev_packets = s.prev_packets
  PROVE  Books("clear", r2, s2, tf, sf, p, rx)
<1>1. PassedOK("clear", s2, tf, p)
    BY EntryFacts DEF Books, PassedOK
<1>2. SentOK("clear", r2.now, s2, sf)
    BY EntryFacts DEF Books, SentOK, FrameOK, Inside, One, Uncounted
<1>3. FrameOK("clear", r2, s2, rx)
    BY EntryFacts DEF Books, FrameOK, One, Uncounted
<1> QED BY <1>1, <1>2, <1>3 DEF Books

\* The protocol counts are cleared: the books do not have them.
LEMMA BooksClear ==
  ASSUME NEW r, NEW r2, NEW s, NEW s2, NEW tf, NEW sf, NEW p, NEW rx,
         Entries(r, s, tf, sf, p, rx), Books("clear", r, s, tf, sf, p, rx), r2.now = r.now,
         s2.window_start = s.window_start, s2.packets = s.packets,
         s2.prev_packets = s.prev_packets
  PROVE  Books("start", r2, s2, tf, sf, p, rx)
<1>1. PassedOK("start", s2, tf, p)
    BY EntryFacts DEF Books, PassedOK
<1>2. SentOK("start", r2.now, s2, sf)
    BY EntryFacts DEF Books, SentOK, FrameOK, Inside, One, Uncounted
<1>3. FrameOK("start", r2, s2, rx)
    BY EntryFacts DEF Books, FrameOK, One, Uncounted
<1> QED BY <1>1, <1>2, <1>3 DEF Books

\* The window starts now.  Whatever got through before did so in the window
\* that is over, and the part of it in the length before now is bounded by
\* that window's count.
LEMMA BooksStart ==
  ASSUME NEW r, NEW r2, NEW s, NEW s2, NEW tf, NEW sf, NEW p, NEW rx,
         Entries(r, s, tf, sf, p, rx), Books("start", r, s, tf, sf, p, rx), r2.now = r.now,
         r.now \in Times, sf[r.now] > 0, r2.tmp = s.packets,
         s2.window_start = r.now, s2.packets = s.packets, s2.prev_packets = s.prev_packets
  PROVE  Books("count", r2, s2, tf, sf, p, rx)
<1> DEFINE n == r.now
<1>0. /\ s.window_start + WINDOW_NS <= n /\ s.packets = 0
      /\ Since(tf, s.window_start) <= s.prev_packets
    BY DEF Books, FrameOK, PassedOK
<1>1. \A t \in Times : tf[t] > 0 => t < n
    <2>1. \A t \in Times : t \in Int
        BY CtlAssumption DEF Times
    <2> QED BY <1>0, <2>1, EntryFacts DEF Books, PassedOK
<1>2. Since(tf, n) = 0
    <2>1. n - 1 \in Int /\ MaxTime \in Int
        BY EntryFacts
    <2>2. \A t \in Times : n - 1 < t /\ t <= MaxTime => tf[t] = 0
        <3>1. \A t \in Times : t \in Int /\ tf[t] \in Nat
            BY CtlAssumption DEF Times, Entries
        <3>2. n \in Nat
            BY EntryFacts
        <3> QED BY <1>1, <3>1, <3>2
    <2>3. tf \in [Times -> Nat]
        BY DEF Entries
    <2>4. Within(tf, n - 1, MaxTime) = 0
        BY <2>1, <2>2, <2>3, WithinNone
    <2> QED BY <2>4 DEF Since
<1>3. Stretch(tf, n - WINDOW_NS) <= Since(tf, s.window_start)
    <2>1. n \in Nat /\ WINDOW_NS \in Nat /\ s.window_start \in Nat /\ MaxTime \in Nat
          /\ n <= MaxTime
        BY EntryFacts DEF Times
    <2> DEFINE a == n - WINDOW_NS - 1
               b == n - WINDOW_NS - 1 + WINDOW_NS
               d == s.window_start - 1
    <2>2. a \in Int /\ b \in Int /\ d \in Int /\ MaxTime \in Int /\ d <= a /\ b <= MaxTime
        BY <1>0, <2>1
    <2>3. \A t \in Times : t \in Int
        BY CtlAssumption DEF Times
    <2>4. tf \in [Times -> Nat]
        BY DEF Entries
    <2>5. Within(tf, a, b) <= Within(tf, d, MaxTime)
        <3> HIDE DEF a, b, d
        <3>1. \A t \in Times : a < t /\ t <= b => d < t /\ t <= MaxTime
            BY <2>2, <2>3
        <3> QED BY <2>2, <2>4, <3>1, WithinPart
    <2> QED BY <2>5 DEF Stretch, Since
<1>4. Stretch(tf, n - WINDOW_NS) \in Nat
    <2>1. n - WINDOW_NS - 1 \in Int /\ n - WINDOW_NS - 1 + WINDOW_NS \in Int
        BY EntryFacts
    <2> QED BY <2>1, WithinNat DEF Stretch, Entries
<1>5. PassedOK("count", s2, tf, p)
    <2>1. \A t \in Times : tf[t] > 0 => t < s2.window_start + WINDOW_NS
        <3>1. \A t \in Times : t \in Int
            BY CtlAssumption DEF Times
        <3> QED BY <1>1, <3>1, EntryFacts
    <2>2. Since(tf, s2.window_start) + One("count" \in InCount) <= s2.packets
        BY <1>0, <1>2 DEF InCount, One
    <2>3. Stretch(tf, s2.window_start - WINDOW_NS) <= s2.prev_packets
        BY <1>0, <1>3, <1>4, EntryFacts
    <2>4. p > 0 => /\ Since(tf, s2.window_start) <= p
                   /\ Stretch(tf, s2.window_start - WINDOW_NS) <= p
        <3>1. p > 0 => Since(tf, s.window_start) <= p
            BY DEF Books, PassedOK
        <3> QED BY <1>2, <1>3, <1>4, <3>1, EntryFacts
    <2> QED BY <2>1, <2>2, <2>3, <2>4 DEF PassedOK
<1>6. SentOK("count", r2.now, s2, sf)
    <2>1. /\ n - 1 \in Int /\ n - 1 + WINDOW_NS \in Int /\ n - 1 < n
          /\ n <= n - 1 + WINDOW_NS
        BY EntryFacts
    <2>2. Stretch(sf, n) >= 1
        BY <2>1, WithinSome DEF Stretch, Entries
    <2>3. Stretch(sf, n) \in Nat
        BY <2>1, WithinNat DEF Stretch, Entries
    <2> QED BY <1>0, <2>2, <2>3 DEF Books, SentOK, One
<1>7. FrameOK("count", r2, s2, rx)
    BY <1>0, EntryFacts DEF Books, FrameOK, One, Uncounted, Inside
<1> QED BY <1>5, <1>6, <1>7 DEF Books

\* The frame is counted.
LEMMA BooksCount ==
  ASSUME NEW r, NEW r2, NEW s, NEW s2, NEW tf, NEW sf, NEW p, NEW rx, NEW ph2 \in {"l4", "rate"},
         Entries(r, s, tf, sf, p, rx), Books("count", r, s, tf, sf, p, rx), r2.now = r.now,
         s2.window_start = s.window_start, s2.packets = r.tmp + 1,
         s2.prev_packets = s.prev_packets
  PROVE  Books(ph2, r2, s2, tf, sf, p, rx)
<1>0. r.tmp = s.packets /\ Inside(s, r.now) /\ Inside(s2, r2.now)
    BY DEF Books, FrameOK, Inside
<1>1. PassedOK(ph2, s2, tf, p)
    BY <1>0, EntryFacts DEF Books, PassedOK, One, InCount
<1>2. SentOK(ph2, r2.now, s2, sf)
    BY <1>0, EntryFacts DEF Books, SentOK, One, Uncounted
<1>3. FrameOK(ph2, r2, s2, rx)
    BY <1>0, EntryFacts DEF Books, FrameOK, One, Uncounted
<1> QED BY <1>1, <1>2, <1>3 DEF Books

\* The protocol count is none of the books.
LEMMA BooksL4 ==
  ASSUME NEW r, NEW r2, NEW s, NEW s2, NEW tf, NEW sf, NEW p, NEW rx,
         Entries(r, s, tf, sf, p, rx), Books("l4", r, s, tf, sf, p, rx), r2.now = r.now,
         s2.window_start = s.window_start, s2.packets = s.packets,
         s2.prev_packets = s.prev_packets
  PROVE  Books("rate", r2, s2, tf, sf, p, rx)
<1>0. Inside(s, r.now) /\ Inside(s2, r2.now)
    BY DEF Books, FrameOK, Inside
<1>1. PassedOK("rate", s2, tf, p)
    BY EntryFacts DEF Books, PassedOK, One, InCount
<1>2. SentOK("rate", r2.now, s2, sf)
    BY EntryFacts DEF Books, SentOK, One, Uncounted
<1>3. FrameOK("rate", r2, s2, rx)
    BY <1>0, EntryFacts DEF Books, FrameOK, One, Uncounted
<1> QED BY <1>1, <1>2, <1>3 DEF Books

\* The arithmetic of __u64 does not wrap: not the clock, and not the weighted
\* number of frames.
Unwrapped == MaxTime < WordMod /\ FRAC * (2 * MaxRx) < WordMod

\* A number below the modulus is its own remainder.
LEMMA SmallMod == \A a, m \in Nat : a < m => a % m = a
  OBVIOUS

\* What a quotient says of the number divided.
LEMMA DivBounds ==
  \A a \in Nat, m \in Nat \ {0} : m * (a \div m) <= a /\ a < m * (a \div m) + m
  OBVIOUS

\* A product grows with its factors.
LEMMA MulMono == \A a, b, x, y \in Nat : a <= x /\ b <= y => a * b <= x * y
<1> SUFFICES ASSUME NEW a \in Nat, NEW b \in Nat, NEW x \in Nat, NEW y \in Nat, a <= x, b <= y
             PROVE  a * b <= x * y
    OBVIOUS
<1>1. PICK d \in Nat : x = a + d
    <2>1. x - a \in Nat /\ x = a + (x - a)
        OBVIOUS
    <2> QED BY <2>1
<1>2. PICK e \in Nat : y = b + e
    <2>1. y - b \in Nat /\ y = b + (y - b)
        OBVIOUS
    <2> QED BY <2>1
<1>3. x * y = a * b + a * e + d * b + d * e
    BY <1>1, <1>2
<1>4. a * e \in Nat /\ d * b \in Nat /\ d * e \in Nat /\ a * b \in Nat
    BY MulNat
<1> QED BY <1>3, <1>4

\* For a frame in the window the slot is computed from the true difference.
LEMMA SlotIs ==
  ASSUME Unwrapped, NEW s \in IpStats, NEW now \in Times, Inside(s, now)
  PROVE  /\ Slot(s, now) = (now - s.window_start) \div FRAC_STEP
         /\ Slot(s, now) \in 0..(FRAC - 1)
<1> DEFINE x == now - s.window_start
<1>0. now \in Nat /\ s.window_start \in Nat /\ now <= MaxTime /\ MaxTime \in Nat
      /\ WordMod \in Nat /\ WINDOW_NS \in Nat
    BY CtlAssumption, MapsAssumption, WindowNat DEF Times, IpStats
<1>1. x \in Nat /\ x < WINDOW_NS /\ x < WordMod
    BY <1>0 DEF Inside, Unwrapped
<1>2. Sub64(now, s.window_start) = x
    <2>1. x % WordMod = x
        <3> HIDE DEF x
        <3> QED BY <1>0, <1>1, SmallMod
    <2> QED BY <2>1 DEF Sub64
<1> HIDE DEF x
<1>3. x \div FRAC_STEP \in 0..(FRAC - 1)
    <2>1. x < FRAC * FRAC_STEP
        BY <1>1 DEF WINDOW_NS
    <2> QED BY <1>1, <2>1, SlotOf, ProgAssumption
<1>4. Slot(s, now) = x \div FRAC_STEP
    BY <1>2 DEF Slot
<1> QED BY <1>3, <1>4 DEF x

\* The rate is the weighted number of frames, rounded down to whole frames.
LEMMA RateIs ==
  ASSUME Unwrapped, NEW s \in IpStats, NEW now \in Times, Inside(s, now),
         s.packets <= MaxRx, s.prev_packets <= MaxRx
  PROVE  /\ FRAC * Rate(s, now) <= Weighted(s, now)
         /\ Weighted(s, now) < FRAC * Rate(s, now) + FRAC
<1> DEFINE j == (now - s.window_start) \div FRAC_STEP
           a == s.prev_packets * (FRAC - j)
           b == s.packets * FRAC
<1>0. /\ s.packets \in Nat /\ s.prev_packets \in Nat /\ MaxRx \in Nat /\ FRAC \in Nat \ {0}
      /\ WordMod \in Nat
    BY ProgAssumption, MapsAssumption DEF IpStats
<1>1. Slot(s, now) = j /\ j \in 0..(FRAC - 1)
    BY SlotIs
<1> HIDE DEF j
<1>2. FRAC - j \in Nat /\ FRAC - j <= FRAC
    BY <1>0, <1>1
<1>3. a \in Nat /\ a <= MaxRx * FRAC
    <2> DEFINE k == FRAC - j
    <2>1. k \in Nat /\ k <= FRAC
        BY <1>2
    <2> HIDE DEF k
    <2>2. s.prev_packets * k \in Nat /\ s.prev_packets * k <= MaxRx * FRAC
        BY <1>0, <2>1, MulMono, MulNat
    <2> QED BY <2>2 DEF k
<1>4. b \in Nat /\ b <= MaxRx * FRAC
    BY <1>0, MulMono, MulNat
<1>5. a + b < WordMod /\ a < WordMod /\ b < WordMod
    <2>1. FRAC * (2 * MaxRx) = MaxRx * FRAC + MaxRx * FRAC
        BY <1>0
    <2>2. MaxRx * FRAC + MaxRx * FRAC < WordMod
        BY <2>1 DEF Unwrapped
    <2>3. MaxRx * FRAC \in Nat
        BY <1>0, MulNat
    <2> HIDE DEF a, b
    <2> QED BY <1>0, <1>3, <1>4, <2>2, <2>3
<1>6. Sub64(FRAC, Slot(s, now)) = FRAC - j
    <2>1. FRAC < WordMod
        <3>1. FRAC * 1 <= FRAC * FRAC_STEP
            BY <1>0, ProgAssumption, MulMono
        <3>2. FRAC * FRAC_STEP \in Nat /\ FRAC * FRAC_STEP < WordMod
            BY <1>0, ProgAssumption, MulNat
        <3> QED BY <1>0, <3>1, <3>2
    <2> DEFINE k == FRAC - j
    <2>2. k \in Nat /\ k < WordMod
        BY <1>0, <1>2, <2>1
    <2> HIDE DEF k
    <2>3. k % WordMod = k
        BY <1>0, <2>2, SmallMod
    <2> QED BY <1>1, <2>3 DEF Sub64, k
<1>7. a % WordMod = a /\ b % WordMod = b /\ (a + b) % WordMod = a + b
    <2> HIDE DEF a, b
    <2>1. a + b \in Nat
        BY <1>3, <1>4
    <2> QED BY <1>0, <1>3, <1>4, <1>5, <2>1, SmallMod
<1>8. Rate(s, now) = (a + b) \div FRAC
    BY <1>6, <1>7 DEF Rate
<1>9. Weighted(s, now) = a + b
    BY DEF Weighted, j
<1> HIDE DEF a, b
<1>10. a + b \in Nat
    BY <1>3, <1>4
<1> QED BY <1>0, <1>8, <1>9, <1>10, DivBounds

\* The rate is computed.
LEMMA BooksRate ==
  ASSUME Unwrapped,
         NEW r, NEW r2, NEW s, NEW tf, NEW sf, NEW p, NEW rx,
         Entries(r, s, tf, sf, p, rx), Books("rate", r, s, tf, sf, p, rx), r2.now = r.now,
         r.now \in Times, rx <= MaxRx, r2.rate = Rate(s, r.now)
  PROVE  Books("limit", r2, s, tf, sf, p, rx)
<1>1. PassedOK("limit", s, tf, p)
    BY EntryFacts DEF Books, PassedOK, One, InCount
<1>2. SentOK("limit", r2.now, s, sf)
    BY EntryFacts DEF Books, SentOK, One, Uncounted
<1>3. FrameOK("limit", r2, s, rx)
    <2>1. Inside(s, r.now)
        BY DEF Books, FrameOK
    <2>2. s.packets <= MaxRx /\ s.prev_packets <= MaxRx
        BY EntryFacts, ProgAssumption DEF Books, FrameOK, One, Uncounted
    <2>3. /\ FRAC * r2.rate <= Weighted(s, r.now)
          /\ Weighted(s, r.now) < FRAC * r2.rate + FRAC
        BY <2>1, <2>2, RateIs DEF Entries
    <2> QED BY <2>1, <2>3, EntryFacts DEF Books, FrameOK, One, Uncounted
<1> QED BY <1>1, <1>2, <1>3 DEF Books

\* A weighted number of frames, in a slot of the window, is no less than the
\* frames counted in the window and no more than these and the previous ones.
LEMMA WeightedBounds ==
  ASSUME Unwrapped, NEW s \in IpStats, NEW now \in Times, Inside(s, now)
  PROVE  /\ Weighted(s, now) \in Nat
         /\ FRAC * s.packets <= Weighted(s, now)
         /\ Weighted(s, now) <= FRAC * (s.prev_packets + s.packets)
<1> DEFINE j == (now - s.window_start) \div FRAC_STEP
           k == FRAC - j
<1>0. s.packets \in Nat /\ s.prev_packets \in Nat /\ FRAC \in Nat \ {0}
    BY ProgAssumption DEF IpStats
<1>1. k \in Nat /\ k <= FRAC
    <2>1. j \in 0..(FRAC - 1)
        BY SlotIs
    <2> HIDE DEF j
    <2> QED BY <1>0, <2>1
<1>2. Weighted(s, now) = s.prev_packets * k + s.packets * FRAC
    BY DEF Weighted
<1> HIDE DEF k
<1>3. /\ s.prev_packets * k \in Nat /\ s.prev_packets * k <= s.prev_packets * FRAC
      /\ s.packets * FRAC \in Nat /\ s.prev_packets * FRAC \in Nat
    BY <1>0, <1>1, MulMono, MulNat
<1>4. /\ FRAC * (s.prev_packets + s.packets) = s.prev_packets * FRAC + s.packets * FRAC
      /\ FRAC * s.packets = s.packets * FRAC
    BY <1>0
<1> QED BY <1>2, <1>3, <1>4

\* A factor may be cancelled.
LEMMA Cancel == \A m \in Nat \ {0}, a, b \in Nat : m * a < m * b + m => a <= b
<1> SUFFICES ASSUME NEW m \in Nat \ {0}, NEW a \in Nat, NEW b \in Nat, ~(a <= b)
             PROVE  ~(m * a < m * b + m)
    OBVIOUS
<1>1. PICK d \in Nat : a = b + 1 + d
    <2>1. a - b - 1 \in Nat /\ a = b + 1 + (a - b - 1)
        OBVIOUS
    <2> QED BY <2>1
<1>2. m * a = m * b + m + m * d
    BY <1>1
<1>3. m * d \in Nat /\ m * b \in Nat /\ m * a \in Nat
    BY MulNat
<1> QED BY <1>2, <1>3

\* A frame passes: then the count of its window is within the limit.
LEMMA BooksPass ==
  ASSUME Unwrapped,
         NEW r, NEW r2, NEW s, NEW tf, NEW tf2, NEW sf, NEW p, NEW rx,
         Entries(r, s, tf, sf, p, rx), Books("limit", r, s, tf, sf, p, rx),
         r.now \in Times, OneMore(tf, tf2, r.now), ~(p > 0 /\ r.rate > p)
  PROVE  Books("idle", r2, s, tf2, sf, p, rx)
<1>0. Inside(s, r.now) /\ s \in IpStats
    BY DEF Books, FrameOK, Entries
<1>1. PassedOK("idle", s, tf2, p)
    <2> DEFINE w == s.window_start
    <2>0. /\ w \in Nat /\ WINDOW_NS \in Nat /\ r.now \in Nat /\ MaxTime \in Nat
          /\ s.packets \in Nat /\ s.prev_packets \in Nat /\ p \in Nat /\ r.rate \in Nat
          /\ Since(tf, w) \in Nat
          /\ w <= r.now /\ r.now < w + WINDOW_NS /\ r.now <= MaxTime
        BY <1>0, EntryFacts DEF Inside, Times
    <2>1. \A t \in Times : tf2[t] > 0 => t < w + WINDOW_NS
        <3> SUFFICES ASSUME NEW t \in Times, tf2[t] > 0 PROVE t < w + WINDOW_NS
            OBVIOUS
        <3>1. CASE t = r.now
            BY <2>0, <3>1
        <3>2. CASE t # r.now
            <4>1. tf2[t] = tf[t]
                BY <3>2 DEF OneMore, One
            <4> QED BY <4>1 DEF Books, PassedOK
        <3> QED BY <3>1, <3>2
    <2>2. Since(tf2, w) = Since(tf, w) + 1
        <3> DEFINE a == w - 1
        <3>1. a \in Int /\ MaxTime \in Int /\ a < r.now /\ r.now <= MaxTime
            BY <2>0
        <3>2. Within(tf2, a, MaxTime) = Within(tf, a, MaxTime) + One(a < r.now /\ r.now <= MaxTime)
            BY <3>1, WithinOneMore
        <3> QED BY <3>1, <3>2 DEF Since, One
    <2>3. Stretch(tf2, w - WINDOW_NS) = Stretch(tf, w - WINDOW_NS)
        <3> DEFINE a == w - WINDOW_NS - 1
                   b == w - WINDOW_NS - 1 + WINDOW_NS
        <3>1. a \in Int /\ b \in Int /\ ~(r.now <= b)
            BY <2>0
        <3>2. Within(tf2, a, b) = Within(tf, a, b) + One(a < r.now /\ r.now <= b)
            <4> HIDE DEF a, b
            <4> QED BY <3>1, WithinOneMore
        <3>3. Within(tf, a, b) \in Nat
            <4> HIDE DEF a, b
            <4> QED BY <3>1, WithinNat DEF Entries
        <3>4. Within(tf2, a, b) = Within(tf, a, b)
            BY <3>1, <3>2, <3>3 DEF One
        <3> QED BY <3>4 DEF Stretch
    <2>4. /\ Since(tf, w) + 1 <= s.packets
          /\ Stretch(tf, w - WINDOW_NS) <= s.prev_packets
        BY DEF Books, PassedOK, One, InCount
    <2>5. p > 0 => s.packets <= p
        <3> SUFFICES ASSUME p > 0 PROVE s.packets <= p
            OBVIOUS
        <3>1. r.rate <= p
            BY <2>0
        <3>2. Weighted(s, r.now) < FRAC * r.rate + FRAC
            BY DEF Books, FrameOK
        <3>3. Weighted(s, r.now) \in Nat /\ FRAC * s.packets <= Weighted(s, r.now)
            BY <1>0, WeightedBounds
        <3>4. FRAC * s.packets \in Nat /\ FRAC * r.rate \in Nat /\ FRAC \in Nat \ {0}
            BY <2>0, ProgAssumption, MulNat
        <3>5. FRAC * s.packets < FRAC * r.rate + FRAC
            BY <3>2, <3>3, <3>4
        <3>6. s.packets <= r.rate
            BY <2>0, <3>4, <3>5, Cancel
        <3> QED BY <2>0, <3>1, <3>6
    <2>6. p > 0 => Stretch(tf, w - WINDOW_NS) <= p
        BY DEF Books, PassedOK
    <2> QED BY <2>0, <2>1, <2>2, <2>3, <2>4, <2>5, <2>6 DEF PassedOK, One, InCount
<1>2. SentOK("idle", r2.now, s, sf)
    BY EntryFacts DEF Books, SentOK, One, Uncounted
<1>3. FrameOK("idle", r2, s, rx)
    BY EntryFacts DEF Books, FrameOK, One, Uncounted
<1> QED BY <1>1, <1>2, <1>3 DEF Books

\* The first frame of a source opens its books.
LEMMA BooksInsert ==
  ASSUME NEW r2, NEW s2, NEW tf, NEW sf, NEW p, NEW rx,
         Entries(r2, s2, tf, sf, p, rx), \A t \in Times : tf[t] = 0, rx > 0,
         r2.now \in Times, sf[r2.now] > 0, r2.rate = 1,
         s2.window_start = r2.now, s2.packets = 1, s2.prev_packets = 0
  PROVE  Books("limit", r2, s2, tf, sf, p, rx)
<1> DEFINE n == r2.now
<1>0. /\ n \in Nat /\ WINDOW_NS \in Nat /\ WINDOW_NS > 0 /\ MaxTime \in Nat
      /\ p \in Nat /\ rx \in Nat /\ n <= MaxTime
    BY EntryFacts DEF Times
<1>1. \A a, b \in Int : Within(tf, a, b) = 0
    BY WithinNone DEF Entries
<1>2. Since(tf, n) = 0 /\ Stretch(tf, n - WINDOW_NS) = 0
    <2>1. /\ n - 1 \in Int /\ MaxTime \in Int
          /\ n - WINDOW_NS - 1 \in Int /\ n - WINDOW_NS - 1 + WINDOW_NS \in Int
        BY <1>0
    <2> QED BY <1>1, <2>1 DEF Since, Stretch
<1>3. PassedOK("limit", s2, tf, p)
    BY <1>0, <1>2 DEF PassedOK, One
<1>4. SentOK("limit", n, s2, sf)
    <2>1. /\ n - 1 \in Int /\ n - 1 + WINDOW_NS \in Int /\ n - 1 < n
          /\ n <= n - 1 + WINDOW_NS
        BY <1>0
    <2>2. Stretch(sf, n) >= 1 /\ Stretch(sf, n) \in Nat
        BY <2>1, WithinSome, WithinNat DEF Stretch, Entries
    <2>3. n - WINDOW_NS \in Int /\ n \in Int
        BY <1>0
    <2>4. Within(sf, n - WINDOW_NS, n) \in Nat
        BY <2>3, WithinNat DEF Entries
    <2> QED BY <2>2, <2>4 DEF SentOK, One, Uncounted
<1>5. FrameOK("limit", r2, s2, rx)
    <2>1. Inside(s2, n)
        BY <1>0 DEF Inside
    <2>2. FRAC * 1 <= Weighted(s2, n) /\ Weighted(s2, n) < FRAC * 1 + FRAC
        <3>1. n - n = 0 /\ 0 \div FRAC_STEP = 0 /\ FRAC \in Nat \ {0}
            BY <1>0, ProgAssumption
        <3>2. Weighted(s2, n) = 0 * (FRAC - 0) + 1 * FRAC
            BY <3>1 DEF Weighted
        <3> QED BY <3>1, <3>2
    <2> QED BY <1>0, <2>1, <2>2 DEF FrameOK, One, Uncounted
<1> QED BY <1>3, <1>4, <1>5 DEF Books

\* A new limit, with which the count of what gets through starts again.
LEMMA BooksLimit ==
  ASSUME NEW r, NEW s, NEW tf, NEW tf2, NEW sf, NEW p, NEW p2, NEW rx, NEW ph,
         Entries(r, s, tf, sf, p, rx), Books(ph, r, s, tf, sf, p, rx), p2 \in Nat,
         tf2 \in [Times -> Nat], \A t \in Times : tf2[t] = 0
  PROVE  Books(ph, r, s, tf2, sf, p2, rx)
<1>1. \A a, b \in Int : Within(tf2, a, b) = 0
    BY WithinNone
<1>2. Since(tf2, s.window_start) = 0 /\ Stretch(tf2, s.window_start - WINDOW_NS) = 0
    <2>1. /\ s.window_start - 1 \in Int /\ MaxTime \in Int
          /\ s.window_start - WINDOW_NS - 1 \in Int
          /\ s.window_start - WINDOW_NS - 1 + WINDOW_NS \in Int
        BY EntryFacts
    <2> QED BY <1>1, <2>1 DEF Since, Stretch
<1>3. PassedOK(ph, s, tf2, p2)
    <2>1. ph \notin {"reset", "clear", "start"} => One(ph \in InCount) <= s.packets
        BY EntryFacts DEF Books, PassedOK, One
    <2> QED BY <1>2, <2>1, EntryFacts DEF PassedOK, One
<1> QED BY <1>3 DEF Books

\* A step that leaves the books and the frame of the source alone.
LEMMA BooksOther ==
  ASSUME NEW r, NEW r2, NEW s, NEW tf, NEW sf, NEW p, NEW rx, NEW rx2 \in Nat, rx <= rx2,
         Entries(r, s, tf, sf, p, rx), Books("idle", r, s, tf, sf, p, rx)
  PROVE  Books("idle", r2, s, tf, sf, p, rx2)
<1>1. SentOK("idle", r2.now, s, sf)
    BY EntryFacts DEF Books, SentOK, One, Uncounted
<1>2. FrameOK("idle", r2, s, rx2)
    BY EntryFacts DEF Books, FrameOK, One, Uncounted
<1> QED BY <1>1, <1>2 DEF Books

-----------------------------------------------------------------------------
(* The meter, and how a step of the only CPU keeps the books.              *)

\* How many CPUs do something, when there is one.
LEMMA OneCpu ==
  ASSUME NEW c, NEW S \in SUBSET {c}
  PROVE  Cardinality(S) = One(c \in S)
<1>1. CASE c \in S
    <2>1. S = {c}
        BY <1>1
    <2> QED BY <1>1, <2>1, FS_Singleton DEF One
<1>2. CASE c \notin S
    <2>1. S = {}
        BY <1>2
    <2> QED BY <1>2, <2>1, FS_EmptySet DEF One
<1> QED BY <1>1, <1>2

\* What the meter of one CPU shows after a step.
LEMMA MeterIs ==
  ASSUME NEW c, Cpus = {c}, MeterTypeOK, Meter
  PROVE  /\ sent' \in [Sources -> [Times -> Nat]]
         /\ through' \in [Sources -> [Times -> Nat]]
         /\ \A ip \in Sources, t \in Times :
              sent'[ip][t] = sent[ip][t]
                + One(Arrives(c) /\ cpu'[c].src = ip /\ cpu'[c].now = t)
         /\ <<enabled, pps>>' # <<enabled, pps>> =>
              \A ip \in Sources, t \in Times : through'[ip][t] = 0
         /\ <<enabled, pps>>' = <<enabled, pps>> =>
              \A ip \in Sources, t \in Times :
                through'[ip][t] = through[ip][t]
                  + One(Leaves(c, "XDP_PASS") /\ cpu[c].src = ip /\ cpu[c].now = t)
<1> DEFINE In(ip, t) == {d \in Cpus : Arrives(d) /\ cpu'[d].src = ip /\ cpu'[d].now = t}
           Out(ip, t) == {d \in Cpus : Leaves(d, "XDP_PASS") /\ cpu[d].src = ip /\ cpu[d].now = t}
<1>1. ASSUME NEW ip, NEW t
      PROVE  /\ Cardinality(In(ip, t)) = One(c \in In(ip, t))
             /\ Cardinality(Out(ip, t)) = One(c \in Out(ip, t))
    <2>1. In(ip, t) \in SUBSET {c} /\ Out(ip, t) \in SUBSET {c}
        OBVIOUS
    <2> HIDE DEF In, Out
    <2> QED BY <2>1, OneCpu
<1>2. \A ip, t : c \in In(ip, t) <=> Arrives(c) /\ cpu'[c].src = ip /\ cpu'[c].now = t
    OBVIOUS
<1>3. \A ip, t : c \in Out(ip, t) <=> Leaves(c, "XDP_PASS") /\ cpu[c].src = ip /\ cpu[c].now = t
    OBVIOUS
<1>4. \A b : One(b) \in Nat
    BY DEF One
<1>5. /\ sent' = [ip \in Sources |-> [t \in Times |-> sent[ip][t] + Cardinality(In(ip, t))]]
      /\ through' = IF <<enabled, pps>>' # <<enabled, pps>> THEN NoFrames ELSE
           [ip \in Sources |-> [t \in Times |-> through[ip][t] + Cardinality(Out(ip, t))]]
    BY DEF Meter
<1> HIDE DEF In, Out
<1>6. /\ \A ip \in Sources, t \in Times : sent[ip][t] \in Nat /\ through[ip][t] \in Nat
      /\ \A ip, t : Cardinality(In(ip, t)) \in Nat /\ Cardinality(Out(ip, t)) \in Nat
    BY <1>1, <1>4 DEF MeterTypeOK
<1>7. sent' \in [Sources -> [Times -> Nat]]
    BY <1>5, <1>6
<1>8. through' \in [Sources -> [Times -> Nat]]
    <2>1. NoFrames \in [Sources -> [Times -> Nat]]
        BY DEF NoFrames
    <2> QED BY <1>5, <1>6, <2>1
<1>9. \A ip \in Sources, t \in Times :
        sent'[ip][t] = sent[ip][t] + One(Arrives(c) /\ cpu'[c].src = ip /\ cpu'[c].now = t)
    <2> SUFFICES ASSUME NEW ip \in Sources, NEW t \in Times
                 PROVE  sent'[ip][t] = sent[ip][t]
                          + One(Arrives(c) /\ cpu'[c].src = ip /\ cpu'[c].now = t)
        OBVIOUS
    <2>1. sent'[ip][t] = sent[ip][t] + Cardinality(In(ip, t))
        BY <1>5
    <2> QED BY <1>1, <1>2, <2>1 DEF One
<1>10. <<enabled, pps>>' # <<enabled, pps>> =>
         \A ip \in Sources, t \in Times : through'[ip][t] = 0
    BY <1>5 DEF NoFrames
<1>11. ASSUME <<enabled, pps>>' = <<enabled, pps>>, NEW ip \in Sources, NEW t \in Times
       PROVE  through'[ip][t] = through[ip][t]
                + One(Leaves(c, "XDP_PASS") /\ cpu[c].src = ip /\ cpu[c].now = t)
    <2>1. through'[ip][t] = through[ip][t] + Cardinality(Out(ip, t))
        BY <1>5, <1>11
    <2> QED BY <1>1, <1>3, <2>1 DEF One
<1> QED BY <1>7, <1>8, <1>9, <1>10, <1>11

\* A step with which no frame arrives leaves one part of the meter alone, one
\* with which none passes the other.
LEMMA MeterKeeps ==
  ASSUME NEW c, Cpus = {c}, MeterTypeOK, Meter
  PROVE  /\ ~Arrives(c) => sent' = sent
         /\ <<enabled, pps>>' = <<enabled, pps>> /\ ~Leaves(c, "XDP_PASS") => through' = through
<1>1. ASSUME NEW f \in [Sources -> [Times -> Nat]], NEW g \in [Sources -> [Times -> Nat]],
             \A ip \in Sources, t \in Times : g[ip][t] = f[ip][t] + 0
      PROVE  g = f
    <2>1. \A ip \in Sources, t \in Times : f[ip][t] \in Nat /\ g[ip][t] = f[ip][t]
        BY <1>1
    <2>2. \A ip \in Sources : g[ip] = f[ip]
        BY <2>1
    <2> QED BY <2>2
<1>2. ASSUME ~Arrives(c) PROVE sent' = sent
    <2>1. \A ip \in Sources, t \in Times : sent'[ip][t] = sent[ip][t] + 0
        BY <1>2, MeterIs DEF One
    <2> QED BY <1>1, <2>1, MeterIs DEF MeterTypeOK
<1>3. ASSUME <<enabled, pps>>' = <<enabled, pps>>, ~Leaves(c, "XDP_PASS") PROVE through' = through
    <2>1. \A ip \in Sources, t \in Times : through'[ip][t] = through[ip][t] + 0
        BY <1>3, MeterIs DEF One
    <2> QED BY <1>1, <2>1, MeterIs DEF MeterTypeOK
<1> QED BY <1>2, <1>3

\* What the invariant says of the frame in flight and of the books.
LEMMA LimitFacts ==
  ASSUME NEW c \in Cpus, LimitInv(c)
  PROVE  /\ cpu[c] \in CpuState /\ cpu[c] \in CpuRecord
         /\ clock \in Times
         /\ counters[c].rx \in Nat /\ counters[c].rx <= MaxRx
         /\ pps \in Nat
         /\ \A ip \in Sources : elem[ip] # Absent =>
              /\ elem[ip] \in Elements
              /\ Entries(cpu[c], stats[elem[ip]], through[ip], sent[ip], pps, counters[c].rx)
              /\ Books(Phase(cpu[c], ip), cpu[c], stats[elem[ip]], through[ip], sent[ip], pps,
                       counters[c].rx)
         /\ cpu[c].pc # "idle" => /\ cpu[c].src \in Sources /\ cpu[c].now \in Times
                                  /\ sent[cpu[c].src][cpu[c].now] > 0
<1>1. cpu[c] \in CpuState /\ cpu[c] \in CpuRecord
    BY DEF LimitInv, TypeOK, CpuState
<1>2. clock \in Times
    BY CtlAssumption DEF LimitInv, TypeOK, RulesTypeOK, MeterTypeOK, Times
<1>3. counters[c].rx \in Nat /\ counters[c].rx <= MaxRx /\ pps \in Nat
    BY DEF LimitInv, TypeOK, VerdictTypeOK, RulesTypeOK, Stamped
<1>4. ASSUME NEW ip \in Sources, elem[ip] # Absent
      PROVE  /\ elem[ip] \in Elements
             /\ Entries(cpu[c], stats[elem[ip]], through[ip], sent[ip], pps, counters[c].rx)
             /\ Books(Phase(cpu[c], ip), cpu[c], stats[elem[ip]], through[ip], sent[ip], pps,
                      counters[c].rx)
    <2>1. elem[ip] \in Elements /\ stats[elem[ip]] \in IpStats
        BY <1>4 DEF LimitInv, TypeOK, StatsTypeOK
    <2>2. through[ip] \in [Times -> Nat] /\ sent[ip] \in [Times -> Nat]
        BY DEF LimitInv, MeterTypeOK
    <2> QED BY <1>1, <1>3, <1>4, <2>1, <2>2 DEF Entries, LimitInv, BooksOK
<1>5. ASSUME cpu[c].pc # "idle"
      PROVE  /\ cpu[c].src \in Sources /\ cpu[c].now \in Times
             /\ sent[cpu[c].src][cpu[c].now] > 0
    <2>1. cpu[c].src \in Sources /\ cpu[c].now \in Nat
        BY <1>1, <1>5 DEF CpuState, CpuRecord
    <2>2. cpu[c].now <= clock /\ sent[cpu[c].src][cpu[c].now] > 0
        BY <1>5 DEF LimitInv, Stamped
    <2> QED BY <1>2, <2>1, <2>2, CtlAssumption DEF Times
<1> QED BY <1>1, <1>2, <1>3, <1>4, <1>5

\* A step of the frame in flight that neither ends it nor counts a verdict
\* changes the books of its source only; then these are what matters.
Moves(c) ==
  /\ cpu[c].pc # "idle" /\ cpu'[c].pc # "idle"
  /\ cpu'[c].src = cpu[c].src /\ cpu'[c].now = cpu[c].now
  /\ clock' = clock /\ enabled' = enabled /\ pps' = pps /\ counters' = counters

\* A step of the frame in flight keeps the invariant when it touches the
\* statistics of its own source only and keeps that source's books.
LEMMA BooksAdvance ==
  ASSUME NEW c, Cpus = {c}, LimitInv(c), TypeOK', Meter, Moves(c), Owned(c)',
         NEW src, src = cpu[c].src,
         \A ip \in Sources \ {src} :
           elem'[ip] = elem[ip] /\ (elem[ip] # Absent => stats'[elem[ip]] = stats[elem[ip]]),
         elem'[src] = Absent => elem[src] = Absent,
         elem'[src] # Absent =>
           /\ Books(cpu'[c].pc, cpu'[c], stats'[elem'[src]], through[src], sent[src], pps,
                    counters[c].rx)
           /\ stats'[elem'[src]].window_start <= cpu[c].now
  PROVE  LimitInv(c)'
<1>0. src \in Sources /\ cpu[c].now \in Times /\ sent[src][cpu[c].now] > 0
    BY LimitFacts DEF Moves
<1>1. sent' = sent /\ through' = through
    BY MeterKeeps DEF Moves, Arrives, Leaves, LimitInv
<1>2. MeterTypeOK'
    BY <1>1 DEF Moves, LimitInv, MeterTypeOK
<1>3. Stamped(c)'
    BY <1>1 DEF Moves, LimitInv, Stamped
<1>4. Aged(c)'
    <2> SUFFICES ASSUME NEW ip \in Sources, elem'[ip] # Absent
                 PROVE  stats'[elem'[ip]].window_start <= cpu'[c].now
        BY DEF Aged, Moves
    <2>1. CASE ip = src
        BY <2>1 DEF Moves
    <2>2. CASE ip # src
        BY <2>2 DEF Moves, LimitInv, Aged
    <2> QED BY <2>1, <2>2
<1>5. ASSUME NEW ip \in Sources PROVE BooksOK(c, ip)'
    <2>1. CASE ip = src
        <3>1. elem'[src] = Absent => \A t \in Times : through'[src][t] = 0
            BY <1>0, <1>1 DEF LimitInv, BooksOK
        <3>2. Phase(cpu[c], src)' = cpu'[c].pc
            BY DEF Phase, Moves
        <3> QED BY <1>1, <2>1, <3>1, <3>2 DEF BooksOK, Moves
    <2>2. CASE ip # src
        <3>1. Phase(cpu[c], ip) = "idle" /\ Phase(cpu[c], ip)' = "idle"
            BY <2>2 DEF Phase, Moves
        <3>2. /\ elem'[ip] = elem[ip]
              /\ elem[ip] # Absent => stats'[elem[ip]] = stats[elem[ip]]
            BY <2>2
        <3>3. elem[ip] # Absent =>
                Books("idle", cpu'[c], stats[elem[ip]], through[ip], sent[ip], pps,
                      counters[c].rx)
            <4> SUFFICES ASSUME elem[ip] # Absent
                         PROVE  Books("idle", cpu'[c], stats[elem[ip]], through[ip], sent[ip],
                                      pps, counters[c].rx)
                OBVIOUS
            <4>1. /\ Entries(cpu[c], stats[elem[ip]], through[ip], sent[ip], pps,
                             counters[c].rx)
                  /\ Books("idle", cpu[c], stats[elem[ip]], through[ip], sent[ip], pps,
                           counters[c].rx)
                  /\ counters[c].rx \in Nat
                BY <3>1, LimitFacts
            <4> QED BY <4>1, BooksOther
        <3>4. elem[ip] = Absent => \A t \in Times : through[ip][t] = 0
            BY DEF LimitInv, BooksOK
        <3> QED BY <1>1, <3>1, <3>2, <3>3, <3>4 DEF BooksOK, Moves
    <2> QED BY <2>1, <2>2
<1> QED BY <1>2, <1>3, <1>4, <1>5 DEF LimitInv

\* A step that changes only registers, before the statistics are counted in.
LEMMA RulesAdvance ==
  ASSUME NEW c, Cpus = {c}, LimitInv(c), TypeOK', Meter, Moves(c), elem' = elem, stats' = stats,
         cpu[c].pc \in {"block", "test", "expire", "range", "stats"},
         cpu'[c].pc \in {"block", "test", "expire", "range", "stats", "insert", "roll"},
         cpu'[c].pc = "insert" => elem[cpu[c].src] = Absent,
         cpu'[c].pc = "roll" => elem[cpu[c].src] = cpu'[c].s
  PROVE  LimitInv(c)'
<1> DEFINE src == cpu[c].src
<1>1. Owned(c)'
    BY DEF LimitInv, Owned, PointerPcs, Moves
<1>2. ASSUME elem'[src] # Absent
      PROVE  /\ Books(cpu'[c].pc, cpu'[c], stats'[elem'[src]], through[src], sent[src], pps,
                      counters[c].rx)
             /\ stats'[elem'[src]].window_start <= cpu[c].now
    <2>0. src \in Sources /\ Phase(cpu[c], src) = cpu[c].pc
        BY LimitFacts DEF Phase
    <2>1. /\ Entries(cpu[c], stats[elem[src]], through[src], sent[src], pps, counters[c].rx)
          /\ Books(cpu[c].pc, cpu[c], stats[elem[src]], through[src], sent[src], pps,
                   counters[c].rx)
        BY <1>2, <2>0, LimitFacts
    <2>2. cpu[c].pc \in Uncounted /\ cpu[c].pc \notin {"reset", "clear", "start"}
          /\ cpu'[c].pc \in Uncounted /\ cpu'[c].pc \notin InCount
          /\ cpu'[c].pc \notin {"shift", "reset", "clear", "start", "count", "l4", "rate", "limit"}
        BY DEF Uncounted, InCount
    <2>3. cpu'[c].now = cpu[c].now
        BY DEF Moves
    <2>4. Books(cpu'[c].pc, cpu'[c], stats[elem[src]], through[src], sent[src], pps,
                counters[c].rx)
        BY <2>1, <2>2, <2>3, BooksMove
    <2>5. stats[elem[src]].window_start <= cpu[c].now
        BY <1>2, <2>0 DEF LimitInv, Aged
    <2> QED BY <2>4, <2>5
<1> HIDE DEF src
<1>3. \A ip \in Sources \ {src} :
        elem'[ip] = elem[ip] /\ (elem[ip] # Absent => stats'[elem[ip]] = stats[elem[ip]])
    OBVIOUS
<1>4. elem'[src] = Absent => elem[src] = Absent
    OBVIOUS
<1> QED BY <1>1, <1>2, <1>3, <1>4, BooksAdvance DEF src

\* A step that changes at most the statistics behind the pointer.
LEMMA PointerAdvance ==
  ASSUME NEW c, Cpus = {c}, LimitInv(c), TypeOK', Meter, Moves(c), elem' = elem,
         cpu[c].pc \in PointerPcs, cpu'[c].pc \in PointerPcs \cup {"limit"},
         cpu'[c].s = cpu[c].s,
         NEW s2, stats' = [stats EXCEPT ![cpu[c].s] = s2],
         Books(cpu'[c].pc, cpu'[c], s2, through[cpu[c].src], sent[cpu[c].src], pps,
               counters[c].rx),
         s2.window_start <= cpu[c].now
  PROVE  LimitInv(c)'
<1> DEFINE src == cpu[c].src
           e == cpu[c].s
<1>0. src \in Sources /\ elem[src] = e /\ e \in Elements /\ e # Absent
    <2>1. src \in Sources /\ elem[src] = e
        BY LimitFacts DEF PointerPcs, LimitInv, Owned
    <2>2. e \in Elements
        BY LimitFacts DEF CpuState
    <2>3. Absent \notin Elements
        BY ProgAssumption DEF Elements, Absent
    <2> QED BY <2>1, <2>2, <2>3
<1>1. Owned(c)'
    BY <1>0 DEF LimitInv, Owned, PointerPcs, Moves
<1>2. stats'[e] = s2 /\ \A d \in Elements : d # e => stats'[d] = stats[d]
    BY <1>0 DEF LimitInv, TypeOK, StatsTypeOK
<1>3. \A ip \in Sources \ {src} :
        elem'[ip] = elem[ip] /\ (elem[ip] # Absent => stats'[elem[ip]] = stats[elem[ip]])
    <2>1. \A ip \in Sources \ {src} : elem[ip] # Absent => elem[ip] \in Elements /\ elem[ip] # e
        BY <1>0, LimitFacts DEF LimitInv, Owned
    <2> QED BY <1>2, <2>1
<1>4. elem'[src] = Absent => elem[src] = Absent
    OBVIOUS
<1>5. elem'[src] # Absent =>
        /\ Books(cpu'[c].pc, cpu'[c], stats'[elem'[src]], through[src], sent[src], pps,
                 counters[c].rx)
        /\ stats'[elem'[src]].window_start <= cpu[c].now
    BY <1>0, <1>2
<1> HIDE DEF src
<1> QED BY <1>1, <1>3, <1>4, <1>5, BooksAdvance DEF src

\* What the invariant says at a step that goes through the pointer.
LEMMA PointerFacts ==
  ASSUME NEW c \in Cpus, LimitInv(c), cpu[c].pc \in PointerPcs
  PROVE  LET src == cpu[c].src
             s   == stats[cpu[c].s]
         IN  /\ src \in Sources /\ cpu[c].s \in Elements
             /\ Entries(cpu[c], s, through[src], sent[src], pps, counters[c].rx)
             /\ Books(cpu[c].pc, cpu[c], s, through[src], sent[src], pps, counters[c].rx)
             /\ s \in IpStats /\ s.window_start <= cpu[c].now
<1> DEFINE src == cpu[c].src
           s   == stats[cpu[c].s]
<1>1. src \in Sources /\ elem[src] = cpu[c].s
    BY LimitFacts DEF PointerPcs, LimitInv, Owned
<1>2. cpu[c].s \in Elements
    BY LimitFacts DEF CpuState
<1>3. elem[src] # Absent
    <2>1. Absent \notin Elements
        BY ProgAssumption DEF Elements, Absent
    <2> QED BY <1>1, <1>2, <2>1
<1>4. /\ Entries(cpu[c], stats[elem[src]], through[src], sent[src], pps, counters[c].rx)
      /\ Books(Phase(cpu[c], src), cpu[c], stats[elem[src]], through[src], sent[src], pps,
               counters[c].rx)
    BY <1>1, <1>3, LimitFacts
<1>5. Phase(cpu[c], src) = cpu[c].pc
    BY DEF Phase
<1>6. s.window_start <= cpu[c].now
    BY <1>1, <1>3 DEF LimitInv, Aged, PointerPcs
<1>7. s \in IpStats
    BY <1>2 DEF LimitInv, TypeOK, StatsTypeOK
<1> QED BY <1>1, <1>2, <1>4, <1>5, <1>6, <1>7

\* The comparison with the end of the window keeps the invariant.
LEMMA CheckAdvance ==
  ASSUME Unwrapped, NEW c, Cpus = {c}, LimitInv(c), TypeOK', Meter, CheckWindow(c)
  PROVE  LimitInv(c)'
<1> DEFINE src == cpu[c].src
           s   == stats[cpu[c].s]
           over == WindowOver(s, cpu[c].now)
<1>0. cpu[c].pc = "roll" /\ cpu[c].pc \in PointerPcs /\ cpu \in [Cpus -> CpuState] /\ c \in Cpus
      /\ cpu[c] \in CpuRecord /\ stats \in [Elements -> IpStats]
    BY LimitFacts DEF CheckWindow, PointerPcs, LimitInv, TypeOK, StatsTypeOK
<1>1. /\ src \in Sources /\ cpu[c].s \in Elements
      /\ Entries(cpu[c], s, through[src], sent[src], pps, counters[c].rx)
      /\ Books("roll", cpu[c], s, through[src], sent[src], pps, counters[c].rx)
      /\ s \in IpStats /\ s.window_start <= cpu[c].now
    BY <1>0, PointerFacts
<1>2. /\ cpu'[c].pc = IF over THEN "shift" ELSE "count"
      /\ cpu'[c].tmp = IF over THEN 0 ELSE s.packets
      /\ cpu'[c].src = cpu[c].src /\ cpu'[c].now = cpu[c].now /\ cpu'[c].s = cpu[c].s
    <2>1. cpu' = [cpu EXCEPT ![c].pc = IF over THEN "shift" ELSE "count",
                             ![c].tmp = IF over THEN 0 ELSE s.packets]
        BY DEF CheckWindow
    <2> HIDE DEF over, s
    <2> QED BY <1>0, <2>1 DEF CpuRecord
<1>3. stats' = [stats EXCEPT ![cpu[c].s] = s] /\ elem' = elem
    BY <1>0, <1>1 DEF CheckWindow
<1>4. Moves(c)
    BY <1>0, <1>2 DEF CheckWindow, Moves, maps
<1>5. over <=> s.window_start + WINDOW_NS <= cpu[c].now
    <2>1. /\ cpu[c].now \in Nat /\ cpu[c].now <= MaxTime /\ MaxTime \in Nat /\ WordMod \in Nat
          /\ s.window_start \in Nat /\ WINDOW_NS \in Nat
        BY <1>0, <1>1, LimitFacts, EntryFacts, MapsAssumption DEF Times
    <2> DEFINE x == cpu[c].now - s.window_start
    <2>2. x \in Nat /\ x < WordMod
        BY <1>1, <2>1 DEF Unwrapped
    <2>3. x % WordMod = x
        <3> HIDE DEF x
        <3> QED BY <2>1, <2>2, SmallMod
    <2>4. Sub64(cpu[c].now, s.window_start) = x
        BY <2>3 DEF Sub64
    <2> HIDE DEF s
    <2> QED BY <2>1, <2>4 DEF WindowOver
<1>6. Books(cpu'[c].pc, cpu'[c], s, through[src], sent[src], pps, counters[c].rx)
    <2>1. cpu[c].now \in Nat /\ s.window_start \in Nat /\ WINDOW_NS \in Nat
        BY <1>1, EntryFacts
    <2>2. over \/ cpu[c].now < s.window_start + WINDOW_NS
        BY <1>5, <2>1
    <2> HIDE DEF over, s, src
    <2> QED BY <1>1, <1>2, <1>5, <2>2, BooksCheck
<1>7. cpu'[c].pc \in PointerPcs \cup {"limit"}
    BY <1>2 DEF PointerPcs
<1> HIDE DEF over, s
<1> QED BY <1>0, <1>1, <1>2, <1>3, <1>4, <1>6, <1>7, PointerAdvance

\* The store to prev_packets keeps the invariant: the window that ended becomes
\* the previous one.
LEMMA ShiftAdvance ==
  ASSUME NEW c, Cpus = {c}, LimitInv(c), TypeOK', Meter, ShiftWindow(c)
  PROVE  LimitInv(c)'
<1> DEFINE src == cpu[c].src
           s   == stats[cpu[c].s]
           s2  == [s EXCEPT !.prev_packets = s.packets]
<1>0. cpu[c].pc = "shift" /\ cpu[c].pc \in PointerPcs /\ cpu \in [Cpus -> CpuState] /\ c \in Cpus
      /\ cpu[c] \in CpuRecord /\ stats \in [Elements -> IpStats]
    BY LimitFacts DEF ShiftWindow, PointerPcs, LimitInv, TypeOK, StatsTypeOK
<1>1. /\ src \in Sources /\ cpu[c].s \in Elements
      /\ Entries(cpu[c], s, through[src], sent[src], pps, counters[c].rx)
      /\ Books("shift", cpu[c], s, through[src], sent[src], pps, counters[c].rx)
      /\ s \in IpStats /\ s.window_start <= cpu[c].now
    BY <1>0, PointerFacts
<1>2. cpu'[c] = [cpu[c] EXCEPT !.pc = "reset"]
    BY <1>0 DEF ShiftWindow
<1>3. stats' = [stats EXCEPT ![cpu[c].s] = s2] /\ elem' = elem
    BY <1>0, <1>1 DEF ShiftWindow
<1>4. /\ cpu'[c].pc = "reset" /\ cpu'[c].pc \in PointerPcs \cup {"limit"}
      /\ cpu'[c].src = src /\ cpu'[c].now = cpu[c].now /\ cpu'[c].s = cpu[c].s
    BY <1>0, <1>2 DEF CpuRecord, PointerPcs
<1>5. Moves(c)
    BY <1>0, <1>4 DEF ShiftWindow, Moves, maps
<1>6. /\ s2.window_start = s.window_start /\ s2.packets = s.packets
      /\ s2.prev_packets = s.packets
    BY <1>1 DEF IpStats
<1>7. cpu[c].now <= MaxTime
    BY <1>0, LimitFacts DEF Times
<1> HIDE DEF s, s2
<1>8. Books(cpu'[c].pc, cpu'[c], s2, through[src], sent[src], pps, counters[c].rx)
    <2> HIDE DEF src
    <2> QED BY <1>1, <1>4, <1>6, <1>7, BooksShift
<1> QED BY <1>0, <1>1, <1>3, <1>4, <1>5, <1>6, <1>8, PointerAdvance

\* The store of zero to packets keeps the invariant.
LEMMA ResetAdvance ==
  ASSUME NEW c, Cpus = {c}, LimitInv(c), TypeOK', Meter, ResetWindow(c)
  PROVE  LimitInv(c)'
<1> DEFINE src == cpu[c].src
           s   == stats[cpu[c].s]
           s2  == PacketsCleared(s)
<1>0. cpu[c].pc = "reset" /\ cpu[c].pc \in PointerPcs /\ cpu \in [Cpus -> CpuState] /\ c \in Cpus
      /\ cpu[c] \in CpuRecord /\ stats \in [Elements -> IpStats]
    BY LimitFacts DEF ResetWindow, PointerPcs, LimitInv, TypeOK, StatsTypeOK
<1>1. /\ src \in Sources /\ cpu[c].s \in Elements
      /\ Entries(cpu[c], s, through[src], sent[src], pps, counters[c].rx)
      /\ Books("reset", cpu[c], s, through[src], sent[src], pps, counters[c].rx)
      /\ s \in IpStats /\ s.window_start <= cpu[c].now
    BY <1>0, PointerFacts
<1>2. cpu'[c] = [cpu[c] EXCEPT !.pc = "clear"]
    BY <1>0 DEF ResetWindow
<1>3. stats' = [stats EXCEPT ![cpu[c].s] = s2] /\ elem' = elem
    BY DEF ResetWindow
<1>4. /\ cpu'[c].pc = "clear" /\ cpu'[c].pc \in PointerPcs \cup {"limit"}
      /\ cpu'[c].src = src /\ cpu'[c].now = cpu[c].now /\ cpu'[c].s = cpu[c].s
    BY <1>0, <1>2 DEF CpuRecord, PointerPcs
<1>5. Moves(c)
    BY <1>0, <1>4 DEF ResetWindow, Moves, maps
<1>6. /\ s2.window_start = s.window_start /\ s2.packets = 0
      /\ s2.prev_packets = s.prev_packets
    BY <1>1 DEF IpStats, PacketsCleared
<1> HIDE DEF s, s2
<1>7. Books(cpu'[c].pc, cpu'[c], s2, through[src], sent[src], pps, counters[c].rx)
    <2> HIDE DEF src
    <2> QED BY <1>1, <1>4, <1>6, BooksReset
<1> QED BY <1>0, <1>1, <1>3, <1>4, <1>5, <1>6, <1>7, PointerAdvance

\* The stores of zero to the protocol counts keep the invariant.
LEMMA ClearAdvance ==
  ASSUME NEW c, Cpus = {c}, LimitInv(c), TypeOK', Meter, ClearClasses(c)
  PROVE  LimitInv(c)'
<1> DEFINE src == cpu[c].src
           s   == stats[cpu[c].s]
           s2  == ClassesCleared(s)
<1>0. cpu[c].pc = "clear" /\ cpu[c].pc \in PointerPcs /\ cpu \in [Cpus -> CpuState] /\ c \in Cpus
      /\ cpu[c] \in CpuRecord /\ stats \in [Elements -> IpStats]
    BY LimitFacts DEF ClearClasses, PointerPcs, LimitInv, TypeOK, StatsTypeOK
<1>1. /\ src \in Sources /\ cpu[c].s \in Elements
      /\ Entries(cpu[c], s, through[src], sent[src], pps, counters[c].rx)
      /\ Books("clear", cpu[c], s, through[src], sent[src], pps, counters[c].rx)
      /\ s \in IpStats /\ s.window_start <= cpu[c].now
    BY <1>0, PointerFacts
<1>2. cpu'[c] = [cpu[c] EXCEPT !.pc = "start"]
    BY <1>0 DEF ClearClasses
<1>3. stats' = [stats EXCEPT ![cpu[c].s] = s2] /\ elem' = elem
    BY DEF ClearClasses
<1>4. /\ cpu'[c].pc = "start" /\ cpu'[c].pc \in PointerPcs \cup {"limit"}
      /\ cpu'[c].src = src /\ cpu'[c].now = cpu[c].now /\ cpu'[c].s = cpu[c].s
    BY <1>0, <1>2 DEF CpuRecord, PointerPcs
<1>5. Moves(c)
    BY <1>0, <1>4 DEF ClearClasses, Moves, maps
<1>6. /\ s2.window_start = s.window_start /\ s2.packets = s.packets
      /\ s2.prev_packets = s.prev_packets
    BY <1>1 DEF IpStats, ClassesCleared
<1> HIDE DEF s, s2
<1>7. Books(cpu'[c].pc, cpu'[c], s2, through[src], sent[src], pps, counters[c].rx)
    <2> HIDE DEF src
    <2> QED BY <1>1, <1>4, <1>6, BooksClear
<1> QED BY <1>0, <1>1, <1>3, <1>4, <1>5, <1>6, <1>7, PointerAdvance

\* The store to window_start keeps the invariant: the new window is empty and
\* the length before it holds no more than the window that ended.
LEMMA StartAdvance ==
  ASSUME NEW c, Cpus = {c}, LimitInv(c), TypeOK', Meter, StartWindow(c)
  PROVE  LimitInv(c)'
<1> DEFINE src == cpu[c].src
           s   == stats[cpu[c].s]
           s2  == [s EXCEPT !.window_start = cpu[c].now]
<1>0. cpu[c].pc = "start" /\ cpu[c].pc \in PointerPcs /\ cpu \in [Cpus -> CpuState] /\ c \in Cpus
      /\ cpu[c] \in CpuRecord /\ stats \in [Elements -> IpStats]
    BY LimitFacts DEF StartWindow, PointerPcs, LimitInv, TypeOK, StatsTypeOK
<1>1. /\ src \in Sources /\ cpu[c].s \in Elements
      /\ Entries(cpu[c], s, through[src], sent[src], pps, counters[c].rx)
      /\ Books("start", cpu[c], s, through[src], sent[src], pps, counters[c].rx)
      /\ s \in IpStats /\ s.window_start <= cpu[c].now
    BY <1>0, PointerFacts
<1>2. cpu'[c] = [cpu[c] EXCEPT !.pc = "count", !.tmp = s.packets]
    BY <1>0 DEF StartWindow
<1>3. stats' = [stats EXCEPT ![cpu[c].s] = s2] /\ elem' = elem
    BY <1>0, <1>1 DEF StartWindow
<1>4. /\ cpu'[c].pc = "count" /\ cpu'[c].pc \in PointerPcs \cup {"limit"}
      /\ cpu'[c].tmp = s.packets
      /\ cpu'[c].src = src /\ cpu'[c].now = cpu[c].now /\ cpu'[c].s = cpu[c].s
    BY <1>0, <1>2 DEF CpuRecord, PointerPcs
<1>5. Moves(c)
    BY <1>0, <1>4 DEF StartWindow, Moves, maps
<1>6. /\ s2.window_start = cpu[c].now /\ s2.packets = s.packets
      /\ s2.prev_packets = s.prev_packets
    BY <1>1 DEF IpStats
<1>7. cpu[c].now \in Times /\ sent[src][cpu[c].now] > 0 /\ cpu[c].now <= cpu[c].now
    BY <1>0, LimitFacts DEF Times
<1> HIDE DEF s, s2
<1>8. Books(cpu'[c].pc, cpu'[c], s2, through[src], sent[src], pps, counters[c].rx)
    <2> DEFINE tf == through[src]
               sf == sent[src]
    <2> HIDE DEF tf, sf
    <2> QED BY <1>1, <1>4, <1>6, <1>7, BooksStart DEF tf, sf
<1> QED BY <1>0, <1>1, <1>3, <1>4, <1>5, <1>6, <1>7, <1>8, PointerAdvance

\* The store to packets keeps the invariant: the frame is counted.
LEMMA CountAdvance ==
  ASSUME NEW c, Cpus = {c}, LimitInv(c), TypeOK', Meter, StorePackets(c)
  PROVE  LimitInv(c)'
<1> DEFINE src == cpu[c].src
           s   == stats[cpu[c].s]
           s2  == [s EXCEPT !.packets = cpu[c].tmp + 1]
           cls == cpu[c].cls
<1>0. cpu[c].pc = "count" /\ cpu[c].pc \in PointerPcs /\ cpu \in [Cpus -> CpuState] /\ c \in Cpus
      /\ cpu[c] \in CpuRecord /\ stats \in [Elements -> IpStats]
    BY LimitFacts DEF StorePackets, PointerPcs, LimitInv, TypeOK, StatsTypeOK
<1>1. /\ src \in Sources /\ cpu[c].s \in Elements
      /\ Entries(cpu[c], s, through[src], sent[src], pps, counters[c].rx)
      /\ Books("count", cpu[c], s, through[src], sent[src], pps, counters[c].rx)
      /\ s \in IpStats /\ s.window_start <= cpu[c].now
    BY <1>0, PointerFacts
<1>2. cpu'[c] = [cpu[c] EXCEPT !.pc = IF cls \in L4Classes THEN "l4" ELSE "rate",
                               !.tmp = IF cls \in L4Classes THEN s.l4[cls] ELSE 0]
    BY <1>0 DEF StorePackets
<1>3. stats' = [stats EXCEPT ![cpu[c].s] = s2] /\ elem' = elem
    BY <1>0, <1>1 DEF StorePackets
<1>4. /\ cpu'[c].pc \in {"l4", "rate"} /\ cpu'[c].pc \in PointerPcs \cup {"limit"}
      /\ cpu'[c].src = src /\ cpu'[c].now = cpu[c].now /\ cpu'[c].s = cpu[c].s
    BY <1>0, <1>2 DEF CpuRecord, PointerPcs
<1>5. Moves(c)
    BY <1>0, <1>4 DEF StorePackets, Moves, maps
<1>6. /\ s2.window_start = s.window_start /\ s2.packets = cpu[c].tmp + 1
      /\ s2.prev_packets = s.prev_packets
    BY <1>1 DEF IpStats
<1> HIDE DEF s, s2
<1>7. Books(cpu'[c].pc, cpu'[c], s2, through[src], sent[src], pps, counters[c].rx)
    <2> HIDE DEF src
    <2> QED BY <1>1, <1>4, <1>6, BooksCount
<1> QED BY <1>0, <1>1, <1>3, <1>4, <1>5, <1>6, <1>7, PointerAdvance

\* The store to the protocol's counter keeps the invariant.
LEMMA L4Advance ==
  ASSUME NEW c, Cpus = {c}, LimitInv(c), TypeOK', Meter, StoreL4(c)
  PROVE  LimitInv(c)'
<1> DEFINE src == cpu[c].src
           s   == stats[cpu[c].s]
           s2  == [s EXCEPT !.l4[cpu[c].cls] = cpu[c].tmp + 1]
<1>0. cpu[c].pc = "l4" /\ cpu[c].pc \in PointerPcs /\ cpu \in [Cpus -> CpuState] /\ c \in Cpus
      /\ cpu[c] \in CpuRecord /\ stats \in [Elements -> IpStats]
    BY LimitFacts DEF StoreL4, PointerPcs, LimitInv, TypeOK, StatsTypeOK
<1>1. /\ src \in Sources /\ cpu[c].s \in Elements
      /\ Entries(cpu[c], s, through[src], sent[src], pps, counters[c].rx)
      /\ Books("l4", cpu[c], s, through[src], sent[src], pps, counters[c].rx)
      /\ s \in IpStats /\ s.window_start <= cpu[c].now
    BY <1>0, PointerFacts
<1>2. cpu'[c] = [cpu[c] EXCEPT !.pc = "rate", !.tmp = 0]
    BY <1>0 DEF StoreL4
<1>3. stats' = [stats EXCEPT ![cpu[c].s] = s2] /\ elem' = elem
    BY <1>0, <1>1 DEF StoreL4
<1>4. /\ cpu'[c].pc = "rate" /\ cpu'[c].pc \in PointerPcs \cup {"limit"}
      /\ cpu'[c].src = src /\ cpu'[c].now = cpu[c].now /\ cpu'[c].s = cpu[c].s
    BY <1>0, <1>2 DEF CpuRecord, PointerPcs
<1>5. Moves(c)
    BY <1>0, <1>4 DEF StoreL4, Moves, maps
<1>6. /\ s2.window_start = s.window_start /\ s2.packets = s.packets
      /\ s2.prev_packets = s.prev_packets
    BY <1>1 DEF IpStats
<1> HIDE DEF s, s2
<1>7. Books(cpu'[c].pc, cpu'[c], s2, through[src], sent[src], pps, counters[c].rx)
    <2> HIDE DEF src
    <2> QED BY <1>1, <1>4, <1>6, BooksL4
<1> QED BY <1>0, <1>1, <1>3, <1>4, <1>5, <1>6, <1>7, PointerAdvance

\* The weighted rate keeps the invariant: it is rounded, and does not wrap.
LEMMA RateAdvance ==
  ASSUME Unwrapped, NEW c, Cpus = {c}, LimitInv(c), TypeOK', Meter, ComputeRate(c)
  PROVE  LimitInv(c)'
<1> DEFINE src == cpu[c].src
           s   == stats[cpu[c].s]
<1>0. cpu[c].pc = "rate" /\ cpu[c].pc \in PointerPcs /\ cpu \in [Cpus -> CpuState] /\ c \in Cpus
      /\ cpu[c] \in CpuRecord /\ stats \in [Elements -> IpStats]
    BY LimitFacts DEF ComputeRate, PointerPcs, LimitInv, TypeOK, StatsTypeOK
<1>1. /\ src \in Sources /\ cpu[c].s \in Elements
      /\ Entries(cpu[c], s, through[src], sent[src], pps, counters[c].rx)
      /\ Books("rate", cpu[c], s, through[src], sent[src], pps, counters[c].rx)
      /\ s \in IpStats /\ s.window_start <= cpu[c].now
    BY <1>0, PointerFacts
<1>2. cpu'[c] = [cpu[c] EXCEPT !.pc = "limit", !.rate = Rate(s, cpu[c].now)]
    BY <1>0 DEF ComputeRate
<1>3. stats' = [stats EXCEPT ![cpu[c].s] = s] /\ elem' = elem
    BY <1>0, <1>1 DEF ComputeRate
<1>4. /\ cpu'[c].pc = "limit" /\ cpu'[c].pc \in PointerPcs \cup {"limit"}
      /\ cpu'[c].rate = Rate(s, cpu[c].now)
      /\ cpu'[c].src = src /\ cpu'[c].now = cpu[c].now /\ cpu'[c].s = cpu[c].s
    BY <1>0, <1>2 DEF CpuRecord, PointerPcs
<1>5. Moves(c)
    BY <1>0, <1>4 DEF ComputeRate, Moves, maps
<1>6. cpu[c].now \in Times /\ counters[c].rx <= MaxRx
    BY <1>0, LimitFacts
<1> HIDE DEF s
<1>7. Books(cpu'[c].pc, cpu'[c], s, through[src], sent[src], pps, counters[c].rx)
    <2> HIDE DEF src
    <2> QED BY <1>1, <1>4, <1>6, BooksRate
<1> QED BY <1>0, <1>1, <1>3, <1>4, <1>5, <1>7, PointerAdvance

\* The first frame of a source gets an element of its own, as there is room.
LEMMA InsertAdvance ==
  ASSUME Cardinality(Sources) <= MaxIps,
         NEW c, Cpus = {c}, LimitInv(c), TypeOK', Meter, InsertStats(c)
  PROVE  LimitInv(c)'
<1> DEFINE src == cpu[c].src
           first == FirstStats(cpu[c].now, cpu[c].cls)
<1>0. /\ cpu[c].pc = "insert" /\ cpu \in [Cpus -> CpuState] /\ c \in Cpus
      /\ cpu[c] \in CpuRecord /\ stats \in [Elements -> IpStats]
      /\ elem \in [Sources -> Elements \cup {Absent}]
    BY LimitFacts DEF InsertStats, LimitInv, TypeOK, StatsTypeOK
<1>1. /\ src \in Sources /\ cpu[c].now \in Times /\ sent[src][cpu[c].now] > 0
      /\ elem[src] = Absent
    BY <1>0, LimitFacts DEF LimitInv, Owned
<1>2. LruFree(elem, Elements) # {}
    BY <1>1, RoomForSource DEF LimitInv
<1>3. PICK e \in LruFree(elem, Elements) :
        /\ elem' = [ip \in Sources |-> IF ip = src THEN e
                                       ELSE IF elem[ip] = e THEN Absent ELSE elem[ip]]
        /\ stats' = [stats EXCEPT ![e] = first]
    BY <1>2 DEF InsertStats, LruCandidates, LruAssign
<1>4. e \in Elements /\ e # Absent /\ \A ip \in Sources : elem[ip] # e
    <2>1. Absent \notin Elements
        BY ProgAssumption DEF Elements, Absent
    <2> QED BY <2>1 DEF LruFree
<1>5. elem'[src] = e /\ \A ip \in Sources \ {src} : elem'[ip] = elem[ip]
    BY <1>1, <1>3, <1>4
<1>6. stats'[e] = first /\ \A d \in Elements : d # e => stats'[d] = stats[d]
    BY <1>0, <1>3, <1>4
<1>7. cpu'[c] = [cpu[c] EXCEPT !.pc = "limit", !.rate = 1]
    BY <1>0 DEF InsertStats
<1>8. /\ cpu'[c].pc = "limit" /\ cpu'[c].rate = 1
      /\ cpu'[c].src = src /\ cpu'[c].now = cpu[c].now /\ cpu'[c].s = cpu[c].s
    BY <1>0, <1>7 DEF CpuRecord
<1>9. Moves(c)
    BY <1>0, <1>8 DEF InsertStats, Moves, maps
<1>10. Owned(c)'
    <2>1. \A ip, jp \in Sources : elem'[ip] # Absent /\ elem'[ip] = elem'[jp] => ip = jp
        BY <1>1, <1>4, <1>5 DEF LimitInv, Owned
    <2> QED BY <1>4, <1>5, <1>8, <2>1 DEF Owned, PointerPcs
<1>11. \A ip \in Sources \ {src} :
         elem'[ip] = elem[ip] /\ (elem[ip] # Absent => stats'[elem[ip]] = stats[elem[ip]])
    BY <1>0, <1>4, <1>5, <1>6
<1>12. /\ first.window_start = cpu[c].now /\ first.packets = 1 /\ first.prev_packets = 0
    BY DEF FirstStats
<1>13. /\ Entries(cpu'[c], first, through[src], sent[src], pps, counters[c].rx)
       /\ \A t \in Times : through[src][t] = 0
    <2>1. first \in IpStats
        BY <1>4, <1>6 DEF TypeOK, StatsTypeOK
    <2>2. cpu'[c] \in CpuRecord
        BY <1>0 DEF TypeOK, CpuState
    <2>3. through[src] \in [Times -> Nat] /\ sent[src] \in [Times -> Nat]
        BY <1>1 DEF LimitInv, MeterTypeOK
    <2>4. pps \in Nat /\ counters[c].rx \in Nat
        BY <1>0, LimitFacts
    <2>5. \A t \in Times : through[src][t] = 0
        BY <1>1 DEF LimitInv, BooksOK
    <2> QED BY <2>1, <2>2, <2>3, <2>4, <2>5 DEF Entries
<1>14. counters[c].rx > 0
    BY <1>0 DEF LimitInv, Stamped
<1> HIDE DEF first
<1>15. Books(cpu'[c].pc, cpu'[c], first, through[src], sent[src], pps, counters[c].rx)
    <2> DEFINE tf == through[src]
               sf == sent[src]
    <2> HIDE DEF tf, sf
    <2> QED BY <1>1, <1>8, <1>12, <1>13, <1>14, BooksInsert DEF tf, sf
<1>16. first.window_start <= cpu[c].now
    BY <1>1, <1>12, CtlAssumption DEF Times
<1> HIDE DEF src
<1> QED BY <1>4, <1>5, <1>6, <1>9, <1>10, <1>11, <1>15, <1>16, BooksAdvance DEF src

\* The frame in flight ends, dropped anywhere or passed by the limiter.
LEMMA ReturnKeeps ==
  ASSUME Unwrapped, NEW c, Cpus = {c}, LimitInv(c), TypeOK', Meter, NEW v, Return(c, v),
         clock' = clock, enabled' = enabled, pps' = pps, elem' = elem, stats' = stats,
         cpu[c].pc \in {"test", "range", "limit"},
         v \in {"XDP_DROP", "XDP_PASS"},
         v = "XDP_PASS" => cpu[c].pc = "limit" /\ ~OverLimit(cpu[c].rate)
  PROVE  LimitInv(c)'
<1> DEFINE src == cpu[c].src
           pass == v = "XDP_PASS"
<1>0. /\ c \in Cpus /\ cpu \in [Cpus -> CpuState] /\ cpu[c] \in CpuRecord
      /\ counters \in [Cpus -> [rx : Nat, dropped : Nat, passed : Nat]]
      /\ DOMAIN verdict = Cpus
    BY LimitFacts DEF LimitInv, TypeOK, VerdictTypeOK
<1>1. cpu'[c].pc = "idle" /\ counters'[c].rx = counters[c].rx /\ verdict'[c] = v
    BY <1>0 DEF Return, Idle, Counted
<1>2. /\ src \in Sources /\ cpu[c].now \in Times /\ cpu[c].now <= clock
      /\ clock \in Nat /\ cpu[c].now \in Nat
    BY <1>0, LimitFacts, CtlAssumption DEF LimitInv, Stamped, Times
<1>3. sent' = sent
    BY <1>1, MeterKeeps DEF Arrives, LimitInv
<1>4. /\ through' \in [Sources -> [Times -> Nat]]
      /\ \A ip \in Sources, t \in Times :
           through'[ip][t] = through[ip][t] + One(pass /\ src = ip /\ cpu[c].now = t)
    <2>1. Leaves(c, "XDP_PASS") <=> pass
        BY <1>1 DEF Leaves
    <2>2. /\ through' \in [Sources -> [Times -> Nat]]
          /\ \A ip \in Sources, t \in Times : through'[ip][t] = through[ip][t]
               + One(Leaves(c, "XDP_PASS") /\ cpu[c].src = ip /\ cpu[c].now = t)
        BY MeterIs DEF LimitInv
    <2> QED BY <2>1, <2>2 DEF One
<1>5. MeterTypeOK' /\ Stamped(c)'
    BY <1>1, <1>3, <1>4 DEF LimitInv, MeterTypeOK, Stamped
<1>6. Owned(c)'
    BY <1>1 DEF LimitInv, Owned, PointerPcs
<1>7. Aged(c)'
    <2> SUFFICES ASSUME NEW ip \in Sources, elem[ip] # Absent
                 PROVE  stats[elem[ip]].window_start <= clock
        BY <1>1 DEF Aged
    <2>1. stats[elem[ip]].window_start <= cpu[c].now
        BY DEF LimitInv, Aged
    <2>2. stats[elem[ip]].window_start \in Nat
        BY <1>0, LimitFacts, EntryFacts
    <2> QED BY <1>2, <2>1, <2>2
<1>8. ASSUME NEW ip \in Sources, ip # src \/ ~pass PROVE through'[ip] = through[ip]
    <2>1. through[ip] \in [Times -> Nat] /\ through'[ip] \in [Times -> Nat]
        BY <1>4 DEF LimitInv, MeterTypeOK
    <2>2. \A t \in Times : through'[ip][t] = through[ip][t]
        BY <1>4, <1>8, <2>1 DEF One
    <2> QED BY <2>1, <2>2
<1>9. ASSUME pass PROVE OneMore(through[src], through'[src], cpu[c].now)
    <2>1. through[src] \in [Times -> Nat] /\ through'[src] \in [Times -> Nat]
        BY <1>2, <1>4 DEF LimitInv, MeterTypeOK
    <2>2. \A t \in Times : through'[src][t] = through[src][t] + One(t = cpu[c].now)
        BY <1>2, <1>4, <1>9 DEF One
    <2> QED BY <1>2, <2>1, <2>2 DEF OneMore
<1>10. ASSUME NEW ip \in Sources PROVE BooksOK(c, ip)'
    <2>0. Phase(cpu[c], ip)' = "idle"
        BY <1>1 DEF Phase
    <2>1. elem[ip] = Absent => \A t \in Times : through'[ip][t] = 0
        <3>1. elem[ip] = Absent => \A t \in Times : through[ip][t] = 0
            BY DEF LimitInv, BooksOK
        <3>2. elem[ip] = Absent => ip # src \/ ~pass
            BY DEF LimitInv, Owned
        <3> QED BY <1>8, <3>1, <3>2
    <2>2. ASSUME elem[ip] # Absent
          PROVE  Books("idle", cpu'[c], stats[elem[ip]], through'[ip], sent[ip], pps,
                       counters[c].rx)
        <3> DEFINE s == stats[elem[ip]]
                   rx == counters[c].rx
        <3>1. /\ Entries(cpu[c], s, through[ip], sent[ip], pps, rx)
              /\ Books(Phase(cpu[c], ip), cpu[c], s, through[ip], sent[ip], pps, rx)
              /\ rx \in Nat
            BY <1>0, <2>2, LimitFacts
        <3> HIDE DEF s, rx
        <3>2. CASE ip # src
            <4>1. Phase(cpu[c], ip) = "idle"
                BY <3>2 DEF Phase
            <4> QED BY <1>8, <3>1, <3>2, <4>1, BooksOther DEF s, rx
        <3>3. CASE ip = src /\ ~pass
            <4>1. Phase(cpu[c], ip) = cpu[c].pc
                BY <3>3 DEF Phase
            <4>2. cpu[c].pc \notin {"reset", "clear", "start"} /\ "idle" \notin InCount
                  /\ "idle" \notin Uncounted
                BY DEF InCount, Uncounted
            <4>3. Books("idle", cpu[c], s, through[ip], sent[ip], pps, rx)
                BY <3>1, <4>1, <4>2, BooksMove
            <4>4. Books("idle", cpu'[c], s, through[ip], sent[ip], pps, rx)
                BY <3>1, <4>3, BooksOther
            <4> QED BY <1>8, <3>3, <4>4 DEF s, rx
        <3>4. CASE ip = src /\ pass
            <4>1. Phase(cpu[c], ip) = "limit" /\ ~(pps > 0 /\ cpu[c].rate > pps)
                BY <3>4 DEF Phase, OverLimit
            <4>2. OneMore(through[ip], through'[ip], cpu[c].now)
                BY <1>9, <3>4
            <4> DEFINE tf == through[ip]
                       tf2 == through'[ip]
                       r2 == cpu'[c]
            <4> HIDE DEF tf, tf2, r2
            <4>3. Books("idle", r2, s, tf2, sent[ip], pps, rx)
                BY <1>2, <3>1, <4>1, <4>2, BooksPass DEF tf, tf2
            <4> QED BY <4>3 DEF tf2, s, rx, r2
        <3> QED BY <3>2, <3>3, <3>4
    <2> QED BY <1>1, <1>3, <2>0, <2>1, <2>2 DEF BooksOK
<1> QED BY <1>5, <1>6, <1>7, <1>10 DEF LimitInv

\* A command, the clock, or a frame that reaches no rule: no register and no
\* statistics change.
LEMMA QuietKeeps ==
  ASSUME NEW c, Cpus = {c}, LimitInv(c), TypeOK', Meter,
         cpu' = cpu, elem' = elem, stats' = stats, clock <= clock', clock' <= MaxTime,
         counters[c].rx <= counters'[c].rx, counters'[c].rx <= MaxRx,
         cpu[c].pc = "idle" \/ counters'[c].rx = counters[c].rx
  PROVE  LimitInv(c)'
<1>0. /\ c \in Cpus /\ cpu[c] \in CpuRecord /\ clock \in Nat /\ clock' \in Nat
      /\ cpu[c].now \in Nat /\ counters[c].rx \in Nat /\ counters'[c].rx \in Nat
      /\ pps' \in Nat
    <2>1. cpu[c] \in CpuRecord /\ counters[c].rx \in Nat /\ clock \in Nat
        BY LimitFacts DEF Times
    <2>2. clock' \in Nat /\ counters'[c].rx \in Nat /\ pps' \in Nat
        BY DEF TypeOK, RulesTypeOK, VerdictTypeOK
    <2> QED BY <2>1, <2>2 DEF CpuRecord
<1>1. sent' = sent
    BY MeterKeeps DEF Arrives, LimitInv
<1>2. /\ through' \in [Sources -> [Times -> Nat]]
      /\ \/ pps' = pps /\ through' = through
         \/ \A ip \in Sources, t \in Times : through'[ip][t] = 0
    <2>1. CASE <<enabled, pps>>' = <<enabled, pps>>
        <3>1. ~Leaves(c, "XDP_PASS")
            BY DEF Leaves
        <3>2. pps' = pps
            BY <2>1
        <3> QED BY <2>1, <3>1, <3>2, MeterKeeps, MeterIs DEF LimitInv
    <2>2. CASE <<enabled, pps>>' # <<enabled, pps>>
        BY <2>2, MeterIs DEF LimitInv
    <2> QED BY <2>1, <2>2
<1>3. MeterTypeOK'
    BY <1>1, <1>2 DEF LimitInv, MeterTypeOK
<1>4. Stamped(c)'
    BY <1>0, <1>1 DEF LimitInv, Stamped
<1>5. Owned(c)'
    BY DEF LimitInv, Owned
<1>6. Aged(c)'
    <2> SUFFICES ASSUME NEW ip \in Sources, elem[ip] # Absent
                 PROVE  stats[elem[ip]].window_start <=
                          IF cpu[c].pc = "idle" THEN clock' ELSE cpu[c].now
        BY DEF Aged
    <2>1. stats[elem[ip]].window_start <= IF cpu[c].pc = "idle" THEN clock ELSE cpu[c].now
        BY DEF LimitInv, Aged
    <2>2. stats[elem[ip]].window_start \in Nat
        BY <1>0, LimitFacts, EntryFacts
    <2> QED BY <1>0, <2>1, <2>2
<1>7. ASSUME NEW ip \in Sources PROVE BooksOK(c, ip)'
    <2>1. elem[ip] = Absent => \A t \in Times : through'[ip][t] = 0
        BY <1>2 DEF LimitInv, BooksOK
    <2>2. ASSUME elem[ip] # Absent
          PROVE  Books(Phase(cpu[c], ip), cpu[c], stats[elem[ip]], through'[ip], sent[ip], pps',
                       counters'[c].rx)
        <3> DEFINE s == stats[elem[ip]]
                   ph == Phase(cpu[c], ip)
                   r == cpu[c]
                   tf == through[ip]
                   tf2 == through'[ip]
                   sf == sent[ip]
                   rx == counters[c].rx
                   rx2 == counters'[c].rx
        <3>1. Entries(r, s, tf, sf, pps, rx) /\ Books(ph, r, s, tf, sf, pps, rx)
            BY <1>0, <2>2, LimitFacts
        <3>2. Entries(r, s, tf, sf, pps, rx2) /\ Books(ph, r, s, tf, sf, pps, rx2)
            <4>1. CASE rx2 = rx
                BY <3>1, <4>1
            <4>2. CASE r.pc = "idle"
                <5>1. ph = "idle" /\ rx2 \in Nat /\ rx <= rx2
                    BY <1>0, <4>2 DEF Phase
                <5> HIDE DEF s, ph, r, tf, sf, rx, rx2
                <5>2. Books("idle", r, s, tf, sf, pps, rx2)
                    BY <3>1, <5>1, BooksOther
                <5> QED BY <3>1, <5>1, <5>2 DEF Entries
            <4> QED BY <4>1, <4>2
        <3>3. tf2 \in [Times -> Nat] /\ ((pps' = pps /\ tf2 = tf) \/ \A t \in Times : tf2[t] = 0)
            BY <1>2
        <3> HIDE DEF s, ph, r, tf, tf2, sf, rx, rx2
        <3>4. Books(ph, r, s, tf2, sf, pps', rx2)
            BY <1>0, <3>2, <3>3, BooksLimit
        <3> QED BY <3>4 DEF s, ph, r, tf2, sf, rx2
    <2>3. Phase(cpu[c], ip)' = Phase(cpu[c], ip)
        BY DEF Phase
    <2> QED BY <1>1, <2>1, <2>2, <2>3 DEF BooksOK
<1> QED BY <1>3, <1>4, <1>5, <1>6, <1>7 DEF LimitInv

\* An IPv4 frame arrives.
LEMMA ArrivalKeeps ==
  ASSUME NEW c, Cpus = {c}, LimitInv(c), TypeOK', Meter, NEW f \in Frames, ReceiveIpv4(c, f)
  PROVE  LimitInv(c)'
<1> DEFINE src == f.src
<1>0. /\ c \in Cpus /\ cpu \in [Cpus -> CpuState] /\ cpu[c] \in CpuRecord
      /\ counters \in [Cpus -> [rx : Nat, dropped : Nat, passed : Nat]]
      /\ cpu[c].pc = "idle" /\ clock' = clock /\ enabled' = enabled /\ pps' = pps
      /\ elem' = elem /\ stats' = stats /\ clock \in Times /\ counters[c].rx < MaxRx
    BY LimitFacts DEF LimitInv, TypeOK, VerdictTypeOK, ReceiveIpv4, maps
<1>1. /\ cpu'[c].pc = "block" /\ cpu'[c].src = src /\ cpu'[c].now = clock
      /\ cpu'[c] \in CpuRecord /\ src \in Sources
    <2>1. cpu'[c] = [pc |-> "block", src |-> f.src, cls |-> Classify(f), now |-> clock,
                     exp |-> Absent, s |-> Absent, tmp |-> 0, rate |-> 0]
        BY <1>0 DEF ReceiveIpv4
    <2>2. cpu'[c] \in CpuState
        BY <1>0 DEF TypeOK
    <2> QED BY <2>1, <2>2 DEF CpuState
<1>2. counters'[c].rx = counters[c].rx + 1 /\ counters[c].rx \in Nat /\ MaxRx \in Nat
    BY <1>0, ProgAssumption DEF ReceiveIpv4, Counted
<1>3. through' = through
    <2>1. ~Leaves(c, "XDP_PASS")
        BY <1>0 DEF Leaves
    <2> QED BY <1>0, <2>1, MeterKeeps DEF LimitInv
<1>4. /\ sent' \in [Sources -> [Times -> Nat]]
      /\ \A ip \in Sources, t \in Times :
           sent'[ip][t] = sent[ip][t] + One(src = ip /\ clock = t)
    <2>1. Arrives(c)
        BY <1>0, <1>1 DEF Arrives
    <2>2. /\ sent' \in [Sources -> [Times -> Nat]]
          /\ \A ip \in Sources, t \in Times : sent'[ip][t] = sent[ip][t]
               + One(Arrives(c) /\ cpu'[c].src = ip /\ cpu'[c].now = t)
        BY MeterIs DEF LimitInv
    <2> QED BY <1>1, <2>1, <2>2 DEF One
<1>5. ASSUME NEW ip \in Sources, ip # src PROVE sent'[ip] = sent[ip]
    <2>1. sent[ip] \in [Times -> Nat] /\ sent'[ip] \in [Times -> Nat]
        BY <1>4 DEF LimitInv, MeterTypeOK
    <2>2. \A t \in Times : sent'[ip][t] = sent[ip][t]
        BY <1>4, <1>5, <2>1 DEF One
    <2> QED BY <2>1, <2>2
<1>6. OneMore(sent[src], sent'[src], clock)
    <2>1. sent[src] \in [Times -> Nat] /\ sent'[src] \in [Times -> Nat]
        BY <1>1, <1>4 DEF LimitInv, MeterTypeOK
    <2>2. \A t \in Times : sent'[src][t] = sent[src][t] + One(t = clock)
        BY <1>1, <1>4 DEF One
    <2> QED BY <1>0, <2>1, <2>2 DEF OneMore
<1>7. MeterTypeOK'
    BY <1>0, <1>3, <1>4 DEF LimitInv, MeterTypeOK
<1>8. Stamped(c)'
    <2>1. sent[src][clock] \in Nat /\ sent'[src][clock] = sent[src][clock] + 1
        BY <1>0, <1>6 DEF OneMore, One
    <2>2. clock <= clock /\ counters'[c].rx <= MaxRx /\ counters'[c].rx > 0
        BY <1>0, <1>2, CtlAssumption DEF Times
    <2> QED BY <1>0, <1>1, <2>1, <2>2 DEF Stamped
<1>9. Owned(c)'
    BY <1>0, <1>1 DEF LimitInv, Owned, PointerPcs
<1>10. Aged(c)'
    BY <1>0, <1>1 DEF LimitInv, Aged
<1>11. ASSUME NEW ip \in Sources PROVE BooksOK(c, ip)'
    <2>1. elem[ip] = Absent => \A t \in Times : through[ip][t] = 0
        BY DEF LimitInv, BooksOK
    <2>2. ASSUME elem[ip] # Absent
          PROVE  Books(Phase(cpu'[c], ip), cpu'[c], stats[elem[ip]], through[ip], sent'[ip], pps,
                       counters[c].rx + 1)
        <3> DEFINE s == stats[elem[ip]]
                   r == cpu[c]
                   r2 == cpu'[c]
                   tf == through[ip]
                   sf == sent[ip]
                   sf2 == sent'[ip]
                   rx == counters[c].rx
        <3>0. Phase(cpu[c], ip) = "idle"
            BY <1>0 DEF Phase
        <3>1. Entries(r, s, tf, sf, pps, rx) /\ Books("idle", r, s, tf, sf, pps, rx)
            BY <1>0, <2>2, <3>0, LimitFacts
        <3>2. Entries(r2, s, tf, sf2, pps, rx + 1)
            BY <1>1, <1>2, <1>4, <3>1 DEF Entries
        <3>3. CASE ip = src
            <4>1. Phase(r2, ip) = "block" /\ OneMore(sf, sf2, r2.now)
                BY <1>1, <1>6, <3>3 DEF Phase
            <4> HIDE DEF s, r, r2, tf, sf, sf2, rx
            <4>2. Books("block", r2, s, tf, sf2, pps, rx + 1)
                BY <3>1, <3>2, <4>1, BooksArrive
            <4> QED BY <4>1, <4>2 DEF s, r2, tf, sf2, rx
        <3>4. CASE ip # src
            <4>1. Phase(r2, ip) = "idle" /\ sf2 = sf /\ rx <= rx + 1 /\ rx + 1 \in Nat
                BY <1>1, <1>2, <1>5, <3>4 DEF Phase
            <4> HIDE DEF s, r, r2, tf, sf, sf2, rx
            <4>2. Books("idle", r2, s, tf, sf, pps, rx + 1)
                BY <3>1, <4>1, BooksOther
            <4> QED BY <4>1, <4>2 DEF s, r2, tf, sf2, rx
        <3> QED BY <3>3, <3>4
    <2>3. Phase(cpu[c], ip)' = Phase(cpu'[c], ip)
        BY DEF Phase
    <2> QED BY <1>0, <1>2, <1>3, <2>1, <2>2, <2>3 DEF BooksOK
<1> QED BY <1>7, <1>8, <1>9, <1>10, <1>11 DEF LimitInv

\* Initially there are no books.
LEMMA LimitInit == ASSUME NEW c \in Cpus PROVE RInit => LimitInv(c)
<1> SUFFICES ASSUME RInit PROVE LimitInv(c)
    OBVIOUS
<1>1. TypeOK
    BY InitType DEF RInit
<1>2. /\ clock = 0 /\ cpu[c].pc = "idle" /\ counters[c].rx = 0
      /\ \A ip \in Sources : elem[ip] = Absent
    BY DEF RInit, Init, Idle
<1>3. /\ sent \in [Sources -> [Times -> Nat]] /\ through \in [Sources -> [Times -> Nat]]
      /\ \A ip \in Sources, t \in Times : through[ip][t] = 0
    BY DEF RInit, NoFrames
<1>4. MeterTypeOK
    BY <1>2, <1>3, CtlAssumption DEF MeterTypeOK
<1>5. Stamped(c) /\ Owned(c) /\ Aged(c)
    BY <1>2, ProgAssumption DEF Stamped, Owned, Aged, PointerPcs
<1>6. \A ip \in Sources : BooksOK(c, ip)
    BY <1>2, <1>3 DEF BooksOK
<1> QED BY <1>1, <1>4, <1>5, <1>6 DEF LimitInv

\* Each step keeps the books.
LEMMA LimitStep ==
  ASSUME Unwrapped, Cardinality(Sources) <= MaxIps,
         NEW c, Cpus = {c}, LimitInv(c), [RNext]_rvars
  PROVE  LimitInv(c)'
<1>0. /\ c \in Cpus /\ cpu \in [Cpus -> CpuState] /\ cpu[c] \in CpuRecord
      /\ counters[c].rx \in Nat /\ counters[c].rx <= MaxRx /\ clock \in Nat /\ clock <= MaxTime
      /\ counters \in [Cpus -> [rx : Nat, dropped : Nat, passed : Nat]]
      /\ MaxRx \in Nat /\ MaxTime \in Nat
    BY LimitFacts, ProgAssumption, CtlAssumption
       DEF LimitInv, TypeOK, VerdictTypeOK, RulesTypeOK, MeterTypeOK
<1>1. CASE UNCHANGED rvars
    BY <1>1 DEF rvars, vars, maps, LimitInv, TypeOK, RulesTypeOK, StatsTypeOK, VerdictTypeOK,
                MeterTypeOK, Stamped, Owned, Aged, BooksOK
<1> SUFFICES ASSUME RNext PROVE LimitInv(c)'
    BY <1>1
<1>2. TypeOK' /\ Meter /\ Next
    BY NextType DEF RNext, LimitInv
<1>3. CASE Tick \/ Command
    <2>1. /\ cpu' = cpu /\ elem' = elem /\ stats' = stats /\ counters' = counters
          /\ clock' = clock \/ (clock < MaxTime /\ clock' = clock + 1)
        BY <1>3 DEF Tick, Command, cmd_block, cmd_unblock, cmd_range, cmd_unrange,
                    Ratelimit, SetEnabled, dataPlane
    <2>2. clock <= clock' /\ clock' <= MaxTime
        BY <1>0, <2>1
    <2>3. counters[c].rx <= counters'[c].rx /\ counters'[c].rx <= MaxRx
        BY <1>0, <2>1
    <2> QED BY <1>2, <2>1, <2>2, <2>3, QuietKeeps
<1>4. CASE Receive(c)
    <2>1. PICK f \in Frames : ReceiveRunt(c, f) \/ ReceiveUnruled(c, f) \/ ReceiveIpv4(c, f)
        BY <1>4 DEF Receive
    <2>2. CASE ReceiveIpv4(c, f)
        BY <1>2, <2>2, ArrivalKeeps
    <2>3. CASE ReceiveRunt(c, f) \/ ReceiveUnruled(c, f)
        <3>1. /\ cpu' = cpu /\ elem' = elem /\ stats' = stats /\ clock' = clock
              /\ cpu[c].pc = "idle"
            BY <2>3 DEF ReceiveRunt, ReceiveUnruled
        <3>2. \/ counters' = counters
              \/ counters[c].rx < MaxRx /\ \E v : counters' = Counted(c, 1, v)
            BY <2>3 DEF ReceiveRunt, ReceiveUnruled
        <3>3. counters[c].rx <= counters'[c].rx /\ counters'[c].rx <= MaxRx
            BY <1>0, <3>2 DEF Counted
        <3>4. clock <= clock' /\ clock' <= MaxTime
            BY <1>0, <3>1
        <3> QED BY <1>2, <3>1, <3>3, <3>4, QuietKeeps
    <2> QED BY <2>1, <2>2, <2>3
<1>13. CASE LookupBlock(c)
    <2>1. /\ cpu'[c].pc \in {"test", "range"} /\ cpu[c].pc = "block"
          /\ cpu'[c].src = cpu[c].src /\ cpu'[c].now = cpu[c].now
        BY <1>0, <1>13 DEF LookupBlock, CpuRecord
    <2>2. Moves(c) /\ elem' = elem /\ stats' = stats
        BY <1>13, <2>1 DEF Moves, LookupBlock, maps
    <2> QED BY <1>2, <2>1, <2>2, RulesAdvance
<1>5. CASE TestBlock(c) \/ LookupRange(c)
    <2>1. /\ clock' = clock /\ enabled' = enabled /\ pps' = pps /\ elem' = elem
          /\ stats' = stats /\ cpu[c].pc \in {"test", "range"}
        BY <1>5 DEF TestBlock, LookupRange, maps
    <2>2. CASE Return(c, "XDP_DROP")
        BY <1>2, <2>1, <2>2, ReturnKeeps
    <2>3. CASE /\ \/ cpu' = [cpu EXCEPT ![c].exp = Absent, ![c].pc = "expire"]
                  \/ cpu' = [cpu EXCEPT ![c].pc = "stats"]
               /\ counters' = counters
        <3>1. /\ cpu'[c].pc \in {"expire", "stats"}
              /\ cpu'[c].src = cpu[c].src /\ cpu'[c].now = cpu[c].now
            BY <1>0, <2>3 DEF CpuRecord
        <3>2. Moves(c)
            BY <2>1, <2>3, <3>1 DEF Moves
        <3> QED BY <1>2, <2>1, <3>1, <3>2, RulesAdvance
    <2> QED BY <1>5, <2>2, <2>3 DEF TestBlock, LookupRange
<1>6. CASE DeleteExpired(c)
    <2>1. /\ cpu'[c].pc = "range" /\ cpu[c].pc = "expire"
          /\ cpu'[c].src = cpu[c].src /\ cpu'[c].now = cpu[c].now
        BY <1>0, <1>6 DEF DeleteExpired, CpuRecord
    <2>2. Moves(c) /\ elem' = elem /\ stats' = stats
        BY <1>6, <2>1 DEF Moves, DeleteExpired
    <2> QED BY <1>2, <2>1, <2>2, RulesAdvance
<1>7. CASE LookupStats(c)
    <2>1. /\ cpu[c].pc = "stats" /\ cpu'[c].s = elem[cpu[c].src]
          /\ cpu'[c].pc = IF elem[cpu[c].src] = Absent THEN "insert" ELSE "roll"
          /\ cpu'[c].src = cpu[c].src /\ cpu'[c].now = cpu[c].now
        BY <1>0, <1>7 DEF LookupStats, CpuRecord
    <2>2. Moves(c) /\ elem' = elem /\ stats' = stats
        BY <1>7, <2>1 DEF Moves, LookupStats, maps
    <2> QED BY <1>2, <2>1, <2>2, RulesAdvance
<1>8. CASE InsertStats(c)
    BY <1>2, <1>8, InsertAdvance
<1>9. CASE CheckWindow(c)
    BY <1>2, <1>9, CheckAdvance
<1>10. CASE ShiftWindow(c) \/ ResetWindow(c) \/ ClearClasses(c) \/ StartWindow(c)
    BY <1>2, <1>10, ShiftAdvance, ResetAdvance, ClearAdvance, StartAdvance
<1>11. CASE StorePackets(c) \/ StoreL4(c) \/ ComputeRate(c)
    BY <1>2, <1>11, CountAdvance, L4Advance, RateAdvance
<1>12. CASE Limit(c)
    <2>1. /\ clock' = clock /\ enabled' = enabled /\ pps' = pps /\ elem' = elem
          /\ stats' = stats /\ cpu[c].pc = "limit"
        BY <1>12 DEF Limit, maps
    <2>2. PICK v \in {"XDP_DROP", "XDP_PASS"} :
            Return(c, v) /\ (v = "XDP_PASS" => ~OverLimit(cpu[c].rate))
        BY <1>12 DEF Limit
    <2> QED BY <1>2, <2>1, <2>2, ReturnKeeps
<1> QED BY <1>2, <1>3, <1>4, <1>5, <1>6, <1>7, <1>8, <1>9, <1>10, <1>11, <1>12, <1>13
        DEF Next, fw_prog, Run

\* A frame leaves the limiter by the step that compares the rate.
LEMMA LimitReturns ==
  ASSUME NEW c, Cpus = {c}, LimitInv(c), RNext, NEW v, Leaves(c, v),
         v = "XDP_PASS" \/ cpu[c].pc = "limit"
  PROVE  Limit(c) /\ v = (IF OverLimit(cpu[c].rate) THEN "XDP_DROP" ELSE "XDP_PASS")
<1>0. TypeOK /\ [Next]_vars /\ c \in Cpus
    BY DEF LimitInv, RNext
<1>1. Returns(c, v)
    BY DEF Returns, Busy, Leaves
<1>2. cpu[c].pc = "limit" /\ v = (IF OverLimit(cpu[c].rate) THEN "XDP_DROP" ELSE "XDP_PASS")
    BY <1>0, <1>1, ReturnStep
<1>3. fw_prog(c)
    BY <1>0, <1>1, ControlKeepsCpus DEF Next, Returns, Busy, RNext
<1> QED BY <1>2, <1>3 DEF fw_prog, Run, Receive, ReceiveRunt, ReceiveUnruled, ReceiveIpv4,
        LookupBlock, TestBlock, DeleteExpired, LookupRange, LookupStats, InsertStats,
        CheckWindow, ShiftWindow, ResetWindow, ClearClasses, StartWindow, StorePackets,
        StoreL4, ComputeRate

\* The arithmetic of the quota: n frames passed, at most A of them before the
\* window of prev and packets began, when the weighted number of frames is
\* still within p.
LEMMA QuotaArithmetic ==
  ASSUME NEW F \in Nat \ {0}, NEW j \in 0..(F - 1), NEW p \in Nat, NEW n \in Nat,
         NEW A \in Nat, NEW prev \in Nat, NEW packets \in Nat,
         n <= A + packets, A <= prev, A <= p,
         prev * (F - j) + packets * F < F * p + F
  PROVE  F * n <= F * p + F - 1 + p * j
<1> DEFINE k == F - j
<1>1. k \in Nat /\ j \in Nat /\ F = k + j
    OBVIOUS
<1>2. F * n <= F * (A + packets)
    BY MulMono
<1> HIDE DEF k
<1>3. F * (A + packets) = A * k + A * j + packets * F
    BY <1>1
<1>4. A * k <= prev * k /\ A * j <= p * j
    BY <1>1, MulMono
<1>5. /\ A * k \in Nat /\ A * j \in Nat /\ packets * F \in Nat /\ prev * k \in Nat
      /\ p * j \in Nat /\ F * p \in Nat /\ F * n \in Nat
    BY <1>1, MulNat
<1>6. prev * k + packets * F < F * p + F
    BY DEF k
<1> QED BY <1>2, <1>3, <1>4, <1>5, <1>6

\* What a frame finds in the books when it passes.
LEMMA QuotaStep ==
  ASSUME Unwrapped, NEW c, Cpus = {c}, LimitInv(c), LimitInv(c)', RNext,
         Leaves(c, "XDP_PASS"), pps > 0
  PROVE  FRAC * Within(through'[cpu[c].src], cpu[c].now - WINDOW_NS, cpu[c].now)
           <= FRAC * pps + FRAC - 1 + pps * Slot(stats[elem[cpu[c].src]], cpu[c].now)
<1> DEFINE ip == cpu[c].src
           t  == cpu[c].now
           s  == stats[elem[ip]]
           n  == Within(through'[ip], t - WINDOW_NS, t)
<1>1. cpu[c].pc = "limit" /\ ~OverLimit(cpu[c].rate) /\ pps' = pps /\ enabled' = enabled
      /\ elem' = elem /\ stats' = stats
    BY LimitReturns DEF Limit, maps
<1>2. /\ ip \in Sources /\ t \in Times /\ elem[ip] # Absent /\ c \in Cpus
      /\ Entries(cpu[c], s, through[ip], sent[ip], pps, counters[c].rx)
      /\ Books("limit", cpu[c], s, through[ip], sent[ip], pps, counters[c].rx)
    <2>1. ip \in Sources /\ t \in Times /\ elem[ip] # Absent
        BY <1>1, LimitFacts DEF LimitInv, Owned
    <2>2. Phase(cpu[c], ip) = "limit"
        BY <1>1 DEF Phase
    <2> QED BY <2>1, <2>2, LimitFacts
<1>3. Books("idle", cpu'[c], s, through'[ip], sent'[ip], pps, counters'[c].rx)
      /\ Entries(cpu'[c], s, through'[ip], sent'[ip], pps, counters'[c].rx)
    <2>1. cpu'[c].pc = "idle"
        BY DEF Leaves
    <2>2. Phase(cpu'[c], ip) = "idle"
        BY <2>1 DEF Phase
    <2>3. Phase(cpu[c], ip)' = Phase(cpu'[c], ip')
        BY DEF Phase
    <2>4. \A x \in Sources : elem'[x] # Absent =>
            /\ Entries(cpu'[c], stats'[elem'[x]], through'[x], sent'[x], pps', counters'[c].rx)
            /\ Books(Phase(cpu'[c], x), cpu'[c], stats'[elem'[x]], through'[x], sent'[x],
                     pps', counters'[c].rx)
        <3>1. MeterTypeOK' /\ TypeOK' /\ \A x \in Sources : BooksOK(c, x)'
            BY DEF LimitInv
        <3>2. ASSUME NEW x \in Sources, elem'[x] # Absent
              PROVE  Entries(cpu'[c], stats'[elem'[x]], through'[x], sent'[x], pps',
                             counters'[c].rx)
            <4>1. elem'[x] \in Elements /\ stats'[elem'[x]] \in IpStats
                BY <3>1, <3>2 DEF TypeOK, StatsTypeOK
            <4>2. cpu'[c] \in CpuRecord /\ pps' \in Nat /\ counters'[c].rx \in Nat
                BY <3>1 DEF TypeOK, CpuState, RulesTypeOK, VerdictTypeOK
            <4>3. through'[x] \in [Times -> Nat] /\ sent'[x] \in [Times -> Nat]
                BY <3>1 DEF MeterTypeOK
            <4> QED BY <4>1, <4>2, <4>3 DEF Entries
        <3>3. ASSUME NEW x \in Sources, elem'[x] # Absent
              PROVE  Books(Phase(cpu'[c], x), cpu'[c], stats'[elem'[x]], through'[x],
                           sent'[x], pps', counters'[c].rx)
            <4>1. Phase(cpu[c], x)' = Phase(cpu'[c], x)
                BY DEF Phase
            <4> QED BY <3>1, <3>3, <4>1 DEF BooksOK
        <3> QED BY <3>2, <3>3
    <2> QED BY <1>1, <1>2, <2>2, <2>4
<1> DEFINE tf == through[ip]
           tf2 == through'[ip]
           w == s.window_start
           A == Stretch(tf2, w - WINDOW_NS)
           j == Slot(s, t)
<1>4. s \in IpStats /\ Inside(s, t) /\ tf2 \in [Times -> Nat]
    BY <1>2, <1>3 DEF Books, FrameOK, Entries
<1>5. j = (t - w) \div FRAC_STEP /\ j \in 0..(FRAC - 1)
    BY <1>2, <1>4, SlotIs
<1>6. /\ w \in Nat /\ WINDOW_NS \in Nat /\ t \in Nat /\ MaxTime \in Nat /\ t <= MaxTime
      /\ s.packets \in Nat /\ s.prev_packets \in Nat /\ pps \in Nat /\ cpu[c].rate \in Nat
      /\ w <= t /\ t < w + WINDOW_NS
      /\ A \in Nat /\ Since(tf2, w) \in Nat
    <2>1. /\ w \in Nat /\ WINDOW_NS \in Nat /\ t \in Nat /\ MaxTime \in Nat
          /\ s.packets \in Nat /\ s.prev_packets \in Nat /\ pps \in Nat
          /\ cpu[c].rate \in Nat
        BY <1>2, EntryFacts
    <2>2. A \in Nat /\ Since(tf2, w) \in Nat
        BY <1>3, EntryFacts
    <2> QED BY <1>2, <1>4, <2>1, <2>2 DEF Inside, Times
<1>7. Since(tf2, w) <= s.packets /\ A <= s.prev_packets /\ A <= pps
    <2>1. Since(tf2, w) + 0 <= s.packets /\ A <= s.prev_packets /\ A <= pps
        BY <1>3 DEF Books, PassedOK, One, InCount
    <2> QED BY <1>6, <2>1
<1>8. n \in Nat /\ n <= A + s.packets
    <2> DEFINE a == t - WINDOW_NS
               m == w - 1
    <2>1. a \in Int /\ m \in Int /\ t \in Int /\ MaxTime \in Int /\ a <= m /\ m <= t
        BY <1>6
    <2>2. n = Within(tf2, a, m) + Within(tf2, m, t)
        <3> HIDE DEF a, m, t, tf2
        <3>1. Within(tf2, a, t) = Within(tf2, a, m) + Within(tf2, m, t)
            BY <1>4, <2>1, WithinSplit
        <3> QED BY <3>1 DEF a, tf2
    <2>3. Within(tf2, m, t) <= Since(tf2, w) /\ Within(tf2, m, t) \in Nat
        <3>1. \A x \in Times : m < x /\ x <= t => m < x /\ x <= MaxTime
            BY <1>6, CtlAssumption DEF Times
        <3> HIDE DEF t, tf2, m
        <3>2. Within(tf2, m, t) <= Within(tf2, m, MaxTime) /\ Within(tf2, m, t) \in Nat
            BY <1>4, <2>1, <3>1, WithinPart, WithinNat
        <3> QED BY <3>2 DEF Since, m
    <2>4. Within(tf2, a, m) <= A /\ Within(tf2, a, m) \in Nat
        <3> DEFINE x0 == w - WINDOW_NS - 1
                   y0 == w - WINDOW_NS - 1 + WINDOW_NS
        <3>1. x0 \in Int /\ y0 \in Int /\ x0 < a /\ m = y0
            BY <1>6
        <3>2. \A x \in Times : a < x /\ x <= m => x0 < x /\ x <= y0
            <4>1. \A x \in Times : x \in Int
                BY CtlAssumption DEF Times
            <4> HIDE DEF x0, y0, a, m
            <4> QED BY <2>1, <3>1, <4>1
        <3> HIDE DEF t, tf2, m, a, x0, y0
        <3>3. Within(tf2, a, m) <= Within(tf2, x0, y0) /\ Within(tf2, a, m) \in Nat
            BY <1>4, <2>1, <3>1, <3>2, WithinPart, WithinNat
        <3> QED BY <3>3 DEF A, Stretch, x0, y0
    <2> HIDE DEF n, A, tf2, m, a
    <2> QED BY <1>6, <1>7, <2>2, <2>3, <2>4
<1>9. s.prev_packets * (FRAC - j) + s.packets * FRAC < FRAC * pps + FRAC
    <2>1. Weighted(s, t) < FRAC * cpu[c].rate + FRAC
        BY <1>2 DEF Books, FrameOK
    <2>2. FRAC * cpu[c].rate <= FRAC * pps
        <3>1. cpu[c].rate <= pps
            BY <1>1, <1>6 DEF OverLimit
        <3> QED BY <1>6, <3>1, ProgAssumption, MulMono
    <2>3. FRAC * cpu[c].rate \in Nat /\ FRAC * pps \in Nat /\ FRAC \in Nat
          /\ Weighted(s, t) \in Nat
        BY <1>2, <1>4, <1>6, ProgAssumption, MulNat, WeightedBounds
    <2>4. Weighted(s, t) = s.prev_packets * (FRAC - j) + s.packets * FRAC
        BY <1>5 DEF Weighted
    <2>5. Weighted(s, t) < FRAC * pps + FRAC
        BY <2>1, <2>2, <2>3
    <2> QED BY <2>4, <2>5
<1>10. FRAC \in Nat \ {0}
    BY ProgAssumption
<1> HIDE DEF n, A, j, s
<1>11. FRAC * n <= FRAC * pps + FRAC - 1 + pps * j
    BY <1>5, <1>6, <1>7, <1>8, <1>9, <1>10, QuotaArithmetic
<1> QED BY <1>11 DEF j, n, s

\* The quota, for the CPU d that handles the frames.
LEMMA QuotaKeptBy ==
  ASSUME NEW CONSTANT d, Cpus = {d}, Cardinality(Sources) <= MaxIps, Unwrapped
  PROVE  RSpec => SlidingQuota
<1> DEFINE Step ==
      \A c \in Cpus :
        Leaves(c, "XDP_PASS") /\ enabled /\ pps > 0 =>
          FRAC * Within(through'[cpu[c].src], cpu[c].now - WINDOW_NS, cpu[c].now)
            <= FRAC * pps + FRAC - 1 + pps * Slot(stats[elem[cpu[c].src]], cpu[c].now)
<1>1. LimitInv(d) /\ LimitInv(d)' /\ [RNext]_rvars => [Step]_rvars
    BY QuotaStep
<1>2. RInit => LimitInv(d)
    BY LimitInit
<1>3. LimitInv(d) /\ [RNext]_rvars => LimitInv(d)'
    BY LimitStep
<1> QED BY <1>1, <1>2, <1>3, PTL DEF RSpec, SlidingQuota

\* When a frame stamped t passes in slot j of its window, at most
\* limit * (1 + j/FRAC) frames of its source, rounded up, have passed in the
\* window's length that ends at t: for any limit, window, slots and traffic,
\* when one CPU handles the frames, fw_ip_stats has room for every source and
\* nothing wraps.
THEOREM QuotaKept ==
  ASSUME \E d : Cpus = {d}, Cardinality(Sources) <= MaxIps, Unwrapped
  PROVE  RSpec => SlidingQuota
  BY QuotaKeptBy

\* What a frame finds in the books when the limiter drops it.
LEMMA DropStep ==
  ASSUME Unwrapped, NEW c, Cpus = {c}, LimitInv(c), RNext, cpu[c].pc = "limit",
         Leaves(c, "XDP_DROP")
  PROVE  \E t \in Times : 2 * Within(sent[cpu[c].src], t - WINDOW_NS, t) > pps
<1> DEFINE ip == cpu[c].src
<1>1. pps > 0 /\ cpu[c].rate > pps
    <2>1. OverLimit(cpu[c].rate)
        BY LimitReturns
    <2> QED BY <2>1 DEF OverLimit
<1> DEFINE s == stats[elem[ip]]
           sf == sent[ip]
           now == cpu[c].now
<1>2. /\ ip \in Sources /\ now \in Times /\ c \in Cpus
      /\ Entries(cpu[c], s, through[ip], sf, pps, counters[c].rx)
      /\ Books("limit", cpu[c], s, through[ip], sf, pps, counters[c].rx)
    <2>1. ip \in Sources /\ now \in Times /\ elem[ip] # Absent
        BY LimitFacts DEF LimitInv, Owned
    <2>2. Phase(cpu[c], ip) = "limit"
        BY DEF Phase
    <2> QED BY <2>1, <2>2, LimitFacts
<1>3. /\ s \in IpStats /\ Inside(s, now) /\ sf \in [Times -> Nat]
      /\ s.packets \in Nat /\ s.prev_packets \in Nat /\ pps \in Nat /\ cpu[c].rate \in Nat
      /\ s.window_start \in Nat /\ WINDOW_NS \in Nat /\ MaxTime \in Nat /\ now \in Nat
    BY <1>2, EntryFacts DEF Books, FrameOK, Entries
<1>4. cpu[c].rate <= s.prev_packets + s.packets
    <2>1. /\ FRAC * cpu[c].rate <= Weighted(s, now) /\ Weighted(s, now) \in Nat
          /\ Weighted(s, now) <= FRAC * (s.prev_packets + s.packets)
        BY <1>2, <1>3, WeightedBounds DEF Books, FrameOK
    <2> DEFINE b == s.prev_packets + s.packets
    <2>2. b \in Nat /\ FRAC \in Nat \ {0}
        BY <1>3, ProgAssumption
    <2> HIDE DEF b
    <2>3. FRAC * cpu[c].rate \in Nat /\ FRAC * b \in Nat
        BY <1>3, <2>2, MulNat
    <2>4. FRAC * cpu[c].rate < FRAC * b + FRAC
        BY <2>1, <2>2, <2>3 DEF b
    <2>5. cpu[c].rate <= b
        BY <1>3, <2>2, <2>4, Cancel
    <2> QED BY <2>5 DEF b
<1>5. \E t \in Times : s.prev_packets <= Within(sf, t - WINDOW_NS, t)
    BY <1>2 DEF Books, SentOK
<1>6. \E t \in Times : s.packets <= Within(sf, t - WINDOW_NS, t)
    <2> DEFINE a == s.window_start - 1
               b == s.window_start - 1 + WINDOW_NS
               t == IF b <= MaxTime THEN b ELSE MaxTime
               d == t - WINDOW_NS
    <2>0. s.window_start <= now /\ now <= MaxTime /\ WINDOW_NS > 0
        BY <1>2, <1>3, WindowNat DEF Inside, Times
    <2>1. a \in Int /\ b \in Int /\ t \in Times /\ d \in Int /\ t \in Int /\ d <= a
        BY <1>3, <2>0 DEF Times
    <2>2. s.packets + 0 <= Within(sf, a, b)
        BY <1>2 DEF Books, SentOK, One, Uncounted, Stretch
    <2>3. \A x \in Times : a < x /\ x <= b => d < x /\ x <= t
        <3>1. \A x \in Times : x \in Int /\ x <= MaxTime
            BY CtlAssumption DEF Times
        <3>2. t = b \/ t = MaxTime
            OBVIOUS
        <3> HIDE DEF a, b, d, t
        <3> QED BY <2>1, <3>1, <3>2
    <2>4. /\ Within(sf, a, b) <= Within(sf, d, t)
          /\ Within(sf, a, b) \in Nat /\ Within(sf, d, t) \in Nat
        <3> HIDE DEF a, b, d, t, sf
        <3> QED BY <1>3, <2>1, <2>3, WithinPart, WithinNat
    <2>5. s.packets <= Within(sf, d, t)
        <3> HIDE DEF a, b, d, t, sf
        <3> QED BY <1>3, <2>2, <2>4
    <2> HIDE DEF t
    <2> QED BY <2>1, <2>5 DEF d
<1>7. PICK x \in {s.prev_packets, s.packets} : 2 * x > pps
    BY <1>1, <1>3, <1>4
<1>8. PICK t \in Times : x <= Within(sf, t - WINDOW_NS, t)
    BY <1>5, <1>6
<1>9. Within(sf, t - WINDOW_NS, t) \in Nat
    <2>1. t \in Int /\ t - WINDOW_NS \in Int
        BY <1>3, CtlAssumption DEF Times
    <2> QED BY <1>3, <2>1, WithinNat
<1>10. 2 * Within(sf, t - WINDOW_NS, t) > pps
    BY <1>3, <1>7, <1>8, <1>9
<1> QED BY <1>10

\* The half, for the CPU d that handles the frames.
LEMMA HalfIsSafeBy ==
  ASSUME NEW CONSTANT d, Cpus = {d}, Cardinality(Sources) <= MaxIps, Unwrapped
  PROVE  RSpec => CompliantNeverDropped
<1> DEFINE Step ==
      \A c \in Cpus :
        cpu[c].pc = "limit" /\ Leaves(c, "XDP_DROP") =>
          \E t \in Times : 2 * Within(sent[cpu[c].src], t - WINDOW_NS, t) > pps
<1>1. LimitInv(d) /\ [RNext]_rvars => [Step]_rvars
    BY DropStep
<1>2. RInit => LimitInv(d)
    BY LimitInit
<1>3. LimitInv(d) /\ [RNext]_rvars => LimitInv(d)'
    BY LimitStep
<1> QED BY <1>1, <1>2, <1>3, PTL DEF RSpec, CompliantNeverDropped

\* A source that never sends more than half the limit in a window's length
\* loses no frame to the limiter, wherever the windows begin and however long
\* it was silent in between; under the same hypotheses.
THEOREM HalfIsSafe ==
  ASSUME \E d : Cpus = {d}, Cardinality(Sources) <= MaxIps, Unwrapped
  PROVE  RSpec => CompliantNeverDropped
  BY HalfIsSafeBy
=============================================================================
