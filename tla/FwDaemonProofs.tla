--------------------------- MODULE FwDaemonProofs ---------------------------
(***************************************************************************)
(* Proofs about the life of `falconwall start`, for any number of          *)
(* invocations one after the other, each of which may be killed anywhere.  *)
(***************************************************************************)
EXTENDS FwDaemon, TLAPS

-----------------------------------------------------------------------------
(* The inductive invariant.                                                *)

\* Without overlap no two daemons are alive.
OneAlive == \A d, e \in Daemons : Alive(d) /\ Alive(e) => d = e

\* Between its attach and its detach the hook is the daemon's, in the mode it
\* will name in the detach.
HookIsMine ==
  \A d \in Daemons : pc[d] \in {"unpin", "pin", "enable", "announced", "loop"} =>
    hook = [owner |-> d, mode |-> flags[d]]

\* Each loop over MAP_NAMES begins with the first.
LoopsBeginAtFirst ==
  \A d \in Daemons : pc[d] \in {"off", "attach", "enable", "announced", "loop"} => at[d] = 1

\* The maps that the pinning loop has passed are the daemon's or unpinned,
\* and the one it has just unlinked is unpinned.
PinnedSoFar ==
  \A d \in Daemons :
    /\ pc[d] \in {"unpin", "pin"} =>
         \A j \in 1..N_MAPS : j < at[d] => pin[MAP_NAMES[j]] \in {d, None}
    /\ pc[d] = "pin" => pin[Map(d)] = None
    /\ pc[d] \in {"enable", "announced", "loop"} =>
         \A j \in 1..N_MAPS : pin[MAP_NAMES[j]] \in {d, None}

\* What set_config wrote can be read through the pin.
ConfigWritten ==
  \A d \in Daemons : pc[d] \in {"announced", "loop"} /\ pin["fw_config"] = d =>
    config[d] # "unset"

\* Once detached, the hook is free, and so are the pins passed by the loop.
ReleasedSoFar ==
  \A d \in Daemons : pc[d] = "unlink" =>
    /\ hook = NoHook
    /\ \A j \in 1..N_MAPS : j < at[d] => pin[MAP_NAMES[j]] = None

DaemonInv ==
  /\ TypeOK /\ OneAlive /\ HookIsMine /\ LoopsBeginAtFirst
  /\ PinnedSoFar /\ ConfigWritten /\ ReleasedSoFar

-----------------------------------------------------------------------------
(* Type correctness.                                                       *)

\* There are five maps, and the configuration is the fourth.
LEMMA MapNames ==
  /\ N_MAPS = 5
  /\ \A i \in 1..N_MAPS : MAP_NAMES[i] \in Maps
  /\ \A m \in Maps : \E i \in 1..N_MAPS : m = MAP_NAMES[i]
  /\ {"fw_config", "fw_ip_stats", "fw_blocklist"} \subseteq Maps
  /\ MAP_NAMES[4] = "fw_config"
<1>1. N_MAPS = 5
    BY DEF N_MAPS, MAP_NAMES
<1>2. MAP_NAMES[1] = "fw_blocklist" /\ MAP_NAMES[3] = "fw_ip_stats" /\ MAP_NAMES[4] = "fw_config"
    BY DEF MAP_NAMES
<1> QED BY <1>1, <1>2 DEF Maps

\* Every step of the program, of the processes beside it and of the signals
\* preserves the types; the index of a loop stays inside MAP_NAMES.
LEMMA TypeStep == TypeOK /\ [Next]_vars => TypeOK'
<1> USE MapNames, DaemonAssumption
<1> SUFFICES ASSUME TypeOK, [Next]_vars PROVE TypeOK'
    OBVIOUS
<1>1. ASSUME NEW d \in Daemons, Load(d) PROVE TypeOK'
    BY <1>1 DEF TypeOK, Load, Goto, Ended
<1>2. ASSUME NEW d \in Daemons, Attach(d) PROVE TypeOK'
    BY <1>2 DEF TypeOK, Attach, Goto, Ended, Accepted
<1>3. ASSUME NEW d \in Daemons, Unpin(d) PROVE TypeOK'
    BY <1>3 DEF TypeOK, Unpin, Goto, Ended, Unlinked, Map
<1>4. ASSUME NEW d \in Daemons, Pin(d) PROVE TypeOK'
    BY <1>4 DEF TypeOK, Pin, Goto, Ended, NextIndex, Map
<1>5. ASSUME NEW d \in Daemons, Enable(d) PROVE TypeOK'
    BY <1>5 DEF TypeOK, Enable, Goto, Ended, set_config
<1>6. ASSUME NEW d \in Daemons, InstallHandlers(d) PROVE TypeOK'
    BY <1>6 DEF TypeOK, InstallHandlers, Goto, Ended
<1>7. ASSUME NEW d \in Daemons, Detach(d) PROVE TypeOK'
    BY <1>7 DEF TypeOK, Detach, Goto, Ended, Released, NoHook
<1>8. ASSUME NEW d \in Daemons, Unlink(d) PROVE TypeOK'
    BY <1>8 DEF TypeOK, Unlink, Goto, Ended, Unlinked, NextIndex, Map
<1>9. ASSUME NEW d \in Daemons, Interrupt(d) PROVE TypeOK'
    BY <1>9 DEF TypeOK, Interrupt, Goto, Ended
<1>10. ASSUME NEW d \in Daemons, Kill(d) PROVE TypeOK'
    BY <1>10 DEF TypeOK, Kill, Goto, Ended
<1>11. ASSUME NEW v \in {"on", "off"}, Toggle(v) PROVE TypeOK'
    BY <1>11 DEF TypeOK, Toggle, set_config
<1>12. CASE OpenStats \/ OpenBlock \/ CloseWatch
    BY <1>12 DEF TypeOK, OpenStats, OpenBlock, CloseWatch
<1>13. CASE UNCHANGED vars
    BY <1>13 DEF TypeOK, vars
<1> QED BY <1>1, <1>2, <1>3, <1>4, <1>5, <1>6, <1>7, <1>8, <1>9, <1>10, <1>11, <1>12, <1>13
        DEF Next, cmd_start, Command

\* Every variable of the daemons, the hook, the pins and `watch` keeps its
\* type, and the loops over MAP_NAMES never leave the array, with and without
\* overlapping daemons.
THEOREM DaemonTypes == Spec => []TypeOK
<1>1. Init => TypeOK
    BY MapNames, DaemonAssumption DEF Init, TypeOK, NoHook, Ended
<1> QED BY <1>1, TypeStep, PTL DEF Spec

-----------------------------------------------------------------------------
(* What a daemon that is alone leaves and finds.                           *)

\* A step of a live daemon is the only one that moves a daemon: the others
\* are where they were, and ended.
LEMMA OthersEnded ==
  ASSUME TypeOK, OneAlive, NEW d \in Daemons, Alive(d), NEW l, Goto(d, l)
  PROVE  /\ pc'[d] = l
         /\ \A e \in Daemons \ {d} : pc'[e] = pc[e] /\ pc[e] \in Ended
  BY DEF TypeOK, OneAlive, Alive, Goto

\* Without overlapping daemons every step preserves the invariant.
LEMMA InvStep == ~Overlap /\ DaemonInv /\ [Next]_vars => DaemonInv'
<1> USE MapNames, DaemonAssumption
<1> SUFFICES ASSUME ~Overlap, DaemonInv, [Next]_vars PROVE DaemonInv'
    OBVIOUS
<1>0. TypeOK /\ TypeOK'
    BY TypeStep DEF DaemonInv
<1> DEFINE Rest == /\ OneAlive /\ HookIsMine /\ LoopsBeginAtFirst
                   /\ PinnedSoFar /\ ConfigWritten /\ ReleasedSoFar
<1>1. ASSUME NEW d \in Daemons, Load(d) PROVE Rest'
    <2>1. OneAlive'
        BY <1>0, <1>1 DEF DaemonInv, TypeOK, OneAlive, Load, Goto, Alone, Alive, Ended
    <2>2. LoopsBeginAtFirst'
        BY <1>0, <1>1 DEF DaemonInv, TypeOK, LoopsBeginAtFirst, Load, Goto, Ended
    <2>3. (HookIsMine /\ PinnedSoFar /\ ConfigWritten /\ ReleasedSoFar)'
        BY <1>0, <1>1 DEF DaemonInv, TypeOK, HookIsMine, PinnedSoFar, ConfigWritten,
                          ReleasedSoFar, Load, Goto, Map
    <2> QED BY <2>1, <2>2, <2>3
<1>2. ASSUME NEW d \in Daemons, Attach(d) PROVE Rest'
    <2>1. Alive(d) /\ at[d] = 1
        BY <1>2 DEF Attach, Alive, Ended, DaemonInv, LoopsBeginAtFirst
    <2>2. (OneAlive /\ LoopsBeginAtFirst)'
        BY <1>0, <1>2, <2>1, OthersEnded
           DEF DaemonInv, TypeOK, OneAlive, LoopsBeginAtFirst, Attach, Goto, Alive, Ended
    <2>3. (HookIsMine /\ PinnedSoFar /\ ConfigWritten /\ ReleasedSoFar)'
        BY <1>0, <1>2, <2>1, OthersEnded
           DEF DaemonInv, TypeOK, HookIsMine, PinnedSoFar, ConfigWritten,
               ReleasedSoFar, Attach, Goto, Map, Ended
    <2> QED BY <2>2, <2>3
<1>3. ASSUME NEW d \in Daemons, Unpin(d) PROVE Rest'
    BY <1>0, <1>3, OthersEnded
       DEF DaemonInv, TypeOK, OneAlive, HookIsMine, LoopsBeginAtFirst, PinnedSoFar,
           ConfigWritten, ReleasedSoFar, Unpin, Unlinked, Goto, Map, Alive, Ended
<1>4. ASSUME NEW d \in Daemons, Pin(d) PROVE Rest'
    BY <1>0, <1>4, OthersEnded
       DEF DaemonInv, TypeOK, OneAlive, HookIsMine, LoopsBeginAtFirst, PinnedSoFar,
           ConfigWritten, ReleasedSoFar, Pin, NextIndex, Goto, Map, Alive, Ended
<1>5. ASSUME NEW d \in Daemons, Enable(d) PROVE Rest'
    BY <1>0, <1>5, OthersEnded
       DEF DaemonInv, TypeOK, OneAlive, HookIsMine, LoopsBeginAtFirst, PinnedSoFar,
           ConfigWritten, ReleasedSoFar, Enable, set_config, Goto, Map, Alive, Ended
<1>6. ASSUME NEW d \in Daemons, InstallHandlers(d) PROVE Rest'
    BY <1>0, <1>6, OthersEnded
       DEF DaemonInv, TypeOK, OneAlive, HookIsMine, LoopsBeginAtFirst, PinnedSoFar,
           ConfigWritten, ReleasedSoFar, InstallHandlers, Goto, Map, Alive, Ended
<1>7. ASSUME NEW d \in Daemons, Detach(d) PROVE Rest'
    BY <1>0, <1>7, OthersEnded
       DEF DaemonInv, TypeOK, OneAlive, HookIsMine, LoopsBeginAtFirst, PinnedSoFar,
           ConfigWritten, ReleasedSoFar, Detach, Released, Goto, Map, Alive, Ended
<1>8. ASSUME NEW d \in Daemons, Unlink(d) PROVE Rest'
    BY <1>0, <1>8, OthersEnded
       DEF DaemonInv, TypeOK, OneAlive, HookIsMine, LoopsBeginAtFirst, PinnedSoFar,
           ConfigWritten, ReleasedSoFar, Unlink, Unlinked, NextIndex, Goto, Map, Alive, Ended
<1>9. ASSUME NEW d \in Daemons, Interrupt(d) \/ Kill(d) PROVE Rest'
    <2>1. UNCHANGED <<at, flags, hook, pin, config>>
        BY <1>9 DEF Interrupt, Kill
    <2>2. CASE UNCHANGED pc
        BY <2>1, <2>2
           DEF DaemonInv, OneAlive, HookIsMine, LoopsBeginAtFirst, PinnedSoFar,
               ConfigWritten, ReleasedSoFar, Map, Alive
    <2>3. CASE Alive(d) /\ \E l \in {"interrupted", "killed"} : Goto(d, l)
        BY <1>0, <2>1, <2>3
           DEF DaemonInv, TypeOK, OneAlive, HookIsMine, LoopsBeginAtFirst, PinnedSoFar,
               ConfigWritten, ReleasedSoFar, Goto, Map, Alive, Ended
    <2> QED BY <1>9, <2>2, <2>3 DEF Interrupt, Kill
<1>10. ASSUME NEW v \in {"on", "off"}, Toggle(v) PROVE Rest'
    <2>1. UNCHANGED <<pc, at, flags, hook, pin>>
        BY <1>10 DEF Toggle
    <2>2. \A d \in Daemons : config[d] # "unset" => config'[d] # "unset"
        BY <1>0, <1>10 DEF Toggle, set_config, TypeOK
    <2>3. (OneAlive /\ HookIsMine /\ LoopsBeginAtFirst /\ PinnedSoFar /\ ReleasedSoFar)'
        BY <2>1 DEF DaemonInv, OneAlive, HookIsMine, LoopsBeginAtFirst, PinnedSoFar,
                    ReleasedSoFar, Map, Alive
    <2>4. ConfigWritten'
        BY <2>1, <2>2 DEF DaemonInv, ConfigWritten
    <2> QED BY <2>3, <2>4
<1>11. ASSUME OpenStats \/ OpenBlock \/ CloseWatch \/ UNCHANGED vars PROVE Rest'
    BY <1>11
       DEF DaemonInv, OneAlive, HookIsMine, LoopsBeginAtFirst, PinnedSoFar, ConfigWritten,
           ReleasedSoFar, OpenStats, OpenBlock, CloseWatch, vars, Map, Alive
<1>12. Rest'
    BY <1>1, <1>2, <1>3, <1>4, <1>5, <1>6, <1>7, <1>8, <1>9, <1>10, <1>11
       DEF Next, cmd_start, Command
<1> QED BY <1>0, <1>12 DEF DaemonInv

\* The initial state satisfies the invariant.
LEMMA InvInit == Init => DaemonInv
  BY MapNames, DaemonAssumption
     DEF Init, DaemonInv, TypeOK, NoHook, OneAlive, HookIsMine, LoopsBeginAtFirst,
         PinnedSoFar, ConfigWritten, ReleasedSoFar, Alive, Ended

\* The invariant holds for as long as daemons do not overlap.
LEMMA InvHolds == ASSUME ~Overlap PROVE Spec => []DaemonInv
  BY InvInit, InvStep, PTL DEF Spec

\* Daemons run one after the other, however many and however they ended: the
\* one that waits for its signal owns the hook, no pin leads to the maps of
\* an earlier one, and mitigation is set if fw_config could be pinned.
THEOREM Serving == ASSUME ~Overlap PROVE Spec => []ServingIsConsistent
<1>1. DaemonInv => ServingIsConsistent
    BY MapNames DEF DaemonInv, ServingIsConsistent, HookIsMine, PinnedSoFar, ConfigWritten
<1> QED BY <1>1, InvHolds, PTL

\* A daemon that comes to its own end has detached its program, because the
\* mode it names is the one that is attached, and has unlinked all five pins,
\* those that a killed predecessor left included.
THEOREM StopClean == ASSUME ~Overlap PROVE Spec => StopLeavesNothing
<1> USE MapNames, DaemonAssumption
<1>1. DaemonInv /\ [Next]_vars =>
        [\A d \in Daemons :
           pc[d] = "unlink" /\ pc'[d] = "exited" =>
             hook' = NoHook /\ \A m \in Maps : pin'[m] = None]_vars
    <2> SUFFICES ASSUME DaemonInv, [Next]_vars, NEW d \in Daemons,
                        pc[d] = "unlink", pc'[d] = "exited"
                 PROVE  hook' = NoHook /\ \A m \in Maps : pin'[m] = None
        OBVIOUS
    <2>1. Unlink(d)
        BY DEF Next, cmd_start, Command, Load, Attach, Unpin, Pin, Enable, InstallHandlers,
               Detach, Unlink, Interrupt, Kill, Toggle, OpenStats, OpenBlock, CloseWatch,
               Goto, vars, DaemonInv, TypeOK, Ended, Alive
    <2>2. at[d] = N_MAPS
        BY <2>1 DEF Unlink, Goto, DaemonInv, TypeOK
    <2>3. hook' = NoHook
        BY <2>1 DEF Unlink, DaemonInv, ReleasedSoFar
    <2>4. \A j \in 1..N_MAPS : pin'[MAP_NAMES[j]] = None
        BY <2>1, <2>2 DEF Unlink, Unlinked, Map, DaemonInv, TypeOK, ReleasedSoFar
    <2> QED BY <2>3, <2>4
<1> QED BY <1>1, InvHolds, PTL DEF Spec, StopLeavesNothing
=============================================================================
