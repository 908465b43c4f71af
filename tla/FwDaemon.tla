------------------------------ MODULE FwDaemon ------------------------------
(***************************************************************************)
(* The life of `falconwall start` (cmd_start in wall/fw.cpp) on one        *)
(* interface: load, attach, pin the maps, enable, wait for a signal,       *)
(* detach, unpin.  The kernel keeps the attached program and the pinned    *)
(* maps when the process dies, so what one process leaves behind the next  *)
(* one finds, and every command reaches the maps through the pins.         *)
(*                                                                         *)
(* Each `start` loads a set of maps of its own, named here after the       *)
(* process that loaded it.                                                 *)
(***************************************************************************)
EXTENDS Naturals, Sequences

CONSTANTS
  Daemons,     \* invocations of `falconwall start`, each used once
  None,        \* no program, no map
  Overlap,     \* TRUE: a second daemon may be started beside a running one
  PinMayFail   \* TRUE: bpf_map__pin may fail (no bpffs, no memory)

ASSUME DaemonAssumption ==
  /\ None \notin Daemons
  /\ Overlap \in BOOLEAN /\ PinMayFail \in BOOLEAN

VARIABLES
  pc,          \* where each invocation is
  at,          \* i of the loops over MAP_NAMES
  flags,       \* the mode each daemon attached in
  running,     \* cleared by on_sig
  hook,        \* the program attached to the interface, and its mode
  pin,         \* the pinned file of each map: whose map it is, or None
  config,      \* fw_config[CFG_ENABLED] of each daemon's map: "unset" (the
               \* zero it is created with), "on" or "off"
  watchFds     \* the maps that `watch` holds open

vars == <<pc, at, flags, running, hook, pin, config, watchFds>>

MAP_NAMES == <<"fw_blocklist", "fw_range_drop", "fw_ip_stats", "fw_config", "fw_stats">>
N_MAPS == Len(MAP_NAMES)
Maps == {MAP_NAMES[i] : i \in 1..N_MAPS}

NoHook == [owner |-> None, mode |-> None]

Ended == {"off", "failed", "exited", "interrupted", "killed"}
Alive(d) == pc[d] \notin Ended
Alone(d) == \A e \in Daemons \ {d} : ~Alive(e)

Init ==
  /\ pc = [d \in Daemons |-> "off"]
  /\ at = [d \in Daemons |-> 1]
  /\ flags = [d \in Daemons |-> None]
  /\ running = [d \in Daemons |-> TRUE]
  /\ hook = NoHook
  /\ pin = [m \in Maps |-> None]
  /\ config = [d \in Daemons |-> "unset"]
  /\ watchFds = [stats |-> None, block |-> None]

Goto(d, l) == pc' = [pc EXCEPT ![d] = l]

-----------------------------------------------------------------------------
(* Starting.                                                               *)

\* Open and load the object; on an error the process ends with nothing done.
Load(d) ==
  /\ pc[d] = "off" /\ (Overlap \/ Alone(d))
  /\ \E l \in {"attach", "failed"} : Goto(d, l)
  /\ UNCHANGED <<at, flags, running, hook, pin, config, watchFds>>

\* The modes that bpf_xdp_attach may accept: without UPDATE_IF_NOEXIST it
\* replaces a program of the same mode; the two modes exclude each other.
Accepted == {m \in {"DRV", "SKB"} : hook.mode \in {m, None}}

\* Native mode first, generic mode if that fails; each call may be refused
\* (no driver support, no privilege, no memory).
Attach(d) ==
  /\ pc[d] = "attach"
  /\ \/ \E m \in Accepted :
          /\ flags' = [flags EXCEPT ![d] = m]
          /\ hook' = [owner |-> d, mode |-> m]
          /\ Goto(d, "unpin")
     \/ /\ Goto(d, "failed")
        /\ UNCHANGED <<flags, hook>>
  /\ UNCHANGED <<at, running, pin, config, watchFds>>

\* The map that the loops over MAP_NAMES have come to.
Map(d) == MAP_NAMES[at[d]]

\* Fault: unlink is given another path than the one that is pinned.
Unlinked_Other(d) == pin

Unlinked(d) == [pin EXCEPT ![Map(d)] = None]

\* Fault: the second loop over MAP_NAMES goes on with the i of the first.
NextIndex_NoReset(d) == at[d] + 1

NextIndex(d) == IF at[d] = N_MAPS THEN 1 ELSE at[d] + 1

\* unlink whatever is pinned under the name,
Unpin(d) ==
  /\ pc[d] = "unpin"
  /\ pin' = Unlinked(d)
  /\ Goto(d, "pin")
  /\ UNCHANGED <<at, flags, running, hook, config, watchFds>>

\* then pin the daemon's own map.  A failure is only a warning.
Pin(d) ==
  /\ pc[d] = "pin"
  /\ \/ pin[Map(d)] = None /\ pin' = [pin EXCEPT ![Map(d)] = d]
     \/ (PinMayFail \/ pin[Map(d)] # None) /\ UNCHANGED pin
  /\ at' = [at EXCEPT ![d] = NextIndex(d)]
  /\ Goto(d, IF at[d] = N_MAPS THEN "enable" ELSE "unpin")
  /\ UNCHANGED <<flags, running, hook, config, watchFds>>

\* Fault: the update of the configuration is lost.
set_config_Lost(v) == UNCHANGED config

\* set_config opens the map through its pin, whoever's that is by now, and
\* does nothing without one.
set_config(v) ==
  config' = IF pin["fw_config"] = None THEN config
            ELSE [config EXCEPT ![pin["fw_config"]] = v]

\* Enable mitigation and print "running on ... Ctrl+C to stop".
Enable(d) ==
  /\ pc[d] = "enable"
  /\ set_config("on")
  /\ Goto(d, "announced")
  /\ UNCHANGED <<at, flags, running, hook, pin, watchFds>>

InstallHandlers(d) ==
  /\ pc[d] = "announced"
  /\ Goto(d, "loop")
  /\ UNCHANGED <<at, flags, running, hook, pin, config, watchFds>>

-----------------------------------------------------------------------------
(* Stopping.                                                               *)

\* SIGINT or SIGTERM: on_sig once the handlers are installed, until then the
\* default action.
Interrupt(d) ==
  /\ Alive(d)
  /\ IF pc[d] \in {"loop", "unlink"}
     THEN running' = [running EXCEPT ![d] = FALSE] /\ UNCHANGED pc
     ELSE Goto(d, IF pc[d] = "announced" THEN "interrupted" ELSE "killed")
          /\ UNCHANGED running
  /\ UNCHANGED <<at, flags, hook, pin, config, watchFds>>

\* SIGKILL, or a crash: the kernel closes the descriptors and nothing else.
Kill(d) ==
  /\ Alive(d)
  /\ Goto(d, "killed")
  /\ UNCHANGED <<at, flags, running, hook, pin, config, watchFds>>

\* Fault: the program stays attached.
Released_Not(d) == hook

Released(d) == IF hook.mode = flags[d] THEN NoHook ELSE hook

\* bpf_xdp_detach names the interface and the mode, not the program.
Detach(d) ==
  /\ pc[d] = "loop" /\ ~running[d]
  /\ hook' = Released(d)
  /\ Goto(d, "unlink")
  /\ UNCHANGED <<at, flags, running, pin, config, watchFds>>

\* Fault: an unlink that fails, for want of a pin, is tried again.
Unlink_Retries(d) ==
  /\ pc[d] = "unlink" /\ pin[Map(d)] # None
  /\ pin' = Unlinked(d)
  /\ at' = [at EXCEPT ![d] = NextIndex(d)]
  /\ Goto(d, IF at[d] = N_MAPS THEN "exited" ELSE "unlink")
  /\ UNCHANGED <<flags, running, hook, config, watchFds>>

Unlink(d) ==
  /\ pc[d] = "unlink"
  /\ pin' = Unlinked(d)
  /\ at' = [at EXCEPT ![d] = NextIndex(d)]
  /\ Goto(d, IF at[d] = N_MAPS THEN "exited" ELSE "unlink")
  /\ UNCHANGED <<flags, running, hook, config, watchFds>>

cmd_start(d) == \/ Attach(d) \/ Unpin(d) \/ Pin(d) \/ Enable(d) \/ InstallHandlers(d)
                \/ Detach(d) \/ Unlink(d)

-----------------------------------------------------------------------------
(* Commands beside the daemon.                                             *)

\* enable and disable; "mitigation enabled" is printed in any case.
Toggle(v) ==
  /\ set_config(v)
  /\ UNCHANGED <<pc, at, flags, running, hook, pin, watchFds>>

\* watch opens two maps, one after the other, and keeps them open.
OpenStats ==
  /\ watchFds.stats = None /\ pin["fw_ip_stats"] # None
  /\ watchFds' = [watchFds EXCEPT !.stats = pin["fw_ip_stats"]]
  /\ UNCHANGED <<pc, at, flags, running, hook, pin, config>>

OpenBlock ==
  /\ watchFds.stats # None /\ watchFds.block = None
  /\ watchFds' = IF pin["fw_blocklist"] = None THEN [stats |-> None, block |-> None]
                 ELSE [watchFds EXCEPT !.block = pin["fw_blocklist"]]
  /\ UNCHANGED <<pc, at, flags, running, hook, pin, config>>

CloseWatch ==
  /\ watchFds.block # None
  /\ watchFds' = [stats |-> None, block |-> None]
  /\ UNCHANGED <<pc, at, flags, running, hook, pin, config>>

Command == (\E v \in {"on", "off"} : Toggle(v)) \/ OpenStats \/ OpenBlock \/ CloseWatch

Next ==
  \/ \E d \in Daemons : Load(d) \/ cmd_start(d) \/ Interrupt(d) \/ Kill(d)
  \/ Command

\* The scheduler runs every daemon process; signals, crashes and commands
\* come or do not come.
Spec == Init /\ [][Next]_vars /\ \A d \in Daemons : WF_vars(cmd_start(d))

-----------------------------------------------------------------------------
\* Every variable holds a value of its kind; the index into MAP_NAMES stays
\* inside the array in both loops.
TypeOK ==
  /\ pc \in [Daemons -> Ended \cup {"attach", "unpin", "pin", "enable", "announced",
                                    "loop", "unlink"}]
  /\ at \in [Daemons -> 1..N_MAPS]
  /\ flags \in [Daemons -> {"DRV", "SKB", None}]
  /\ running \in [Daemons -> BOOLEAN]
  /\ hook \in [owner : Daemons \cup {None}, mode : {"DRV", "SKB", None}]
  /\ pin \in [Maps -> Daemons \cup {None}]
  /\ config \in [Daemons -> {"unset", "on", "off"}]
  /\ watchFds \in [stats : Daemons \cup {None}, block : Daemons \cup {None}]

\* A daemon that waits for its signal, alone on the host, is the one whose
\* program sees the traffic; every pin that exists leads to its maps, and
\* mitigation has been switched on if the configuration could be pinned:
\* whatever an earlier daemon left behind when it was killed is replaced.
ServingIsConsistent ==
  \A d \in Daemons : pc[d] = "loop" /\ Alone(d) =>
    /\ hook.owner = d
    /\ \A m \in Maps : pin[m] \in {d, None}
    /\ pin["fw_config"] = d => config[d] # "unset"

\* A daemon that ends by itself leaves no program and no pin behind, not even
\* those of an earlier daemon that was killed.
StopLeavesNothing ==
  [][\A d \in Daemons :
       pc[d] = "unlink" /\ pc'[d] = "exited" =>
         hook' = NoHook /\ \A m \in Maps : pin'[m] = None]_vars

\* A daemon whose signal handler ran comes to its end.
SignalStopsDaemon ==
  \A d \in Daemons : ~running[d] ~> pc[d] \in {"exited", "killed"}

\* An attached program does not stay in the state it is loaded in, in which it
\* passes every frame: its daemon comes to switch mitigation on, unless the
\* process ends first or fw_config could not be pinned.
AttachedGetsEnabled ==
  \A d \in Daemons : hook.owner = d ~>
    ~Alive(d) \/ config[d] # "unset" \/ (pc[d] = "loop" /\ pin["fw_config"] = None)

-----------------------------------------------------------------------------
(* Claims of the program and its documentation that the code does not keep. *)

\* README.md:246 "The block/range/ratelimit/... commands open the pinned maps
\* directly, so they work while the daemon is running": while a daemon waits
\* for its signal, alone on the host, the pinned maps are its own.
CommandsReachDaemon ==
  \A d \in Daemons : pc[d] = "loop" /\ Alone(d) =>
    hook.owner = d /\ \A m \in Maps : pin[m] = d

\* fw.cpp:235 "running on ... Ctrl+C to stop": an interrupt after this message
\* leaves no program of the daemon attached.
CtrlCDetaches == \A d \in Daemons : pc[d] = "interrupted" => hook.owner # d

\* README.md:252 "The watch loop ... bans any IP that matches": beside a
\* daemon that waits for its signal, alone, watch works on that daemon's maps.
WatchFollowsDaemon ==
  \A d \in Daemons : pc[d] = "loop" /\ Alone(d) /\ watchFds.block # None =>
    watchFds = [stats |-> d, block |-> d]
=============================================================================
