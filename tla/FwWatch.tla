------------------------------- MODULE FwWatch -------------------------------
(***************************************************************************)
(* `falconwall watch` (cmd_watch in wall/fw.cpp) with the built-in         *)
(* detectors of wall/detector.cpp, beside the running firewall.            *)
(*                                                                         *)
(* A pass walks the keys of fw_ip_stats.  For each key it makes up to      *)
(* three system calls: copy the statistics, ask the block list, write the  *)
(* ban.  Frames, commands and the clock run between any two of them, and   *)
(* in the middle of the copy, which takes no lock.                         *)
(***************************************************************************)
EXTENDS FwCtl, Sequences

CONSTANTS
  RATE_MAX,    \* RateDetector: 10000 in the code
  SYN_FLOOR,   \* SynFloodDetector: 50
  UDP_MAX,     \* UdpFloodDetector: 5000
  ICMP_MAX,    \* IcmpFloodDetector: 1000
  ban_sec      \* the sec argument of `watch`

ASSUME WatchAssumption ==
  /\ IsFiniteSet(Cpus)
  /\ RATE_MAX \in Nat /\ SYN_FLOOR \in Nat /\ UDP_MAX \in Nat /\ ICMP_MAX \in Nat
  /\ ban_sec \in Int

VARIABLES
  running,     \* cleared by SIGINT and SIGTERM
  watch,       \* the watch process: where it is, its key, its copy of the stats
  sent,        \* history: IPv4 frames that each source has sent so far
  bans,        \* history: bans of each source by watch since a CPU last handled
               \* a frame of it or it was unblocked; two stands for more
  during       \* history: frames in flight at some moment of the copy under way

-----------------------------------------------------------------------------
(* The detectors, each a predicate on one copy of the statistics.          *)

RateDetector(s)      == s.packets > RATE_MAX
SynFloodDetector(s)  == s.packets > SYN_FLOOR /\ s.l4["syn"] * 10 > s.packets * 8
UdpFloodDetector(s)  == s.l4["udp"] > UDP_MAX
IcmpFloodDetector(s) == s.l4["icmp"] > ICMP_MAX

add(detectors, d) == Append(detectors, d)

\* The registry after the static registrars of detector.cpp have run.
DetectorRegistry ==
  add(add(add(add(<<>>, "rate"), "synflood"), "udpflood"), "icmpflood")

match(d, s) == CASE d = "rate"      -> RateDetector(s)
                 [] d = "synflood"  -> SynFloodDetector(s)
                 [] d = "udpflood"  -> UdpFloodDetector(s)
                 [] d = "icmpflood" -> IcmpFloodDetector(s)

\* Some detector matches.  The loop stops at the first one, so a source is
\* banned once however many match.
Match(s) == \E i \in DOMAIN DetectorRegistry : match(DetectorRegistry[i], s)

-----------------------------------------------------------------------------
(* Walking the map.                                                        *)

\* The walk as FwWalk specifies it.
Walk == INSTANCE FwWalk WITH
  present <- Used(elem), blocked <- Used(blockElem),
  at <- watch.pc, key <- watch.key, hit <- watch.pc = "check" /\ Match(watch.s)

Asleep == [pc |-> "sleep", key |-> Absent, e |-> Absent, s |-> NoStats]

\* Fault: the end of the walk is not noticed.
GoTo_NoEnd(k) == [Asleep EXCEPT !.pc = "read", !.key = k]

\* The walk continues at key k, or the pass is over.
GoTo(k) == IF k = Absent THEN Asleep ELSE [Asleep EXCEPT !.pc = "read", !.key = k]

watchIdle == <<running, sent, bans, during>>

\* sleep(1) ends, by timeout or by a signal; the flag is tested only here.
StartPass ==
  /\ watch.pc = "sleep"
  /\ watch' = IF running THEN GoTo(Walk!FirstKey) ELSE [Asleep EXCEPT !.pc = "done"]
  /\ UNCHANGED <<vars, watchIdle>>

\* The lookup finds the element and copies it from the first field to the
\* last; it fails if the key is gone.  The window and the packet count,
ReadStats ==
  /\ watch.pc = "read"
  /\ LET e == elem[watch.key]
     IN  \/ /\ e = Absent
            /\ watch' = [watch EXCEPT !.pc = "next"]
            /\ UNCHANGED during
         \/ /\ e # Absent
            /\ watch' = [watch EXCEPT !.pc = "copy", !.e = e,
                                      !.s = [stats[e] EXCEPT !.l4 = NoStats.l4]]
            /\ during' = Cardinality({c \in Cpus : cpu[c].pc # "idle"})
  /\ UNCHANGED <<vars, running, sent, bans>>

\* then the protocol counts, of an element that may have been updated, or
\* given to another source, in between.
CopyClasses ==
  /\ watch.pc = "copy"
  /\ watch' = [watch EXCEPT !.pc = "check", !.e = Absent, !.s.l4 = stats[watch.e].l4]
  /\ during' = 0
  /\ UNCHANGED <<vars, running, sent, bans>>

\* Fault: the block list is not asked.
CheckKey_NoLookup ==
  /\ watch.pc = "check"
  /\ watch' = [watch EXCEPT !.pc = IF Match(watch.s) THEN "ban" ELSE "next"]
  /\ UNCHANGED <<vars, watchIdle>>

\* already_blocked, and the detectors on the copy.
CheckKey ==
  /\ watch.pc = "check"
  /\ watch' = [watch EXCEPT !.pc =
       IF blocklist[watch.key] = Absent /\ Match(watch.s) THEN "ban" ELSE "next"]
  /\ UNCHANGED <<vars, watchIdle>>

\* BPF_ANY: the ban replaces whatever the block list holds for the key.
BanKey ==
  /\ watch.pc = "ban"
  /\ block_ip(watch.key, ban_sec)
  /\ watch' = [watch EXCEPT !.pc = "next"]
  /\ bans' = [bans EXCEPT ![watch.key] = IF @ < 2 THEN @ + 1 ELSE @]
  /\ UNCHANGED <<clock, enabled, pps, ranges, dataPlane, running, sent, during>>

Advance ==
  /\ watch.pc = "next"
  /\ watch' = GoTo(Walk!NextKey(watch.key))
  /\ UNCHANGED <<vars, watchIdle>>

cmd_watch == StartPass \/ ReadStats \/ CopyClasses \/ CheckKey \/ BanKey \/ Advance

\* on_sig, the handler of SIGINT and SIGTERM.
on_sig ==
  /\ running /\ running' = FALSE
  /\ UNCHANGED <<vars, watch, sent, bans, during>>

\* The firewall takes a step; the histories record an arriving frame and an
\* unblock.
Arrivals(ip) == {c \in Cpus : /\ cpu[c].pc = "idle" /\ cpu'[c].pc # "idle"
                              /\ cpu'[c].src = ip}

Handled(ip) == \E c \in Cpus : cpu'[c] # cpu[c] /\ ip \in {cpu[c].src, cpu'[c].src}

Firewall ==
  /\ Next
  /\ sent' = [ip \in Sources |-> sent[ip] + Cardinality(Arrivals(ip))]
  /\ bans' = [ip \in Sources |-> IF Handled(ip) \/ cmd_unblock(ip) THEN 0 ELSE bans[ip]]
  /\ during' = IF watch.pc = "copy"
               THEN during + Cardinality(UNION {Arrivals(ip) : ip \in Sources}) ELSE during
  /\ UNCHANGED <<running, watch>>

WInit ==
  /\ Init
  /\ running = TRUE
  /\ watch = Asleep
  /\ sent = [ip \in Sources |-> 0]
  /\ bans = [ip \in Sources |-> 0]
  /\ during = 0

WNext == Firewall \/ cmd_watch \/ on_sig

wvars == <<vars, running, watch, sent, bans, during>>

\* The scheduler runs the watch process again and again; nothing is assumed
\* of the network, the operator or the clock.
WSpec == WInit /\ [][WNext]_wvars /\ WF_wvars(cmd_watch)

-----------------------------------------------------------------------------
\* The state is well formed; while watch is inside a pass it has a key, never
\* the end-of-map error of bpf_map_get_next_key.
WatchTypeOK ==
  /\ TypeOK
  /\ running \in BOOLEAN
  /\ watch \in [pc : {"sleep", "read", "copy", "check", "ban", "next", "done"},
                key : Sources \cup {Absent}, e : Elements \cup {Absent}, s : IpStats]
  /\ watch.pc \in {"read", "copy", "check", "ban", "next"} => watch.key \in Sources
  /\ watch.pc = "copy" => watch.e \in Elements
  /\ during \in Nat

\* A source is banned only on numbers it has reached itself: the copy of the
\* statistics that a detector matched counts no more frames than the source
\* has sent.  Updates that racing CPUs lose only lower the counts, and a copy
\* taken half before and half after an update mixes counts that were true.
\* It needs frames of one source only, or one CPU and a statistics map with
\* room for every source: two CPUs that both miss the entry of a source both
\* insert it, and the element that is replaced goes to the next source while
\* the first CPU still counts in it.
BanIsEarned ==
  watch.pc = "ban" =>
    /\ watch.s.packets <= sent[watch.key]
    /\ \A k \in L4Classes : watch.s.l4[k] <= sent[watch.key]

\* With room to spare in the block list (an update of a full LRU evicts even
\* when its key is there), a source that has gone silent is banned once: its
\* statistics keep matching, but the ban stays on the list after it has
\* expired until a frame of the source or an unblock removes it.
BannedOnce == \A ip \in Sources : bans[ip] <= 1

\* With one CPU a copy that counts packets shows no more frames of a protocol
\* than packets, but for the frames that were in flight while it was taken:
\* so far, and no further, can the share of SYN frames that SynFloodDetector
\* computes exceed one.  A rollover clears all the counts, the packet count
\* first; a copy from the middle of it has no packets and matches nothing.
TornShareBounded ==
  [][watch.pc = "copy" /\ watch'.pc = "check" /\ watch'.s.packets > 0 =>
       \A k \in L4Classes : watch'.s.l4[k] <= watch'.s.packets + during]_wvars

\* cmd_watch does to the keys of the two maps what FwWalk says, and no step of
\* the firewall does anything to them that FwWalk leaves out; so what FwWalk
\* promises of the walk while traffic never ends holds of cmd_watch.
ImplementsWalk == Walk!Spec

-----------------------------------------------------------------------------
(* A claim of the documentation that the code does not keep.               *)

\* detector.cpp:23 "The per-IP stats reflect a ~1.07s sliding window": the
\* counts that a detector matches are of a window that began no more than two
\* windows ago.
MatchIsCurrent ==
  [][watch.pc = "copy" /\ watch'.pc = "check" /\ Match(watch'.s)
       => clock - watch'.s.window_start <= 2 * WINDOW_NS]_wvars
=============================================================================
