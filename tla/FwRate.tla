-------------------------------- MODULE FwRate -------------------------------
(***************************************************************************)
(* What the sliding-window limit of fw_prog promises about a source, told  *)
(* from the outside: from the times at which its frames arrived and at     *)
(* which they were let through, and never from the counters themselves.    *)
(*                                                                         *)
(* sent[ip][t] is the number of frames of ip that were stamped t, and      *)
(* through[ip][t] the number of those that passed the limiter since the    *)
(* last ratelimit, enable or disable command.                              *)
(***************************************************************************)
EXTENDS FwCtl, Functions

VARIABLES sent, through

Times == 0..MaxTime
NoFrames == [ip \in Sources |-> [t \in Times |-> 0]]

Arrives(c) == cpu[c].pc = "idle" /\ cpu'[c].pc # "idle"
Leaves(c, v) == cpu[c].pc # "idle" /\ cpu'[c].pc = "idle" /\ verdict'[c] = v

RInit == Init /\ sent = NoFrames /\ through = NoFrames

Meter ==
  /\ sent' = [ip \in Sources |-> [t \in Times |-> sent[ip][t] +
       Cardinality({c \in Cpus : Arrives(c) /\ cpu'[c].src = ip /\ cpu'[c].now = t})]]
  /\ through' = IF <<enabled, pps>>' # <<enabled, pps>> THEN NoFrames ELSE
       [ip \in Sources |-> [t \in Times |-> through[ip][t] +
         Cardinality({c \in Cpus : Leaves(c, "XDP_PASS") /\ cpu[c].src = ip
                                                         /\ cpu[c].now = t})]]

RNext == Next /\ Meter

rvars == <<vars, sent, through>>

RSpec == RInit /\ [][RNext]_rvars

\* The frames that `count` has at the times of (from, to].
Within(count, from, to) == SumFunctionOnSet(count, {t \in Times : from < t /\ t <= to})

-----------------------------------------------------------------------------
(* Promises kept when one CPU receives every frame of the source: the      *)
(* updates of its statistics are then not interrupted by one another.      *)

\* When a frame stamped t passes, in slot j of the FRAC slots of its window,
\* at most limit * (1 + j/FRAC) frames, rounded up to a frame, have passed in
\* the window's length that ends at t.  In particular never more than twice
\* the limit, and at the start of a window no more than the limit: what the
\* previous window let through still counts there.
SlidingQuota ==
  [][\A c \in Cpus :
       Leaves(c, "XDP_PASS") /\ enabled /\ pps > 0 =>
         LET ip == cpu[c].src
             t  == cpu[c].now
             n  == Within(through'[ip], t - WINDOW_NS, t)
         IN  FRAC * n <= FRAC * pps + FRAC - 1 + pps * Slot(stats[elem[ip]], t)]_rvars

\* A source that never sends more than half the limit in a window's length
\* loses no frame to the limiter, wherever the windows happen to begin.
CompliantNeverDropped ==
  [][\A c \in Cpus :
       cpu[c].pc = "limit" /\ Leaves(c, "XDP_DROP") =>
         \E t \in Times : 2 * Within(sent[cpu[c].src], t - WINDOW_NS, t) > pps]_rvars

\* The slot computed for the weighted rate is one of the FRAC slots of the
\* window, as the comment "0 .. 1023" at fw_prog.c:207 says.  It fails when
\* two CPUs handle the same source.
SlotInRange ==
  \A c \in Cpus :
    cpu[c].pc = "rate" => Slot(stats[cpu[c].s], cpu[c].now) \in 0..(FRAC - 1)

-----------------------------------------------------------------------------
(* Claims of the documentation that the code does not keep.                *)

\* README.md:213 "smooth, no boundary bursts": no span of a window's length
\* lets more than the limit through.
NoBoundaryBurst ==
  enabled /\ pps > 0 =>
    \A ip \in Sources, t \in Times : Within(through[ip], t - WINDOW_NS, t) <= pps

\* fw_prog.c:54 "packets in the previous window": a frame is dropped by the
\* limiter only if its source sent more than the limit in this window and
\* the one before it.
LimitDropIsRecent ==
  [][\A c \in Cpus :
       Leaves(c, "XDP_DROP") =>
         Within(sent[cpu[c].src], cpu[c].now - 2 * WINDOW_NS, cpu[c].now) > pps]_rvars
=============================================================================
