------------------------------ MODULE FwVerdict ------------------------------
(***************************************************************************)
(* What a verdict of fw_prog says about the rules, however the commands    *)
(* interleave with the frame.                                              *)
(*                                                                         *)
(* A frame takes several steps and consults the rules one after another,   *)
(* while commands change them, so "the frame obeys the rules" needs a      *)
(* history: for the frame in flight on each CPU, `held` is the set of      *)
(* rules that have been in force against it ever since it arrived, unless  *)
(* fw_prog itself removed them while it handled the frame, and `seen` the  *)
(* set of those that were in force at some moment since.  fw_prog reads    *)
(* the expiry through a pointer: `seen` also records that the element the  *)
(* pointer leads to came to hold a block of another source ("recycled").   *)
(***************************************************************************)
EXTENDS FwCtl

VARIABLE hist

\* No expiry time wraps around within the bounds of the instance.
ASSUME NoWrap ==
  \A sec \in BanSecs : sec > 0 => MaxTime + sec * NsPerSec < WordMod

Rules == {"block", "range", "limit"}

\* fw_prog.c:32 "value = expiry (ns since boot, monotonic); 0 = permanent block":
\* what an entry of the block list means at time t, said once more here so
\* that the properties do not rest on the test of fw_prog.
Blocks(exp, t) == exp # Absent /\ (exp = 0 \/ t <= exp)

\* The rules in force against source ip in the current state.
InForce(ip) ==
  {r \in Rules : \/ r = "block" /\ Blocks(blocklist[ip], clock)
                 \/ r = "range" /\ LpmLookup(ranges, ip)
                 \/ r = "limit" /\ pps > 0}

\* The element that the lookup found on c now blocks another source.
Recycled(c) ==
  /\ cpu[c].pc = "test"
  /\ \E ip \in Sources \ {cpu[c].src} :
       blockElem[ip] = cpu[c].exp /\ Blocks(blocklist[ip], clock)

NoHistory == [held |-> {}, seen |-> {}]

Busy(c) == cpu[c].pc # "idle"

VInit == Init /\ hist = [c \in Cpus |-> NoHistory]

\* The history of the frame in flight on c after a step.  What the frame's
\* own steps do to the rules does not end a rule that held so far.
Observed(c) ==
  LET now == InForce(cpu[c].src)'
  IN  IF ~Busy(c)' THEN NoHistory
      ELSE IF ~Busy(c) THEN [held |-> now, seen |-> now]
      ELSE [held |-> IF cpu'[c] = cpu[c] THEN hist[c].held \cap now ELSE hist[c].held,
            seen |-> hist[c].seen \cup now \cup {r \in {"recycled"} : Recycled(c)'}]

Observe == hist' = [c \in Cpus |-> Observed(c)]

VNext == Next /\ Observe

vvars == <<vars, hist>>

VSpec == VInit /\ [][VNext]_vvars

-----------------------------------------------------------------------------
\* The history of the frame in flight on c agrees with how far fw_prog got:
\* what held so far is in force now and what is in force now was seen; a rule
\* that the frame has already gone past did not hold all along; a frame that
\* the block list is about to drop has seen a block, its own or that of the
\* source which was given the element; and a block that held all along is
\* found in the element, whoever it belongs to by now.
HistoryOK(c) ==
  LET src == cpu[c].src
      pc  == cpu[c].pc
  IN  /\ cpu[c].now <= clock
      /\ hist[c].held \subseteq InForce(src)
      /\ InForce(src) \subseteq hist[c].seen
      /\ pc \notin {"block", "test"} => "block" \notin hist[c].held
      /\ pc \notin {"block", "test", "expire", "range"} => "range" \notin hist[c].held
      /\ pc = "block" /\ InEffect(blocklist[src], cpu[c].now) => "block" \in hist[c].seen
      /\ pc = "test" /\ InEffect(blockExp[cpu[c].exp], cpu[c].now)
           => hist[c].seen \cap {"block", "recycled"} # {}
      /\ pc = "test" /\ "block" \in hist[c].held => InEffect(blockExp[cpu[c].exp], cpu[c].now)

\* Once fw_prog has gone past a rule, that rule has not been in force for
\* the whole flight of the frame (the inductive invariant behind the two
\* properties below).
HistoryInv ==
  /\ clock <= MaxTime
  /\ hist \in [Cpus -> [held : SUBSET Rules, seen : SUBSET (Rules \cup {"recycled"})]]
  /\ \A c \in Cpus : Busy(c) => HistoryOK(c)

-----------------------------------------------------------------------------
\* fw_prog ends on c with verdict v in the current step.
Returns(c, v) == Busy(c) /\ ~Busy(c)' /\ verdict'[c] = v

\* A source that is on the block list (unexpired), or in a dropped range, for
\* the whole time its frame is in flight does not get the frame through: no
\* interleaving of commands, expiries, deletions by another CPU and evictions
\* opens a gap in a rule that stays in force, and the frame does not open one
\* by deleting a block that has not expired (fw_prog.c, steps 1 and 2).
NoPassWhileHeld ==
  [][\A c \in Cpus : Returns(c, "XDP_PASS") => hist[c].held \subseteq {"limit"}]_vvars

\* A frame is dropped only if some rule was in force against its source at
\* some moment while it was in flight, or the element of the block list that
\* the lookup of the frame found was given, before its expiry was read, to a
\* block of another source that was then in force (fw_prog.c, steps 1 to 3).
\* Neither an expired block nor a removed rule drops a frame otherwise.
NoDropWithoutCause ==
  [][\A c \in Cpus : Returns(c, "XDP_DROP") => hist[c].seen # {}]_vvars

-----------------------------------------------------------------------------
(* A claim of the documentation that the code does not keep.               *)

\* README.md:190 "per-IP LRU hash, drop if present and unexpired": a frame is
\* dropped only by a rule that was in force against its own source.
DropIsOwn ==
  [][\A c \in Cpus : Returns(c, "XDP_DROP") => hist[c].seen \cap Rules # {}]_vvars
=============================================================================
