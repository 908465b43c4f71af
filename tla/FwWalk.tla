------------------------------- MODULE FwWalk --------------------------------
(***************************************************************************)
(* What the walk of `falconwall watch` (cmd_watch in wall/fw.cpp) promises *)
(* while traffic never ends.                                               *)
(*                                                                         *)
(* Only the keys of the two maps are left here: which sources have an      *)
(* entry in fw_ip_stats, and which are on the block list.  That makes the  *)
(* state finite without a bound on the frames, so that keys can come and   *)
(* go, and evict each other, for ever.  What a copy of the statistics says *)
(* of a source is any answer.  FwWatch implements this specification.      *)
(***************************************************************************)
EXTENDS Integers, FiniteSets

CONSTANTS
  Sources,    \* source addresses that occur
  Absent,     \* no key
  MaxIps,     \* MAX_IPS, elements of fw_ip_stats
  MaxBlock    \* MAX_BLOCK, elements of fw_blocklist

ASSUME WalkAssumption ==
  Sources \subseteq Int /\ Absent \notin Sources /\ MaxIps \in Nat /\ MaxBlock \in Nat

VARIABLES
  present,    \* keys of fw_ip_stats
  blocked,    \* keys of fw_blocklist
  running,    \* cleared by SIGINT and SIGTERM
  at,         \* where watch is
  key,        \* its key
  hit         \* it has a copy of the statistics that a detector matches

others == <<present, blocked, running>>
vars == <<others, at, key, hit>>

\* The keys that an update of an LRU hash of `cap` elements may leave: a full
\* one gives up some key first.
LruInsert(keys, cap, k) ==
  IF Cardinality(keys) < cap THEN {keys \cup {k}}
  ELSE {(keys \ {x}) \cup {k} : x \in keys}

-----------------------------------------------------------------------------
(* bpf_map_get_next_key on a hash map.  The keys have some fixed order,    *)
(* here that of the addresses; a key that is no longer in the map is       *)
(* followed by the first one.                                              *)

Least(keys) == IF keys = {} THEN Absent ELSE CHOOSE x \in keys : \A y \in keys : x <= y

FirstKey == Least(present)

\* Fault: the walk starts again where it should end.
NextKey_Wraps(k) == IF \E x \in present : x > k
                    THEN Least({x \in present : x > k}) ELSE FirstKey

NextKey(k) == IF k \notin present THEN FirstKey ELSE Least({x \in present : x > k})

-----------------------------------------------------------------------------
(* The walk.                                                               *)

\* The walk continues at key k, or the pass is over.
GoTo(k) == key' = k /\ at' = IF k = Absent THEN "sleep" ELSE "read"

\* Fault: the walk asks for the key after the first one.
StartPass_SkipsFirst ==
  /\ at = "sleep"
  /\ \/ running /\ GoTo(IF FirstKey = Absent THEN Absent ELSE NextKey(FirstKey))
     \/ ~running /\ at' = "done" /\ key' = Absent
  /\ UNCHANGED <<others, hit>>

\* The flag is tested here and nowhere else.
StartPass ==
  /\ at = "sleep"
  /\ \/ running /\ GoTo(FirstKey)
     \/ ~running /\ at' = "done" /\ key' = Absent
  /\ UNCHANGED <<others, hit>>

\* The lookup of the statistics; it fails if the key is gone.
Read ==
  /\ at = "read" /\ at' = IF key \in present THEN "copy" ELSE "next"
  /\ UNCHANGED <<others, key, hit>>

\* The copy is complete; a detector matches it or not.
Copy ==
  /\ at = "copy" /\ at' = "check"
  /\ hit' \in BOOLEAN
  /\ UNCHANGED <<others, key>>

\* already_blocked, and the detectors.
Check ==
  /\ at = "check" /\ at' = IF key \notin blocked /\ hit THEN "ban" ELSE "next"
  /\ hit' = FALSE
  /\ UNCHANGED <<others, key>>

Ban ==
  /\ at = "ban" /\ at' = "next"
  /\ blocked' \in LruInsert(blocked, MaxBlock, key)
  /\ UNCHANGED <<present, running, key, hit>>

Advance ==
  /\ at = "next"
  /\ GoTo(NextKey(key))
  /\ UNCHANGED <<others, hit>>

Step == StartPass \/ Read \/ Copy \/ Check \/ Ban \/ Advance

\* The key of the walk has been evicted and the walk is at the first key again.
Restart == Advance /\ key \notin present

-----------------------------------------------------------------------------
(* Everybody else.                                                         *)

\* fw_prog creates an entry for source k.
Insert(k) ==
  /\ present' \in LruInsert(present, MaxIps, k)
  /\ UNCHANGED <<blocked, running, at, key, hit>>

\* A block command.
List(k) ==
  /\ blocked' \in LruInsert(blocked, MaxBlock, k)
  /\ UNCHANGED <<present, running, at, key, hit>>

\* An unblock command, or fw_prog has met an expired block.
Unlist(k) ==
  /\ k \in blocked /\ blocked' = blocked \ {k}
  /\ UNCHANGED <<present, running, at, key, hit>>

on_sig ==
  /\ running /\ running' = FALSE
  /\ UNCHANGED <<present, blocked, at, key, hit>>

Init ==
  /\ present = {} /\ blocked = {} /\ running = TRUE
  /\ at = "sleep" /\ key = Absent /\ hit = FALSE

Next == \/ Step \/ on_sig
        \/ \E k \in Sources : Insert(k) \/ List(k) \/ Unlist(k)

\* The scheduler runs the watch process again and again; nothing is assumed
\* of the network, the operator or the signals.
Spec == Init /\ [][Next]_vars /\ WF_vars(Step)

-----------------------------------------------------------------------------
\* A source that keeps its entry in fw_ip_stats, and whose statistics match a
\* detector whenever they are copied, is put on the block list, again and
\* again if it is taken off it, as long as watch runs; unless the walk
\* restarts again and again, because the other keys it stands on are evicted
\* (fw.cpp:309 asks for the key after one that is gone, and gets the first).
OffenderBanned ==
  \A ip \in Sources :
    <>[](/\ running /\ ip \in present
         /\ at = "check" /\ key = ip => hit)
      => []<>(ip \in blocked) \/ []<><<Restart>>_vars

\* After a signal the process ends, although the flag is only read between
\* two passes and entries come and go all the time; again unless the pass
\* that it is in restarts for ever.
SignalStopsWatch == (~running ~> at = "done") \/ []<><<Restart>>_vars

-----------------------------------------------------------------------------
(* The same without the exception, which the code does not keep.           *)

\* A signal stops watch whatever the network does.
SignalAlwaysStopsWatch == ~running ~> at = "done"
=============================================================================
