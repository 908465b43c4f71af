------------------------------- MODULE FwMaps -------------------------------
(***************************************************************************)
(* The BPF maps that the XDP program (wall/fw_prog.c) and the command line *)
(* tool (wall/fw.cpp) share, as values: what a key is, what a lookup and   *)
(* an update mean, and the arithmetic on their 64-bit values.              *)
(*                                                                         *)
(* Addresses are numbers of AddrBits bits in network order, so that "the   *)
(* first n bits" of an address are its high bits; a map is a function from *)
(* every key to the key's value or Absent.                                 *)
(***************************************************************************)
EXTENDS Integers, FiniteSets

CONSTANTS
  AddrBits,   \* width of an IPv4 address: 32 in the code
  WordMod,    \* modulus of the __u64 arithmetic: 2^64 in the code
  NsPerSec    \* clock ticks in a second: 1000000000 in the code

ASSUME MapsAssumption ==
  /\ AddrBits \in Nat
  /\ WordMod \in Nat \ {0}
  /\ NsPerSec \in Nat \ {0}

Absent == -1                   \* bpf_map_lookup_elem returned NULL

\* The difference of two __u64: it wraps when b is the larger one.
Sub64(a, b) == (a - b) % WordMod

-----------------------------------------------------------------------------
(* CIDR ranges: struct lpm_key and the LPM trie.                           *)

\* ip & mask, for the mask that keeps the first pfx bits.
NetOf(ip, pfx) == LET span == 2^(AddrBits - pfx) IN (ip \div span) * span

\* The key that `range` and `unrange` build from "ip/pfx": the host bits of
\* the address are cleared before the trie is touched.
parse_cidr(ip, pfx) == [prefix_len |-> pfx, data |-> NetOf(ip, pfx)]

Addresses == 0..(2^AddrBits - 1)
LpmKeys == {parse_cidr(ip, pfx) : ip \in Addresses, pfx \in 0..AddrBits}

\* A lookup with prefix_len = 32 finds the longest stored prefix of ip; all
\* values are 1, so only whether one exists matters.
LpmLookup(ranges, ip) == \E k \in ranges : NetOf(ip, k.prefix_len) = k.data

-----------------------------------------------------------------------------
(* Block list values.                                                      *)

\* The value block_ip writes: 0 is a permanent block.  The product and the
\* sum are both computed in __u64.
BlockExpiry(now, sec) ==
  IF sec > 0 THEN (now + ((sec * NsPerSec) % WordMod)) % WordMod ELSE 0

\* Fault: a permanent block is taken for an expired one.
InEffect_ZeroExpired(exp, now) == exp # Absent /\ now <= exp

\* Fault: an entry drops the frame, expired or not.
InEffect_NoExpiry(exp, now) == exp # Absent

\* The test of fw_prog: the entry exp drops a frame stamped now.
InEffect(exp, now) == exp # Absent /\ (exp = 0 \/ now <= exp)

\* Keys of a map that hold a value.
Used(m) == {k \in DOMAIN m : m[k] # Absent}
=============================================================================
