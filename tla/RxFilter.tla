------------------------------ MODULE RxFilter ------------------------------
(***************************************************************************)
(* Which frames the AF_XDP and the AF_PACKET backend receive: the XDP      *)
(* program falcon_xdp_redirect (src/backend/af_xdp.bpf.c), and the classic *)
(* BPF program that the constructor of AfPacketBackend attaches.  The one  *)
(* is C with bounds checks, the other a list of instructions with relative *)
(* jumps and absolute offsets.                                             *)
(*                                                                         *)
(* A frame is its length and the fields that either of them loads.         *)
(***************************************************************************)
EXTENDS Naturals, Sequences

CONSTANT MaxLen    \* bound: length of a frame

ASSUME FilterAssumption == MaxLen \in Nat

\* h12 is the EtherType, b14 the IHL, b20 the next header of IPv6, b23 the
\* protocol of IPv4; h36 and h56 are where the UDP port is behind an IPv4
\* header without options and behind an IPv6 header.
WireFrames == [len : 0..MaxLen, h12 : {"IP", "IPV6", "other"}, b14 : {5, 6},
               b20 : {"UDP", "other"}, b23 : {"UDP", "other"},
               h36 : {"9100", "other"}, h56 : {"9100", "other"}]

-----------------------------------------------------------------------------
(* af_xdp.bpf.c.  Each header is looked at only if it ends in the frame.   *)

ethhdr == 14
iphdr == 20
ipv6hdr == 40
udphdr == 8

\* TRUE: the frame is redirected to the socket; FALSE: XDP_PASS.
falcon_xdp_redirect(f) ==
  /\ ethhdr <= f.len
  /\ \/ /\ f.h12 = "IP"
        /\ ethhdr + iphdr <= f.len /\ f.b23 = "UDP" /\ f.b14 = 5
        /\ ethhdr + iphdr + udphdr <= f.len /\ f.h36 = "9100"
     \/ /\ f.h12 = "IPV6"
        /\ ethhdr + ipv6hdr <= f.len /\ f.b20 = "UDP"
        /\ ethhdr + ipv6hdr + udphdr <= f.len /\ f.h56 = "9100"

-----------------------------------------------------------------------------
(* af_packet.cpp: the filter and a machine for it.                         *)

LD(field, off, size) == [op |-> "ld", field |-> field, end |-> off + size]
JEQ(k, jt, jf) == [op |-> "jeq", k |-> k, jt |-> jt, jf |-> jf]
RET(bytes) == [op |-> "ret", bytes |-> bytes]

\* Fault: the jump for a frame that is not IPv4 goes one instruction too far.
filter_JumpTooFar ==
  << LD("h12", 12, 2), JEQ("IP", 0, 5),
     LD("b23", 23, 1), JEQ("UDP", 0, 7),
     LD("h36", 36, 2), JEQ("9100", 6, 5),
     JEQ("IPV6", 0, 4),
     LD("b20", 20, 1), JEQ("UDP", 0, 2),
     LD("h56", 56, 2), JEQ("9100", 1, 0),
     RET("none"), RET("all") >>

filter ==
  << LD("h12", 12, 2), JEQ("IP", 0, 4),
     LD("b23", 23, 1), JEQ("UDP", 0, 7),
     LD("h36", 36, 2), JEQ("9100", 6, 5),
     JEQ("IPV6", 0, 4),
     LD("b20", 20, 1), JEQ("UDP", 0, 2),
     LD("h56", 56, 2), JEQ("9100", 1, 0),
     RET("none"), RET("all") >>

\* What the accumulator may hold.
Loaded == {"nothing", "IP", "IPV6", "UDP", "9100", "other"}

\* How much of a frame instruction i lets into the ring when the accumulator
\* is a, given the same of the instructions behind it (run).  A load past the
\* end of the frame rejects it.
Execute(f, run, i, a) ==
  LET ins == filter[i]
  IN  CASE ins.op = "ld"  -> IF ins.end <= f.len THEN run[i + 1][f[ins.field]] ELSE "none"
        [] ins.op = "jeq" -> run[i + 1 + (IF a = ins.k THEN ins.jt ELSE ins.jf)][a]
        [] ins.op = "ret" -> ins.bytes

\* TRUE: the frame goes into the ring.
Accepted(f) ==
  LET run[i \in 1..Len(filter)] == [a \in Loaded |-> Execute(f, run, i, a)]
  IN  run[1]["nothing"] = "all"

-----------------------------------------------------------------------------
\* A frame whose UDP header ends in the frame, behind an IP header of fixed
\* length.
Plain(f) == \/ f.h12 = "IP" /\ f.b14 = 5 /\ ethhdr + iphdr + udphdr <= f.len
            \/ f.h12 = "IPV6" /\ ethhdr + ipv6hdr + udphdr <= f.len

\* What the XDP program redirects the BPF filter accepts, and it accepts
\* nothing else that is plain.
SameTraffic ==
  \A f \in WireFrames :
    /\ falcon_xdp_redirect(f) => Accepted(f)
    /\ Accepted(f) /\ ~falcon_xdp_redirect(f) => ~Plain(f) /\ f.h12 \in {"IP", "IPV6"}
=============================================================================
