----------------------------- MODULE MCFwWatch ------------------------------
(***************************************************************************)
(* The watch process beside a firewall that receives few frames; the       *)
(* thresholds of the detectors are scaled down with them.                  *)
(***************************************************************************)
EXTENDS FwWatch, TLC

Ipv4(src, proto) == [hdr |-> "ipv4", src |-> src, ihl |-> 5, proto |-> proto,
                     syn |-> proto = "tcp"]

OneSource == {Ipv4(0, "udp")}
AllKinds == {Ipv4(0, proto) : proto \in {"tcp", "udp", "icmp"}}
            \cup {[Ipv4(0, "tcp") EXCEPT !.ihl = 6], Ipv4(1, "other")}
TwoSources == {Ipv4(0, "tcp"), Ipv4(1, "other")}

CpuSymmetry == Permutations(Cpus)
=============================================================================
