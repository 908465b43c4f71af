----------------------------- MODULE MCFwVerdict -----------------------------
(***************************************************************************)
(* Two CPUs, the whole rule set and every command, on two-bit addresses.   *)
(***************************************************************************)
EXTENDS FwVerdict, TLC

Frame(hdr, src, proto, syn) ==
  [hdr |-> hdr, src |-> src, ihl |-> 5, proto |-> proto, syn |-> syn]

MCFrames == {Frame(hdr, 2, "other", FALSE) : hdr \in {"ipv4", "other", "short"}}

CpuSymmetry == Permutations(Cpus)

MCCidrArgs == {<<3, 1>>}
=============================================================================
