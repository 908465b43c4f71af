----------------------------- MODULE MCFwStats ------------------------------
(***************************************************************************)
(* Two CPUs that drop short frames and decide good ones over several       *)
(* steps, and the reader of their counters.                                *)
(***************************************************************************)
EXTENDS FwStats

MCFrames == {[hdr |-> hdr, src |-> 0, ihl |-> 5, proto |-> "other", syn |-> FALSE] :
               hdr \in {"short", "ipv4"}}
=============================================================================
