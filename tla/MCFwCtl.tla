------------------------------ MODULE MCFwCtl -------------------------------
(***************************************************************************)
(* The firewall and its commands, for the questions about the block list.  *)
(***************************************************************************)
EXTENDS FwCtl

MCFrames == {[hdr |-> "ipv4", src |-> 0, ihl |-> 5, proto |-> "other", syn |-> FALSE]}
=============================================================================
