------------------------------ MODULE MCFwRate ------------------------------
(***************************************************************************)
(* One source and the rate limit as the only rule.                         *)
(***************************************************************************)
EXTENDS FwRate

Ipv4(proto, syn) == [hdr |-> "ipv4", src |-> 0, ihl |-> 5, proto |-> proto, syn |-> syn]

MCFrames == {Ipv4("other", FALSE)}
FramesAndRunt == MCFrames \cup {[Ipv4("other", FALSE) EXCEPT !.hdr = "runt"]}

\* Fewer interleavings for a long counterexample: frames take no time and
\* the limit is set before the first one.
Unhurried ==
  /\ clock' # clock => \A c \in Cpus : cpu[c].pc = "idle"
  /\ enabled' = enabled
  /\ pps' # pps => clock = 0 /\ sent = NoFrames
=============================================================================
