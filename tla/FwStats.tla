------------------------------- MODULE FwStats -------------------------------
(***************************************************************************)
(* The totals that `falconwall stats` (print_stats in wall/fw.cpp) and the *)
(* loop of `falconwall start` print, beside the running firewall.          *)
(*                                                                         *)
(* fw_stats is a per-CPU array.  One lookup copies the counters of every   *)
(* CPU, word by word and without stopping the CPUs, and the program adds   *)
(* the copies up.  A copied word is only ever used for its sum, so it is   *)
(* added in the step that copies it.                                       *)
(***************************************************************************)
EXTENDS FwCtl, Sequences, Functions

CONSTANT ncpu    \* libbpf_num_possible_cpus()

ASSUME StatsAssumption == ncpu \in Nat \ {0} /\ Cpus = 0..(ncpu - 1)

VARIABLES
  reader,        \* the process that prints: where it is in the copy, its sums
  before         \* history: the true totals when the lookup began

\* Fault: the copy runs from the last field of the struct to the first.
Words_Reversed == <<"passed", "dropped", "rx">>

\* struct Counters, in the order of its fields.
Words == <<"rx", "dropped", "passed">>

Zero == [w \in Range(Words) |-> 0]

\* What the counters of all CPUs add up to at this moment.
Truth == [w \in Range(Words) |-> FoldFunction(+, 0, [c \in Cpus |-> counters[c][w]])]

\* Fault: total is declared outside the loop.
Fresh_Accumulates(total) == total

\* Counters total{}, once per line.
Fresh(total) == Zero

BeginLookup ==
  /\ reader.pc = "wait"
  /\ reader' = [pc |-> "copy", i |-> 0, w |-> 1, total |-> Fresh(reader.total)]
  /\ before' = Truth
  /\ UNCHANGED vars

\* Word w of vals[i], and its share of the total.
CopyWord ==
  /\ reader.pc = "copy"
  /\ LET w == Words[reader.w]
         lastWord == reader.w = Len(Words)
     IN  reader' =
           [pc |-> IF lastWord /\ reader.i = ncpu - 1 THEN "print" ELSE "copy",
            i |-> IF lastWord THEN reader.i + 1 ELSE reader.i,
            w |-> IF lastWord THEN 1 ELSE reader.w + 1,
            total |-> [reader.total EXCEPT ![w] = @ + counters[reader.i][w]]]
  /\ UNCHANGED <<vars, before>>

\* The line is printed; the daemon sleeps and comes again.
PrintTotal ==
  /\ reader.pc = "print"
  /\ reader' = [reader EXCEPT !.pc = "wait"]
  /\ UNCHANGED <<vars, before>>

print_stats == BeginLookup \/ CopyWord \/ PrintTotal

SInit ==
  /\ Init
  /\ reader = [pc |-> "wait", i |-> 0, w |-> 1, total |-> Zero]
  /\ before = Zero

SNext == print_stats \/ (Next /\ UNCHANGED <<reader, before>>)

svars == <<vars, reader, before>>

SSpec == SInit /\ [][SNext]_svars

-----------------------------------------------------------------------------
\* Each number of a line lies between the true total when its lookup began
\* and the true total when it is printed, although no two of the words were
\* read at the same time: no line counts a frame twice or goes backwards.
PrintedBetween ==
  reader.pc = "print" =>
    \A w \in Range(Words) : before[w] <= reader.total[w] /\ reader.total[w] <= Truth[w]

\* A line shows at most one frame for each CPU as received and not yet
\* decided.  It holds because rx is the first word of the struct: what has
\* been counted in it is dropped or passed before the other two are read.
OneUnaccounted ==
  reader.pc = "print" =>
    reader.total["rx"] <= reader.total["dropped"] + reader.total["passed"] + ncpu
=============================================================================
