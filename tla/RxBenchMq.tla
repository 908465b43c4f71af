------------------------------ MODULE RxBenchMq ------------------------------
(***************************************************************************)
(* falcon-rxbench-mq in its xdp modes (bench/rx_bench_mq.cpp): a parent    *)
(* forks one child for each queue and collects a result from each through  *)
(* a pipe.  The children share the XDP hook of the interface: every child  *)
(* attaches a program of its own, with an XSKMAP that holds its own socket *)
(* only, and attaching replaces the program of the child before.           *)
(*                                                                         *)
(* A pipe ends for its reader when the last descriptor for writing is      *)
(* closed, and fork copies every descriptor, so who holds which one is     *)
(* part of the state.                                                      *)
(***************************************************************************)
EXTENDS Naturals, FiniteSets

CONSTANTS
  num_queues,
  None,              \* no program, nothing in the pipe
  expected_packets,  \* of each queue; 0 = run for the given time
  MaxFrames          \* bound: frames that reach each queue

ASSUME MqAssumption ==
  /\ num_queues \in Nat \ {0} /\ expected_packets \in Nat /\ MaxFrames \in Nat
  /\ None \notin Nat

VARIABLES
  parent,      \* the parent: where it is, the queue it has come to
  child,       \* where the child of each queue is
  writers,     \* who holds the write end of each pipe
  pipe,        \* the result in each pipe
  results,     \* what the parent has read
  reaped,      \* children the parent has waited for
  hook,        \* whose program is attached to the interface
  rx,          \* frames in the rx ring of each child's socket
  started,     \* the child's clock runs,
  over,        \* and shows that the time is up
  packets,     \* frames each child has counted
  delivered    \* history: frames the kernel put into each child's ring

parentVars == <<parent, results, reaped>>
queueVars == <<rx, started, over, packets, delivered>>
vars == <<parentVars, child, writers, pipe, hook, queueVars>>

Queues == 0..(num_queues - 1)
Parent == num_queues                        \* as a holder of descriptors

Init ==
  /\ parent = [pc |-> "pipe", q |-> 0]
  /\ child = [q \in Queues |-> "none"]
  /\ writers = [q \in Queues |-> {}]
  /\ pipe = [q \in Queues |-> None]
  /\ results = [q \in Queues |-> None]
  /\ reaped = {}
  /\ hook = None
  /\ rx = [q \in Queues |-> 0] /\ packets = rx /\ delivered = rx
  /\ started = [q \in Queues |-> FALSE] /\ over = started

-----------------------------------------------------------------------------
(* The parent, run_multi.                                                  *)

\* The process `who` is gone, and with it its descriptors.
Closed(who) == [q \in Queues |-> writers[q] \ {who}]

\* A pipe that cannot be made ends the parent, and leaves the children.
MakePipe ==
  /\ parent.pc = "pipe"
  /\ \/ /\ parent' = [parent EXCEPT !.pc = "fork"]
        /\ writers' = [writers EXCEPT ![parent.q] = {Parent}]
     \/ /\ parent' = [parent EXCEPT !.pc = "failed"]
        /\ UNCHANGED writers
  /\ UNCHANGED <<results, reaped, child, pipe, hook, queueVars>>

\* The child inherits every write end that the parent has open.  A fork that
\* fails is not noticed: its pid is -1.
Fork ==
  /\ parent.pc = "fork"
  /\ parent' = [parent EXCEPT !.pc = "close"]
  /\ \/ /\ child' = [child EXCEPT ![parent.q] = "attach"]
        /\ writers' = [q \in Queues |-> IF Parent \in writers[q]
                                        THEN writers[q] \cup {parent.q} ELSE writers[q]]
     \/ UNCHANGED <<child, writers>>
  /\ UNCHANGED <<results, reaped, pipe, hook, queueVars>>

LastQueue == parent.q = num_queues - 1

\* Fault: the next loop begins where the one before has ended.
After_NoReset(pc, next) == [pc |-> IF LastQueue THEN next ELSE pc, q |-> parent.q + 1]

\* The loop goes on with the next queue, and after the last one the next
\* loop begins with the first.
After(pc, next) == IF LastQueue THEN [pc |-> next, q |-> 0]
                   ELSE [pc |-> pc, q |-> parent.q + 1]

\* Fault: the parent closes its write ends when all children are forked.
Kept_ToTheEnd == IF LastQueue THEN Closed(Parent) ELSE writers

\* The write ends after close(pipefd[1]) in the parent.
Kept == [writers EXCEPT ![parent.q] = @ \ {Parent}]

CloseWriteEnd ==
  /\ parent.pc = "close"
  /\ writers' = Kept
  /\ parent' = After("pipe", "read")
  /\ UNCHANGED <<results, reaped, child, pipe, hook, queueVars>>

\* The read returns a result, or nothing when nobody can write one any more:
\* the row then stays zero.
ReadResult ==
  /\ parent.pc = "read"
  /\ LET r == pipe[parent.q]
     IN  /\ r # None \/ writers[parent.q] = {}
         /\ results' = [results EXCEPT ![parent.q] = IF r # None THEN r ELSE 0]
  /\ parent' = After("read", "wait")
  /\ UNCHANGED <<reaped, child, writers, pipe, hook, queueVars>>

\* The child has ended, with its result written or with an exception.
Gone(q) == child[q] \in {"exited", "failed"}

Zombies == {q \in Queues : Gone(q)} \ reaped
Unreaped == {q \in Queues : child[q] # "none"} \ reaped

\* waitpid for the child of the queue; for a fork that failed the pid is -1
\* and any child will do.  Without one to wait for the call fails at once.
WaitChild ==
  /\ parent.pc = "wait"
  /\ LET awaited == IF child[parent.q] = "none" THEN Unreaped ELSE Unreaped \cap {parent.q}
     IN  \/ \E q \in awaited \cap Zombies : reaped' = reaped \cup {q}
         \/ awaited = {} /\ UNCHANGED reaped
  /\ parent' = After("wait", "done")
  /\ UNCHANGED <<results, child, writers, pipe, hook, queueVars>>

run_multi == MakePipe \/ Fork \/ CloseWriteEnd \/ ReadResult \/ WaitChild

-----------------------------------------------------------------------------
(* A child, run_queue.                                                     *)

\* bpf_xdp_attach replaces what is attached.  A child that cannot attach, or
\* cannot set its socket up afterwards, ends with an exception.
Attach(q) ==
  /\ child[q] = "attach"
  /\ \/ /\ hook' = q
        /\ child' = [child EXCEPT ![q] = "bind"]
        /\ UNCHANGED writers
     \/ /\ child' = [child EXCEPT ![q] = "failed"]
        /\ writers' = Closed(q)
        /\ UNCHANGED hook
  /\ UNCHANGED <<parentVars, pipe, queueVars>>

\* Fault: the program is left attached.
Detached_Not == hook

\* The hook after bpf_xdp_detach, which names the interface and no program.
Detached == None

\* The memory, the socket and its entry in the child's XSKMAP; the error paths
\* of the constructor detach.
Bind(q) ==
  /\ child[q] = "bind"
  /\ \/ /\ child' = [child EXCEPT ![q] = "recv"]
        /\ UNCHANGED <<hook, writers>>
     \/ /\ child' = [child EXCEPT ![q] = "failed"]
        /\ hook' = Detached
        /\ writers' = Closed(q)
  /\ UNCHANGED <<parentVars, pipe, queueVars>>

\* Fault: the frames that start the clock are not counted.
Counted_NotFirst(q) == IF started[q] THEN packets[q] + rx[q] ELSE packets[q]

Counted(q) == packets[q] + rx[q]

\* Fault: the time is looked at only when frames have come.
Finished_OnFrames(q) ==
  /\ rx[q] > 0
  /\ over[q] \/ (expected_packets # 0 /\ Counted(q) >= expected_packets)

\* The test at the end of the loop, for a child whose clock runs.
Finished(q) == over[q] \/ (expected_packets # 0 /\ Counted(q) >= expected_packets)

\* One turn of the loop.  Until the first frame there is no clock.  The last
\* turn asks for kernelDrops, which throws when getsockopt fails: the counts
\* are lost then.
Recv(q) ==
  /\ child[q] = "recv"
  /\ rx' = [rx EXCEPT ![q] = 0]
  /\ started' = [started EXCEPT ![q] = @ \/ rx[q] > 0]
  /\ packets' = [packets EXCEPT ![q] = Counted(q)]
  /\ \E pc \in IF started'[q] /\ Finished(q) THEN {"destroy", "unwind"} ELSE {"recv"} :
       child' = [child EXCEPT ![q] = pc]
  /\ UNCHANGED <<parentVars, writers, pipe, hook, over, delivered>>

\* The backend is destroyed on return from run_queue.
Destroy(q) ==
  /\ child[q] = "destroy"
  /\ hook' = Detached
  /\ child' = [child EXCEPT ![q] = "write"]
  /\ UNCHANGED <<parentVars, writers, pipe, queueVars>>

\* So it is when the exception leaves run_queue; main catches it and the child
\* ends without a result.
Unwind(q) ==
  /\ child[q] = "unwind"
  /\ hook' = Detached
  /\ child' = [child EXCEPT ![q] = "failed"]
  /\ writers' = Closed(q)
  /\ UNCHANGED <<parentVars, pipe, queueVars>>

\* write, close, _exit.  Nobody reads it when the parent has failed.
WriteResult(q) ==
  /\ child[q] = "write"
  /\ pipe' = [pipe EXCEPT ![q] = packets[q]]
  /\ child' = [child EXCEPT ![q] = "exited"]
  /\ writers' = Closed(q)
  /\ UNCHANGED <<parentVars, hook, queueVars>>

run_queue(q) ==
  Attach(q) \/ Bind(q) \/ Recv(q) \/ Destroy(q) \/ Unwind(q) \/ WriteResult(q)

-----------------------------------------------------------------------------
(* The kernel and the clock.                                               *)

\* A frame on queue q reaches a socket only through the map of the attached
\* program, which knows no queue but its own; other frames go up the stack.
Deliver(q) ==
  /\ hook = q /\ child[q] = "recv" /\ delivered[q] < MaxFrames
  /\ rx' = [rx EXCEPT ![q] = @ + 1]
  /\ delivered' = [delivered EXCEPT ![q] = @ + 1]
  /\ UNCHANGED <<parentVars, child, writers, pipe, hook, started, over, packets>>

TimeUp(q) ==
  /\ started[q] /\ ~over[q]
  /\ over' = [over EXCEPT ![q] = TRUE]
  /\ UNCHANGED <<parentVars, child, writers, pipe, hook, rx, started, packets, delivered>>

Next == run_multi \/ \E q \in Queues : run_queue(q) \/ Deliver(q) \/ TimeUp(q)

\* The scheduler runs every process and time passes; frames may never come.
Spec == /\ Init /\ [][Next]_vars
        /\ WF_vars(run_multi)
        /\ \A q \in Queues : WF_vars(run_queue(q)) /\ WF_vars(TimeUp(q))

-----------------------------------------------------------------------------
\* Every variable holds a value of its kind; the index of the parent's loops
\* stays below num_queues.
TypeOK ==
  /\ parent \in [pc : {"pipe", "fork", "close", "read", "wait", "done", "failed"}, q : Queues]
  /\ child \in [Queues -> {"none", "attach", "bind", "recv", "destroy", "unwind", "write",
                         "exited", "failed"}]
  /\ writers \in [Queues -> SUBSET (Queues \cup {Parent})]
  /\ pipe \in [Queues -> 0..MaxFrames \cup {None}]
  /\ results \in [Queues -> 0..MaxFrames \cup {None}]
  /\ reaped \subseteq Queues /\ hook \in Queues \cup {None}
  /\ started \in [Queues -> BOOLEAN] /\ over \in [Queues -> BOOLEAN]
  /\ {rx, packets, delivered} \subseteq [Queues -> 0..MaxFrames]

\* In the report of the parent the row of a queue shows the frames that the
\* kernel gave to its child until the child stopped reading: those that
\* started the clock are counted, and no row is taken for empty while its
\* child can still write it.  The exception is a child that was not forked or
\* ended with an exception, after frames were counted too: its row is zero,
\* as if no frame had come.
ReportIsTrue ==
  parent.pc = "done" =>
    \A q \in Queues : IF child[q] \in {"none", "failed"} THEN results[q] = 0
                      ELSE results[q] + rx[q] = delivered[q]

\* When all children have ended there is no program on the interface, although
\* they replaced each other's, and each detached whatever it found there.
NoProgramLeft == (\A q \in Queues : child[q] = "none" \/ Gone(q)) => hook = None

\* A child that has received a frame ends, even if another one takes the hook
\* away from it and no further frame comes.
StartedEnds == \A q \in Queues : started[q] ~> Gone(q)

\* The parent is not held up at a queue whose child has ended, or was never
\* forked, by the other children: neither in the read, whose pipe they must
\* not keep open, nor in the wait.
NotHeldUp ==
  \A q \in Queues, l \in {"read", "wait"} :
    parent = [pc |-> l, q |-> q] /\ (child[q] = "none" \/ Gone(q))
      ~> parent # [pc |-> l, q |-> q]

-----------------------------------------------------------------------------
(* A claim of the program that the code does not keep.                     *)

\* rx_bench_mq.cpp:234 "xdp <interface> <seconds> <queues>": the run ends after
\* the given time, if the network never stops sending to every queue.
TrafficSpec == Spec /\ \A q \in Queues : SF_vars(Deliver(q))
RunEnds == <>(parent.pc \in {"done", "failed"})
=============================================================================
