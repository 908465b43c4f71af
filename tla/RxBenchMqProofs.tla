--------------------------- MODULE RxBenchMqProofs ---------------------------
(***************************************************************************)
(* Proofs about falcon-rxbench-mq, for any number of queues and any number *)
(* of frames.                                                              *)
(***************************************************************************)
EXTENDS RxBenchMq, TLAPS

-----------------------------------------------------------------------------
(* The inductive invariant.                                                *)

\* What the kernel delivered is counted or still in the ring.
Balanced == \A q \in Queues : packets[q] + rx[q] = delivered[q]

\* The program on the interface belongs to a child that is going to detach.
HookHasOwner ==
  \A q \in Queues : hook = q => child[q] \in {"bind", "recv", "destroy", "unwind"}

\* The parent forks the children in order, each with its pipe open.
ForkedInOrder ==
  /\ parent.pc = "pipe" => \A q \in Queues : q >= parent.q => child[q] = "none"
  /\ parent.pc = "fork" => /\ Parent \in writers[parent.q]
                           /\ \A q \in Queues : q >= parent.q => child[q] = "none"
  /\ parent.pc = "close" => \A q \in Queues : q > parent.q => child[q] = "none"

\* A child that lives can write its result.
LivingCanWrite ==
  \A q \in Queues : child[q] # "none" /\ ~Gone(q) => q \in writers[q]

\* A result is written last, and only by a child that ends without exception;
\* a child that has no socket yet has received nothing.
WrittenLast ==
  \A q \in Queues :
    /\ pipe[q] # None => child[q] = "exited" /\ pipe[q] = packets[q]
    /\ child[q] \in {"none", "attach", "bind"} => delivered[q] = 0
    /\ child[q] = "exited" => pipe[q] # None

\* A row that the parent has read is final.
Final(q) ==
  \/ child[q] \in {"none", "failed"} /\ results[q] = 0
  \/ child[q] = "exited" /\ results[q] + rx[q] = delivered[q]

ReadSoFar ==
  /\ parent.pc = "read" => \A q \in Queues : q < parent.q => Final(q)
  /\ parent.pc \in {"wait", "done"} => \A q \in Queues : Final(q)

MqInv ==
  /\ TypeOK /\ Balanced /\ HookHasOwner /\ ForkedInOrder /\ LivingCanWrite
  /\ WrittenLast /\ ReadSoFar

-----------------------------------------------------------------------------
(* Its preservation, action by action.                                     *)

\* The queues are natural numbers, and the parent is none of them.
LEMMA QueueFacts ==
  /\ \A q \in Queues : q \in Nat /\ q # Parent /\ q # None
  /\ 0 \in Queues
  /\ \A q \in Queues : q < num_queues /\ (q # num_queues - 1 => q + 1 \in Queues)
  BY MqAssumption DEF Queues, Parent

\* A new pipe is the parent's alone, and no child of it is alive.
LEMMA MakePipeInv == ASSUME MqInv, MakePipe PROVE MqInv'
<1> USE QueueFacts, MqAssumption
<1>1. TypeOK'
    BY DEF MqInv, TypeOK, queueVars, MakePipe
<1>2. (Balanced /\ HookHasOwner)'
    BY DEF MqInv, Balanced, HookHasOwner, WrittenLast, ForkedInOrder, MakePipe, queueVars, TypeOK
<1>3. ForkedInOrder'
    BY DEF MqInv, ForkedInOrder, TypeOK, MakePipe
<1>4. LivingCanWrite'
    BY DEF MqInv, ForkedInOrder, LivingCanWrite, Gone, TypeOK, MakePipe
<1>5. WrittenLast'
    BY DEF MqInv, ForkedInOrder, WrittenLast, TypeOK, MakePipe, queueVars
<1>6. ReadSoFar'
    BY DEF MqInv, ReadSoFar, Final, TypeOK, MakePipe, queueVars
<1> QED BY <1>1, <1>2, <1>3, <1>4, <1>5, <1>6 DEF MqInv

\* The new child inherits the write end of its own pipe.
LEMMA ForkInv == ASSUME MqInv, Fork PROVE MqInv'
<1> USE QueueFacts, MqAssumption
<1>1. TypeOK'
    BY DEF MqInv, TypeOK, queueVars, Fork
<1>2. (Balanced /\ HookHasOwner)'
    BY DEF MqInv, Balanced, HookHasOwner, WrittenLast, ForkedInOrder, Fork, queueVars, TypeOK
<1>3. ForkedInOrder'
    BY DEF MqInv, ForkedInOrder, TypeOK, Fork
<1>4. LivingCanWrite'
    BY DEF MqInv, ForkedInOrder, LivingCanWrite, Gone, TypeOK, Fork
<1>5. WrittenLast'
    BY DEF MqInv, ForkedInOrder, WrittenLast, TypeOK, Fork, queueVars
<1>6. ReadSoFar'
    BY DEF MqInv, ReadSoFar, Final, TypeOK, Fork, queueVars
<1> QED BY <1>1, <1>2, <1>3, <1>4, <1>5, <1>6 DEF MqInv

\* The parent gives up its own descriptor and no other.
LEMMA CloseWriteEndInv == ASSUME MqInv, CloseWriteEnd PROVE MqInv'
<1> USE QueueFacts, MqAssumption
<1>1. TypeOK'
    BY DEF MqInv, TypeOK, queueVars, CloseWriteEnd, After, LastQueue, Kept
<1>2. (Balanced /\ HookHasOwner)'
    BY DEF MqInv, Balanced, HookHasOwner, WrittenLast, ForkedInOrder, CloseWriteEnd, queueVars, TypeOK
<1>3. ForkedInOrder'
    BY DEF MqInv, ForkedInOrder, TypeOK, CloseWriteEnd, After, LastQueue, Kept
<1>4. LivingCanWrite'
    BY DEF MqInv, ForkedInOrder, LivingCanWrite, Gone, TypeOK, CloseWriteEnd, After, LastQueue, Kept
<1>5. WrittenLast'
    BY DEF MqInv, ForkedInOrder, WrittenLast, TypeOK, CloseWriteEnd, queueVars
<1>6. ReadSoFar'
    BY DEF MqInv, ReadSoFar, Final, TypeOK, CloseWriteEnd, queueVars, After, LastQueue, Kept
<1> QED BY <1>1, <1>2, <1>3, <1>4, <1>5, <1>6 DEF MqInv

\* A row is read from the child's result, or is zero when the child has ended
\* without one.
LEMMA ReadResultInv == ASSUME MqInv, ReadResult PROVE MqInv'
<1> USE QueueFacts, MqAssumption
<1>1. TypeOK'
    BY DEF MqInv, TypeOK, queueVars, ReadResult, After, LastQueue
<1>2. (Balanced /\ HookHasOwner)'
    BY DEF MqInv, Balanced, HookHasOwner, WrittenLast, ForkedInOrder, ReadResult, queueVars, TypeOK
<1>3. ForkedInOrder'
    BY DEF MqInv, ForkedInOrder, TypeOK, ReadResult, After, LastQueue
<1>4. LivingCanWrite'
    BY DEF MqInv, ForkedInOrder, LivingCanWrite, Gone, TypeOK, ReadResult, After, LastQueue
<1>5. WrittenLast'
    BY DEF MqInv, ForkedInOrder, WrittenLast, TypeOK, ReadResult, queueVars
<1>6. ReadSoFar'
    <2> PICK p \in Queues : p = parent.q
        BY DEF MqInv, TypeOK
    <2>0. p = parent.q /\ parent.pc = "read"
        BY DEF ReadResult
    <2>1. child[p] = "none" \/ Gone(p)
        BY <2>0 DEF MqInv, TypeOK, ReadResult, LivingCanWrite, WrittenLast, Gone
    <2>2. results' = [results EXCEPT ![p] = IF pipe[p] # None THEN pipe[p] ELSE 0]
        BY DEF ReadResult
    <2>3. Final(p)'
        <3>1. results'[p] = IF pipe[p] # None THEN pipe[p] ELSE 0
            BY <2>2 DEF MqInv, TypeOK
        <3>2. packets[p] + rx[p] = delivered[p] /\ rx[p] \in Nat /\ packets[p] \in Nat
            BY DEF MqInv, TypeOK, Balanced
        <3>3. child' = child /\ rx' = rx /\ delivered' = delivered
            BY DEF ReadResult, queueVars
        <3>4. CASE child[p] = "exited"
            <4>1. pipe[p] # None /\ pipe[p] = packets[p]
                BY <3>4 DEF MqInv, WrittenLast
            <4> QED BY <3>1, <3>2, <3>3, <3>4, <4>1 DEF Final
        <3>5. CASE child[p] \in {"none", "failed"}
            <4>1. pipe[p] = None
                BY <3>5 DEF MqInv, WrittenLast
            <4> QED BY <3>1, <3>3, <3>5, <4>1 DEF Final
        <3> QED BY <2>1, <3>4, <3>5 DEF Gone
    <2>4. \A q \in Queues : q # p /\ Final(q) => Final(q)'
        BY DEF Final, ReadResult, queueVars, MqInv, TypeOK
    <2>5. \A q \in Queues : q < p => Final(q)
        BY <2>0 DEF MqInv, ReadSoFar
    <2>6. parent' = After("read", "wait")
        BY DEF ReadResult
    <2>7. CASE p = num_queues - 1
        BY <2>0, <2>3, <2>4, <2>5, <2>6, <2>7 DEF After, LastQueue, ReadSoFar, Queues
    <2>8. CASE p # num_queues - 1
        <3>1. parent' = [pc |-> "read", q |-> p + 1]
            BY <2>6, <2>8 DEF After, LastQueue
        <3>2. \A q \in Queues : q < p + 1 => q = p \/ q < p
            BY <2>0
        <3> QED BY <2>3, <2>4, <2>5, <3>1, <3>2 DEF ReadSoFar
    <2> QED BY <2>7, <2>8
<1> QED BY <1>1, <1>2, <1>3, <1>4, <1>5, <1>6 DEF MqInv

\* Waiting changes nothing that the report says.
LEMMA WaitChildInv == ASSUME MqInv, WaitChild PROVE MqInv'
<1> USE QueueFacts, MqAssumption
<1>1. TypeOK'
    BY DEF MqInv, TypeOK, queueVars, WaitChild, After, LastQueue, Zombies, Unreaped
<1>2. (Balanced /\ HookHasOwner)'
    BY DEF MqInv, Balanced, HookHasOwner, WrittenLast, ForkedInOrder, WaitChild, queueVars, TypeOK
<1>3. ForkedInOrder'
    BY DEF MqInv, ForkedInOrder, TypeOK, WaitChild, After, LastQueue
<1>4. LivingCanWrite'
    BY DEF MqInv, ForkedInOrder, LivingCanWrite, Gone, TypeOK, WaitChild, After, LastQueue
<1>5. WrittenLast'
    BY DEF MqInv, ForkedInOrder, WrittenLast, TypeOK, WaitChild, queueVars
<1>6. ReadSoFar'
    BY DEF MqInv, ReadSoFar, Final, TypeOK, WaitChild, queueVars, After, LastQueue
<1> QED BY <1>1, <1>2, <1>3, <1>4, <1>5, <1>6 DEF MqInv

\* A child that attaches takes the hook over and will give it back; one that
\* cannot has received nothing.
LEMMA AttachInv == ASSUME MqInv, NEW q \in Queues, Attach(q) PROVE MqInv'
<1> USE QueueFacts, MqAssumption
<1>1. TypeOK'
    BY DEF MqInv, TypeOK, Balanced, Attach, parentVars, queueVars, Closed
<1>2. (Balanced /\ HookHasOwner)'
    BY DEF MqInv, Balanced, HookHasOwner, Attach, queueVars, TypeOK, Closed
<1>3. ForkedInOrder'
    BY DEF MqInv, ForkedInOrder, TypeOK, Attach, parentVars, Closed
<1>4. LivingCanWrite'
    BY DEF MqInv, LivingCanWrite, Gone, TypeOK, Attach, Closed
<1>5. WrittenLast'
    BY DEF MqInv, WrittenLast, TypeOK, Attach, queueVars, Closed
<1>6. ReadSoFar'
    BY DEF MqInv, ReadSoFar, Final, TypeOK, Attach, parentVars, queueVars, Closed
<1> QED BY <1>1, <1>2, <1>3, <1>4, <1>5, <1>6 DEF MqInv

\* A child that cannot bind detaches, and has received nothing.
LEMMA BindInv == ASSUME MqInv, NEW q \in Queues, Bind(q) PROVE MqInv'
<1> USE QueueFacts, MqAssumption
<1>1. TypeOK'
    BY DEF MqInv, TypeOK, Balanced, Bind, parentVars, queueVars, Closed, Detached
<1>2. (Balanced /\ HookHasOwner)'
    BY DEF MqInv, Balanced, HookHasOwner, Bind, queueVars, TypeOK, Closed, Detached
<1>3. ForkedInOrder'
    BY DEF MqInv, ForkedInOrder, TypeOK, Bind, parentVars, Closed, Detached
<1>4. LivingCanWrite'
    BY DEF MqInv, LivingCanWrite, Gone, TypeOK, Bind, Closed, Detached
<1>5. WrittenLast'
    BY DEF MqInv, WrittenLast, TypeOK, Bind, queueVars, Closed, Detached
<1>6. ReadSoFar'
    BY DEF MqInv, ReadSoFar, Final, TypeOK, Bind, parentVars, queueVars, Closed, Detached
<1> QED BY <1>1, <1>2, <1>3, <1>4, <1>5, <1>6 DEF MqInv

\* What is taken from the ring is counted.
LEMMA RecvInv == ASSUME MqInv, NEW q \in Queues, Recv(q) PROVE MqInv'
<1> USE QueueFacts, MqAssumption
<1>1. TypeOK'
    BY DEF MqInv, TypeOK, Balanced, Recv, parentVars, queueVars, Counted
<1>2. (Balanced /\ HookHasOwner)'
    BY DEF MqInv, Balanced, HookHasOwner, Recv, queueVars, TypeOK, Counted
<1>3. ForkedInOrder'
    BY DEF MqInv, ForkedInOrder, TypeOK, Recv, parentVars, Counted
<1>4. LivingCanWrite'
    BY DEF MqInv, LivingCanWrite, Gone, TypeOK, Recv, Counted
<1>5. WrittenLast'
    BY DEF MqInv, WrittenLast, TypeOK, Recv, queueVars, Counted
<1>6. ReadSoFar'
    BY DEF MqInv, ReadSoFar, Final, TypeOK, Recv, parentVars, queueVars, Counted
<1> QED BY <1>1, <1>2, <1>3, <1>4, <1>5, <1>6 DEF MqInv

\* The child detaches whatever is attached.
LEMMA DestroyInv == ASSUME MqInv, NEW q \in Queues, Destroy(q) PROVE MqInv'
<1> USE QueueFacts, MqAssumption
<1>1. TypeOK'
    BY DEF MqInv, TypeOK, Balanced, Destroy, parentVars, queueVars, Detached
<1>2. (Balanced /\ HookHasOwner)'
    BY DEF MqInv, Balanced, HookHasOwner, Destroy, queueVars, TypeOK, Detached
<1>3. ForkedInOrder'
    BY DEF MqInv, ForkedInOrder, TypeOK, Destroy, parentVars, Detached
<1>4. LivingCanWrite'
    BY DEF MqInv, LivingCanWrite, Gone, TypeOK, Destroy, Detached
<1>5. WrittenLast'
    BY DEF MqInv, WrittenLast, TypeOK, Destroy, queueVars, Detached
<1>6. ReadSoFar'
    BY DEF MqInv, ReadSoFar, Final, TypeOK, Destroy, parentVars, queueVars, Detached
<1> QED BY <1>1, <1>2, <1>3, <1>4, <1>5, <1>6 DEF MqInv

\* So it does on an exception, and ends without a result.
LEMMA UnwindInv == ASSUME MqInv, NEW q \in Queues, Unwind(q) PROVE MqInv'
<1> USE QueueFacts, MqAssumption
<1>1. TypeOK'
    BY DEF MqInv, TypeOK, Balanced, Unwind, parentVars, queueVars, Detached, Closed
<1>2. (Balanced /\ HookHasOwner)'
    BY DEF MqInv, Balanced, HookHasOwner, Unwind, queueVars, TypeOK, Detached, Closed
<1>3. ForkedInOrder'
    BY DEF MqInv, ForkedInOrder, TypeOK, Unwind, parentVars, Detached, Closed
<1>4. LivingCanWrite'
    BY DEF MqInv, LivingCanWrite, Gone, TypeOK, Unwind, Detached, Closed
<1>5. WrittenLast'
    BY DEF MqInv, WrittenLast, TypeOK, Unwind, queueVars, Detached, Closed
<1>6. ReadSoFar'
    BY DEF MqInv, ReadSoFar, Final, TypeOK, Unwind, parentVars, queueVars, Detached, Closed
<1> QED BY <1>1, <1>2, <1>3, <1>4, <1>5, <1>6 DEF MqInv

\* The result is what the child has counted, and it is final.
LEMMA WriteResultInv == ASSUME MqInv, NEW q \in Queues, WriteResult(q) PROVE MqInv'
<1> USE QueueFacts, MqAssumption
<1>1. TypeOK'
    BY DEF MqInv, TypeOK, Balanced, WriteResult, parentVars, queueVars, Closed
<1>2. (Balanced /\ HookHasOwner)'
    BY DEF MqInv, Balanced, HookHasOwner, WriteResult, queueVars, TypeOK, Closed
<1>3. ForkedInOrder'
    BY DEF MqInv, ForkedInOrder, TypeOK, WriteResult, parentVars, Closed
<1>4. LivingCanWrite'
    BY DEF MqInv, LivingCanWrite, Gone, TypeOK, WriteResult, Closed
<1>5. WrittenLast'
    BY DEF MqInv, WrittenLast, TypeOK, WriteResult, queueVars, Closed
<1>6. ReadSoFar'
    BY DEF MqInv, ReadSoFar, Final, TypeOK, WriteResult, parentVars, queueVars, Closed
<1> QED BY <1>1, <1>2, <1>3, <1>4, <1>5, <1>6 DEF MqInv

\* A frame is put only into the ring of a child that still reads.
LEMMA DeliverInv == ASSUME MqInv, NEW q \in Queues, Deliver(q) PROVE MqInv'
<1> USE QueueFacts, MqAssumption
<1>1. TypeOK'
    BY DEF MqInv, TypeOK, Balanced, Deliver, parentVars, queueVars
<1>2. (Balanced /\ HookHasOwner)'
    BY DEF MqInv, Balanced, HookHasOwner, Deliver, queueVars, TypeOK
<1>3. ForkedInOrder'
    BY DEF MqInv, ForkedInOrder, TypeOK, Deliver, parentVars
<1>4. LivingCanWrite'
    BY DEF MqInv, LivingCanWrite, Gone, TypeOK, Deliver
<1>5. WrittenLast'
    BY DEF MqInv, WrittenLast, TypeOK, Deliver, queueVars
<1>6. ReadSoFar'
    BY DEF MqInv, ReadSoFar, Final, TypeOK, Deliver, parentVars, queueVars
<1> QED BY <1>1, <1>2, <1>3, <1>4, <1>5, <1>6 DEF MqInv

\* The clock changes nothing but itself.
LEMMA TimeUpInv == ASSUME MqInv, NEW q \in Queues, TimeUp(q) PROVE MqInv'
<1> USE QueueFacts, MqAssumption
<1>1. TypeOK'
    BY DEF MqInv, TypeOK, Balanced, TimeUp, parentVars, queueVars
<1>2. (Balanced /\ HookHasOwner)'
    BY DEF MqInv, Balanced, HookHasOwner, TimeUp, queueVars, TypeOK
<1>3. ForkedInOrder'
    BY DEF MqInv, ForkedInOrder, TypeOK, TimeUp, parentVars
<1>4. LivingCanWrite'
    BY DEF MqInv, LivingCanWrite, Gone, TypeOK, TimeUp
<1>5. WrittenLast'
    BY DEF MqInv, WrittenLast, TypeOK, TimeUp, queueVars
<1>6. ReadSoFar'
    BY DEF MqInv, ReadSoFar, Final, TypeOK, TimeUp, parentVars, queueVars
<1> QED BY <1>1, <1>2, <1>3, <1>4, <1>5, <1>6 DEF MqInv

\* Every step preserves the invariant.
LEMMA MqStep == MqInv /\ [Next]_vars => MqInv'
<1> SUFFICES ASSUME MqInv, [Next]_vars PROVE MqInv'
    OBVIOUS
<1>1. CASE run_multi
    BY <1>1, MakePipeInv, ForkInv, CloseWriteEndInv, ReadResultInv, WaitChildInv DEF run_multi
<1>2. ASSUME NEW q \in Queues, run_queue(q) PROVE MqInv'
    BY <1>2, AttachInv, BindInv, RecvInv, DestroyInv, UnwindInv, WriteResultInv DEF run_queue
<1>3. ASSUME NEW q \in Queues, Deliver(q) \/ TimeUp(q) PROVE MqInv'
    BY <1>3, DeliverInv, TimeUpInv
<1>4. CASE UNCHANGED vars
    BY <1>4 DEF vars, parentVars, queueVars, MqInv, TypeOK, Balanced, HookHasOwner,
                ForkedInOrder, LivingCanWrite, Gone, WrittenLast, ReadSoFar, Final
<1> QED BY <1>1, <1>2, <1>3, <1>4 DEF Next

\* The initial state satisfies the invariant.
LEMMA MqInit == Init => MqInv
<1> USE QueueFacts, MqAssumption
<1> SUFFICES ASSUME Init PROVE MqInv
    OBVIOUS
<1>1. TypeOK
    BY DEF Init, TypeOK
<1>2. Balanced /\ HookHasOwner /\ ForkedInOrder
    BY DEF Init, Balanced, HookHasOwner, ForkedInOrder
<1>3. LivingCanWrite /\ WrittenLast /\ ReadSoFar
    BY DEF Init, LivingCanWrite, Gone, WrittenLast, ReadSoFar
<1> QED BY <1>1, <1>2, <1>3 DEF MqInv

\* The invariant holds in every state of the benchmark.
LEMMA MqHolds == Spec => []MqInv
  BY MqInit, MqStep, PTL DEF Spec

-----------------------------------------------------------------------------
(* The theorems.                                                           *)

\* The state of the parent and of every child keeps its type, and no loop of
\* the parent indexes a queue that does not exist.
THEOREM MqTypes == Spec => []TypeOK
<1>1. MqInv => TypeOK
    BY DEF MqInv
<1> QED BY <1>1, MqHolds, PTL

\* Whatever the children do to each other's programs, the report shows for
\* each queue what its child received, unless that child ended with an
\* exception: no row is lost, counted twice, or taken for empty too early.
THEOREM ReportTrue == Spec => []ReportIsTrue
<1>1. MqInv => ReportIsTrue
    BY DEF MqInv, ReportIsTrue, ReadSoFar, Final
<1> QED BY <1>1, MqHolds, PTL

\* After the last child has ended, on an error path or not, the interface has
\* no program.
THEOREM HookFreed == Spec => []NoProgramLeft
<1>1. MqInv => NoProgramLeft
    BY DEF MqInv, NoProgramLeft, HookHasOwner, Gone, TypeOK
<1> QED BY <1>1, MqHolds, PTL
=============================================================================
