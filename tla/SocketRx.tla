------------------------------ MODULE SocketRx ------------------------------
(***************************************************************************)
(* SocketBackend (src/backend/socket.cpp): a non-blocking UDP socket read  *)
(* with recvmmsg into kBATCH slots of one buffer.  One recv calls recvmmsg *)
(* until the socket is empty or the caller's array is full, each time into *)
(* the same slots.                                                         *)
(***************************************************************************)
EXTENDS Naturals, Sequences

CONSTANTS
  kBATCH,      \* number of slots
  ArraySize,   \* the size of the caller's array of Frames
  SocketQueue, \* number of datagrams the kernel keeps for the socket
  MaxFrames    \* bound: datagrams that arrive

\* The callers use arrays of 64, 256 and 2048 Frames, and kBATCH is 64.
ASSUME SocketAssumption ==
  /\ kBATCH \in Nat \ {0} /\ ArraySize \in Nat \ {0} /\ ArraySize % kBATCH = 0
  /\ SocketQueue \in Nat /\ MaxFrames \in Nat

VARIABLES
  pc,          \* where the thread that owns the backend is
  queue,       \* the socket's receive queue
  slots,       \* the datagram in each slot of buffer_, 0 when there was none
  out,         \* the slots behind the caller's Frames
  packets,     \* stats_.packets
  arrived      \* number of datagrams that arrived

vars == <<pc, queue, slots, out, packets, arrived>>

Slots == 1..kBATCH
Lesser(a, b) == IF a <= b THEN a ELSE b

Init ==
  /\ pc = "off" /\ queue = <<>> /\ slots = [s \in Slots |-> 0]
  /\ out = <<>> /\ packets = 0 /\ arrived = 0

\* Fault: every message is given the start of the buffer.
iov_base_Shared(i) == 1

\* Where the i-th message of a recvmmsg goes.
iov_base(i) == i

\* The constructor binds the socket and sets up epoll and the slots, or throws.
Construct ==
  /\ pc = "off"
  /\ pc' \in {"idle", "thrown"}
  /\ UNCHANGED <<queue, slots, out, packets, arrived>>

Destroy ==
  /\ pc = "idle"
  /\ pc' = "destroyed"
  /\ queue' = <<>> /\ out' = <<>>
  /\ UNCHANGED <<slots, packets, arrived>>

Call ==
  /\ pc = "idle"
  /\ pc' = "epoll"
  /\ out' = <<>>
  /\ UNCHANGED <<queue, slots, packets, arrived>>

\* Fault: epoll reports the socket only when a batch is there.
Readable_FullBatch == Len(queue) >= kBATCH

Readable == queue # <<>>

\* epoll_wait returns when there is a datagram, or after 100 ms.
EpollWait ==
  /\ pc = "epoll"
  /\ pc' = IF Readable THEN "recvmmsg" ELSE "idle"
  /\ UNCHANGED <<queue, slots, out, packets, arrived>>

\* One recvmmsg of `got` datagrams into the slots, and the Frames for them.
Take(got) ==
  /\ slots' = [s \in Slots |-> LET I == {i \in 1..got : iov_base(i) = s}
                               IN  IF I = {} THEN slots[s]
                                   ELSE queue[CHOOSE i \in I : \A j \in I : j <= i]]
  /\ out' = out \o [i \in 1..got |-> iov_base(i)]
  /\ packets' = packets + got
  /\ queue' = SubSeq(queue, got + 1, Len(queue))

\* Fault: the loop ends with a short read only.
Stop_NoLimit(got, n, count) == got < n

Stop(got, n, count) == got < n \/ count >= ArraySize

\* Read up to n datagrams; stop on a short read (none at all is EAGAIN) and
\* when the caller's array is full.
RecvMmsg ==
  /\ pc = "recvmmsg"
  /\ LET n == Lesser(ArraySize, kBATCH)
         got == Lesser(n, Len(queue))
     IN  /\ Take(got)
         /\ pc' = IF Stop(got, n, Len(out')) THEN "idle" ELSE "recvmmsg"
  /\ UNCHANGED arrived

\* recvmmsg fails for another reason: recv throws.
RecvFails ==
  /\ pc = "recvmmsg"
  /\ pc' = "failed"
  /\ UNCHANGED <<queue, slots, out, packets, arrived>>

recvImpl == Call \/ EpollWait \/ RecvMmsg

\* A datagram arrives: the kernel queues it, or drops it when the queue is full.
Receive ==
  /\ pc \notin {"off", "thrown", "failed", "destroyed"} /\ arrived < MaxFrames
  /\ arrived' = arrived + 1
  /\ queue' = IF Len(queue) < SocketQueue THEN Append(queue, arrived + 1) ELSE queue
  /\ UNCHANGED <<pc, slots, out, packets>>

Next == Construct \/ Destroy \/ recvImpl \/ RecvFails \/ Receive

\* The thread runs and calls recv again and again.
Spec == Init /\ [][Next]_vars /\ WF_vars(Construct \/ recvImpl)

-----------------------------------------------------------------------------
CallPcs == {"epoll", "recvmmsg"}

\* Every variable holds a value of its kind, and recv does not write past the
\* end of the caller's array.
TypeOK ==
  /\ pc \in CallPcs \cup {"off", "thrown", "idle", "failed", "destroyed"}
  /\ queue \in Seq(1..MaxFrames) /\ Len(queue) <= SocketQueue
  /\ slots \in [Slots -> 0..MaxFrames]
  /\ out \in Seq(Slots) /\ Len(out) <= ArraySize
  /\ packets \in 0..MaxFrames /\ arrived \in 0..MaxFrames

\* recv is an implementation of the PacketIO contract, which af_packet.cpp:155
\* puts as "Keep Frame pointers valid for the caller until its next recv()".
\* It is one for an array of kBATCH Frames, and not for a larger one.
IO == INSTANCE PacketIO WITH
        waiting <- queue,
        lent    <- [i \in DOMAIN out |-> slots[out[i]]],
        inCall  <- pc \in CallPcs \cup {"failed"}
Implements == IO!IOSpec

\* Every queued datagram is handed out, unless recv throws or the backend is
\* destroyed.
FramesDelivered ==
  \A n \in 1..MaxFrames :
    packets + Len(queue) >= n ~> (packets >= n \/ pc \in {"failed", "destroyed"})
=============================================================================
