--------------------------- MODULE SocketRxProofs ----------------------------
(***************************************************************************)
(* Proofs about the UDP socket backend, for any number of slots, any queue *)
(* of the kernel and any array of the caller that holds whole batches.     *)
(***************************************************************************)
EXTENDS SocketRx, SequenceTheorems, TLAPS

-----------------------------------------------------------------------------
(* The inductive invariant.                                                *)

\* A datagram is counted, queued or gone.
CountsOK == packets + Len(queue) <= arrived

\* The loop of recvImpl has filled whole batches of the caller's array, and
\* there is room for another one.
RoomForBatch ==
  /\ pc = "epoll" => out = <<>>
  /\ pc = "recvmmsg" => \E j \in 0..ArraySize : /\ Len(out) = j * kBATCH
                                                /\ (j + 1) * kBATCH <= ArraySize

SocketInv == TypeOK /\ CountsOK /\ RoomForBatch

-----------------------------------------------------------------------------
(* Arithmetic and sequences.                                               *)

\* The array holds a whole number of batches.
LEMMA ArrayIsBatches == \E m \in Nat \ {0} : ArraySize = m * kBATCH
<1> DEFINE m == ArraySize \div kBATCH
<1>0. \A a \in Nat, k \in Nat \ {0} : a % k = 0 => a \div k \in Nat /\ a = (a \div k) * k
    OBVIOUS
<1>1. ArraySize = m * kBATCH /\ m \in Nat
    BY <1>0, SocketAssumption
<1> HIDE DEF m
<1>2. ArraySize = m * kBATCH
    BY <1>1
<1>3. m # 0
    BY <1>2, SocketAssumption
<1> QED BY <1>1, <1>2, <1>3

\* A batch fits in the array.
LEMMA BatchFits == kBATCH <= ArraySize /\ Lesser(ArraySize, kBATCH) = kBATCH
<1>1. \A m \in Nat \ {0}, k \in Nat : k <= m * k
    OBVIOUS
<1>2. kBATCH <= ArraySize
    BY <1>1, ArrayIsBatches, SocketAssumption
<1> QED BY <1>2, SocketAssumption DEF Lesser

\* If j + 1 batches do not fill the array there is room for another.
LEMMA NextBatch ==
  ASSUME NEW j \in Nat, (j + 1) * kBATCH < ArraySize
  PROVE  (j + 2) * kBATCH <= ArraySize
<1> PICK m \in Nat \ {0} : ArraySize = m * kBATCH
    BY ArrayIsBatches
<1>1. kBATCH \in Nat
    BY SocketAssumption
<1>2. \A a, b, k \in Nat : a * k < b * k => (a + 1) * k <= b * k
    <2>1. \A a, b, k \in Nat : b <= a => b * k <= a * k
        OBVIOUS
    <2> QED BY <2>1
<1>3. (j + 1 + 1) * kBATCH <= m * kBATCH
    BY <1>1, <1>2
<1> QED BY <1>3, <1>1

\* A function on 1..n is a sequence of length n.
LEMMA FunctionSeq ==
  ASSUME NEW n \in Nat, NEW S, NEW f \in [1..n -> S]
  PROVE  f \in Seq(S) /\ Len(f) = n
<1>1. f \in Seq(S)
    BY SeqDef
<1> QED BY <1>1, LenProperties

\* Slot numbers make a sequence.
LEMMA SlotSeq ==
  ASSUME NEW got \in 0..kBATCH
  PROVE  /\ [i \in 1..got |-> iov_base(i)] \in Seq(Slots)
         /\ Len([i \in 1..got |-> iov_base(i)]) = got
<1> DEFINE s == [i \in 1..got |-> iov_base(i)]
<1>1. got \in Nat /\ s \in [1..got -> Slots]
    BY SocketAssumption DEF iov_base, Slots
<1> HIDE DEF s
<1>2. s \in Seq(Slots) /\ Len(s) = got
    BY <1>1, FunctionSeq
<1> QED BY <1>2 DEF s

-----------------------------------------------------------------------------
(* Its preservation.                                                       *)

\* How many datagrams a recvmmsg takes, and what it leaves behind.
LEMMA TakeStep ==
  ASSUME SocketInv, NEW got \in 0..kBATCH, got <= Len(queue), Take(got)
  PROVE  /\ queue' \in Seq(1..MaxFrames) /\ Len(queue') = Len(queue) - got
         /\ slots' \in [Slots -> 0..MaxFrames]
         /\ out' \in Seq(Slots) /\ Len(out') = Len(out) + got
         /\ packets' = packets + got
         /\ \A s \in Slots : slots'[s] = IF s <= got THEN queue[s] ELSE slots[s]
<1>0. /\ queue \in Seq(1..MaxFrames) /\ slots \in [Slots -> 0..MaxFrames] /\ out \in Seq(Slots)
      /\ got \in Nat /\ Len(queue) \in Nat /\ kBATCH \in Nat
    BY SocketAssumption DEF SocketInv, TypeOK
<1>1. queue' \in Seq(1..MaxFrames) /\ Len(queue') = Len(queue) - got
    <2>1. \A i \in (got + 1)..Len(queue) : queue[i] \in 1..MaxFrames
        <3>1. \A i \in (got + 1)..Len(queue) : i \in 1..Len(queue)
            BY <1>0
        <3> QED BY <1>0, <3>1, ElementOfSeq
    <2>2. queue' = SubSeq(queue, got + 1, Len(queue))
        BY DEF Take
    <2>3. got + 1 \in Int /\ Len(queue) \in Int
        BY <1>0
    <2>4. /\ SubSeq(queue, got + 1, Len(queue)) \in Seq(1..MaxFrames)
          /\ Len(SubSeq(queue, got + 1, Len(queue))) =
               IF got + 1 <= Len(queue) THEN Len(queue) - (got + 1) + 1 ELSE 0
        BY <2>1, <2>3, SubSeqProperties
    <2> QED BY <1>0, <2>2, <2>4
<1>2. ASSUME NEW s \in Slots PROVE slots'[s] = IF s <= got THEN queue[s] ELSE slots[s]
    <2> DEFINE I == {i \in 1..got : iov_base(i) = s}
    <2>1. slots'[s] = IF I = {} THEN slots[s] ELSE queue[CHOOSE i \in I : \A j \in I : j <= i]
        BY DEF Take
    <2>2. s \in Nat /\ s >= 1
        BY SocketAssumption DEF Slots
    <2>3. CASE s <= got
        <3>1. I = {s}
            BY <1>0, <2>2, <2>3 DEF iov_base
        <3>2. (CHOOSE i \in {s} : \A j \in {s} : j <= i) = s
            BY <2>2
        <3> QED BY <2>1, <2>3, <3>1, <3>2
    <2>4. CASE ~(s <= got)
        <3>1. I = {}
            BY <1>0, <2>2, <2>4 DEF iov_base
        <3> QED BY <2>1, <2>4, <3>1
    <2> QED BY <2>3, <2>4
<1>3. slots' \in [Slots -> 0..MaxFrames]
    <2>1. \A s \in Slots : s <= got => queue[s] \in 0..MaxFrames
        BY <1>0, SocketAssumption, ElementOfSeq DEF Slots
    <2>2. \A s \in Slots : slots'[s] \in 0..MaxFrames
        BY <1>0, <1>2, <2>1
    <2>3. slots' = [s \in Slots |-> slots'[s]]
        BY DEF Take
    <2> QED BY <2>2, <2>3
<1>4. out' \in Seq(Slots) /\ Len(out') = Len(out) + got
    <2> DEFINE s == [i \in 1..got |-> iov_base(i)]
    <2>1. s \in Seq(Slots) /\ Len(s) = got /\ out' = out \o s
        BY SlotSeq DEF Take
    <2> HIDE DEF s
    <2> QED BY <1>0, <2>1, ConcatProperties
<1>5. packets' = packets + got
    BY DEF Take
<1> QED BY <1>1, <1>2, <1>3, <1>4, <1>5

\* One turn of the loop of recvImpl.
LEMMA MmsgStep ==
  ASSUME SocketInv, RecvMmsg
  PROVE  SocketInv'
<1>0. /\ kBATCH \in Nat \ {0} /\ ArraySize \in Nat /\ MaxFrames \in Nat
      /\ Len(queue) \in Nat /\ Len(out) \in Nat /\ packets \in Nat /\ arrived \in 0..MaxFrames
      /\ packets + Len(queue) <= arrived /\ Len(queue) <= SocketQueue /\ SocketQueue \in Nat
      /\ pc = "recvmmsg"
    BY SocketAssumption DEF SocketInv, TypeOK, CountsOK, RecvMmsg
<1> DEFINE got == Lesser(kBATCH, Len(queue))
<1>1. got \in 0..kBATCH /\ got <= Len(queue)
    BY <1>0 DEF Lesser
<1>2. /\ Take(got) /\ arrived' = arrived
      /\ pc' = IF Stop(got, kBATCH, Len(out')) THEN "idle" ELSE "recvmmsg"
    BY BatchFits DEF RecvMmsg
<1> HIDE DEF got
<1>3. /\ queue' \in Seq(1..MaxFrames) /\ Len(queue') = Len(queue) - got
      /\ slots' \in [Slots -> 0..MaxFrames]
      /\ out' \in Seq(Slots) /\ Len(out') = Len(out) + got
      /\ packets' = packets + got
    BY <1>1, <1>2, TakeStep
<1> PICK j \in 0..ArraySize : Len(out) = j * kBATCH /\ (j + 1) * kBATCH <= ArraySize
    BY <1>0 DEF SocketInv, RoomForBatch
<1>4. j \in Nat /\ j * kBATCH \in Nat /\ (j + 1) * kBATCH = j * kBATCH + kBATCH
    <2>1. \A a, k \in Nat : a * k \in Nat /\ (a + 1) * k = a * k + k
        OBVIOUS
    <2> QED BY <1>0, <2>1
<1>5. Len(out') <= ArraySize
    BY <1>0, <1>1, <1>3, <1>4
<1>6. /\ Len(queue') <= SocketQueue /\ packets' + Len(queue') <= arrived'
      /\ packets' \in 0..MaxFrames
    BY <1>0, <1>1, <1>2, <1>3
<1>7. TypeOK' /\ CountsOK'
    BY <1>0, <1>2, <1>3, <1>5, <1>6 DEF TypeOK, CountsOK, CallPcs
<1>8. RoomForBatch'
    <2> SUFFICES ASSUME pc' = "recvmmsg"
                 PROVE  \E i \in 0..ArraySize : /\ Len(out') = i * kBATCH
                                                /\ (i + 1) * kBATCH <= ArraySize
        BY <1>2 DEF RoomForBatch
    <2>1. got = kBATCH /\ Len(out') < ArraySize
        BY <1>0, <1>1, <1>2, <1>3 DEF Stop
    <2>2. Len(out') = (j + 1) * kBATCH
        BY <1>0, <1>3, <1>4, <2>1
    <2>3. (j + 2) * kBATCH <= ArraySize
        BY <1>4, <2>1, <2>2, NextBatch
    <2>4. j + 1 \in 0..ArraySize
        <3>1. \A a \in Nat, k \in Nat \ {0} : a <= a * k
            OBVIOUS
        <3>2. j + 1 <= (j + 1) * kBATCH
            BY <1>0, <1>4, <3>1
        <3>3. (j + 1) * kBATCH \in Nat
            BY <1>0, <1>4
        <3> QED BY <1>0, <1>4, <2>1, <2>2, <3>2, <3>3
    <2>5. (j + 1) + 1 = j + 2
        BY <1>4
    <2> QED BY <2>2, <2>3, <2>4, <2>5
<1> QED BY <1>7, <1>8 DEF SocketInv

\* Every step preserves the invariant.
LEMMA SocketStep == SocketInv /\ [Next]_vars => SocketInv'
<1> SUFFICES ASSUME SocketInv, [Next]_vars PROVE SocketInv'
    OBVIOUS
<1> USE SocketAssumption
<1>0. /\ queue \in Seq(1..MaxFrames) /\ out \in Seq(Slots) /\ Len(queue) \in Nat
      /\ packets + Len(queue) <= arrived /\ arrived \in 0..MaxFrames /\ packets \in 0..MaxFrames
      /\ <<>> \in Seq(1..MaxFrames) /\ <<>> \in Seq(Slots) /\ Len(<<>>) = 0
    BY EmptySeq DEF SocketInv, TypeOK, CountsOK
<1>1. CASE Construct \/ RecvFails \/ UNCHANGED vars
    BY <1>1 DEF Construct, RecvFails, vars, SocketInv, TypeOK, CountsOK, RoomForBatch, CallPcs
<1>2. CASE Destroy
    BY <1>0, <1>2 DEF Destroy, SocketInv, TypeOK, CountsOK, RoomForBatch, CallPcs
<1>3. CASE Call
    BY <1>0, <1>3 DEF Call, SocketInv, TypeOK, CountsOK, RoomForBatch, CallPcs
<1>4. CASE EpollWait
    <2>1. TypeOK' /\ CountsOK'
        BY <1>4 DEF EpollWait, SocketInv, TypeOK, CountsOK, CallPcs
    <2>2. RoomForBatch'
        <3>1. out' = <<>> /\ pc' # "epoll"
            BY <1>4 DEF EpollWait, SocketInv, RoomForBatch
        <3>2. Len(out') = 0 * kBATCH /\ (0 + 1) * kBATCH <= ArraySize /\ 0 \in 0..ArraySize
            BY <1>0, <3>1, BatchFits
        <3> QED BY <3>1, <3>2 DEF RoomForBatch
    <2> QED BY <2>1, <2>2 DEF SocketInv
<1>5. CASE RecvMmsg
    BY <1>5, MmsgStep
<1>6. CASE Receive
    <2>1. RoomForBatch'
        BY <1>6 DEF Receive, SocketInv, RoomForBatch
    <2>2. arrived' = arrived + 1 /\ arrived' \in 1..MaxFrames
        BY <1>0, <1>6 DEF Receive
    <2>3. CASE Len(queue) < SocketQueue
        <3>1. queue' = Append(queue, arrived')
            BY <1>6, <2>2, <2>3 DEF Receive
        <3>2. queue' \in Seq(1..MaxFrames) /\ Len(queue') = Len(queue) + 1
            BY <1>0, <2>2, <3>1, AppendProperties
        <3>3. Len(queue') <= SocketQueue /\ packets + Len(queue') <= arrived'
            BY <1>0, <2>2, <2>3, <3>2
        <3> QED BY <1>6, <2>1, <2>2, <3>2, <3>3 DEF Receive, SocketInv, TypeOK, CountsOK
    <2>4. CASE ~(Len(queue) < SocketQueue)
        <3>1. queue' = queue /\ packets + Len(queue') <= arrived'
            BY <1>0, <1>6, <2>2, <2>4 DEF Receive
        <3> QED BY <1>6, <2>1, <2>2, <3>1 DEF Receive, SocketInv, TypeOK, CountsOK
    <2> QED BY <2>3, <2>4
<1> QED BY <1>1, <1>2, <1>3, <1>4, <1>5, <1>6 DEF Next, recvImpl

\* The socket backend starts in the invariant.
LEMMA SocketInit == Init => SocketInv
  BY SocketAssumption, EmptySeq DEF Init, SocketInv, TypeOK, CountsOK, RoomForBatch, CallPcs

\* However the datagrams arrive between two recvmmsg calls, recv puts no more
\* Frames into the caller's array than it holds, for every array of whole
\* batches, and counts no datagram that did not arrive.
THEOREM SocketTypes == Spec => []TypeOK
<1>1. SocketInv => TypeOK
    BY DEF SocketInv
<1> QED BY <1>1, SocketInit, SocketStep, PTL DEF Spec

-----------------------------------------------------------------------------
(* The PacketIO contract, for an array of kBATCH Frames.                   *)

\* What the caller sees through its Frames, and whether it is inside recv.
Seen(o, s) == [i \in DOMAIN o |-> s[o[i]]]
Lent == Seen(out, slots)
InCall == pc \in CallPcs \cup {"failed"}

\* Frames that point to datagrams make a sequence.
LEMMA SeenSeq ==
  ASSUME NEW o \in Seq(Slots), NEW s \in [Slots -> 0..MaxFrames]
  PROVE  /\ Seen(o, s) \in Seq(0..MaxFrames) /\ Len(Seen(o, s)) = Len(o)
         /\ \A i \in 1..Len(o) : Seen(o, s)[i] = s[o[i]]
         /\ o = <<>> => Seen(o, s) = <<>>
<1>1. Len(o) \in Nat /\ DOMAIN o = 1..Len(o)
    BY LenProperties
<1>2. \A i \in 1..Len(o) : s[o[i]] \in 0..MaxFrames
    <2>1. \A i \in 1..Len(o) : o[i] \in Slots
        BY ElementOfSeq
    <2> QED BY <2>1
<1>3. Seen(o, s) \in [1..Len(o) -> 0..MaxFrames]
    BY <1>1, <1>2 DEF Seen
<1>4. Seen(o, s) \in Seq(0..MaxFrames) /\ Len(Seen(o, s)) = Len(o)
    BY <1>1, <1>3, FunctionSeq
<1>5. o = <<>> => Seen(o, s) = <<>>
    BY <1>4, EmptySeq
<1> QED BY <1>1, <1>4, <1>5 DEF Seen

\* So they do before and after a step.
LEMMA LentSeq ==
  ASSUME TypeOK, TypeOK'
  PROVE  /\ Lent \in Seq(0..MaxFrames) /\ Len(Lent) = Len(out)
         /\ Lent' \in Seq(0..MaxFrames) /\ Len(Lent') = Len(out')
         /\ \A i \in 1..Len(out') : Lent'[i] = slots'[out'[i]]
         /\ out = <<>> => Lent = <<>>
         /\ out' = <<>> => Lent' = <<>>
<1>1. /\ out \in Seq(Slots) /\ slots \in [Slots -> 0..MaxFrames]
      /\ out' \in Seq(Slots) /\ slots' \in [Slots -> 0..MaxFrames]
    BY DEF TypeOK
<1> QED BY <1>1, SeenSeq DEF Lent

\* A call that finds nothing hands out nothing.
LEMMA EmptyDelivery ==
  ASSUME NEW S, NEW s \in Seq(S)
  PROVE  s \o SubSeq(queue, 1, 0) = s /\ SubSeq(s, 0 + 1, Len(s)) = s
<1>1. SubSeq(queue, 1, 0) = <<>>
    BY SubSeqEmpty
<1> QED BY <1>1, ConcatEmptySeq, SubSeqFull

\* With an array of kBATCH Frames recvImpl calls recvmmsg once.
LEMMA OneBatch ==
  ASSUME SocketInv, ArraySize = kBATCH, pc = "recvmmsg"
  PROVE  out = <<>>
<1> PICK j \in 0..ArraySize : Len(out) = j * kBATCH /\ (j + 1) * kBATCH <= ArraySize
    BY DEF SocketInv, RoomForBatch
<1>1. j = 0
    <2>1. \A a \in Nat, k \in Nat \ {0} : (a + 1) * k <= k => a = 0
        OBVIOUS
    <2> QED BY <2>1, SocketAssumption
<1>2. Len(out) = 0
    BY <1>1, SocketAssumption
<1> QED BY <1>2, EmptySeq DEF SocketInv, TypeOK

\* The recvmmsg of such a call delivers the head of the queue.
LEMMA BatchDelivers ==
  ASSUME SocketInv, SocketInv', ArraySize = kBATCH, RecvMmsg
  PROVE  \E k \in 0..Len(queue) :
           /\ InCall /\ Len(Lent) + k <= ArraySize
           /\ Lent' = Lent \o SubSeq(queue, 1, k)
           /\ queue' = SubSeq(queue, k + 1, Len(queue))
           /\ packets' = packets + k /\ arrived' = arrived
<1>0. /\ queue \in Seq(1..MaxFrames) /\ Len(queue) \in Nat /\ kBATCH \in Nat /\ pc = "recvmmsg"
      /\ MaxFrames \in Nat
    BY SocketAssumption DEF SocketInv, TypeOK, RecvMmsg
<1> DEFINE got == Lesser(kBATCH, Len(queue))
           iovs == [i \in 1..got |-> iov_base(i)]
<1>1. got \in 0..kBATCH /\ got \in 0..Len(queue)
    BY <1>0 DEF Lesser
<1>2. Take(got) /\ arrived' = arrived
    BY BatchFits DEF RecvMmsg
<1>3. iovs \in Seq(Slots) /\ Len(iovs) = got
    BY <1>1, SlotSeq
<1>4. out' = out \o iovs
    BY <1>2 DEF Take
<1>5. \A i \in 1..got : iovs[i] = i
    BY DEF iov_base
<1> HIDE DEF got, iovs
<1>6. out = <<>> /\ Lent = <<>> /\ Len(Lent) = 0
    BY <1>0, OneBatch, LentSeq DEF SocketInv
<1>7. out' = iovs
    BY <1>3, <1>4, <1>6, ConcatEmptySeq
<1>8. \A s \in Slots : slots'[s] = IF s <= got THEN queue[s] ELSE slots[s]
    BY <1>1, <1>2, TakeStep
<1>9. /\ Lent' \in Seq(0..MaxFrames) /\ Len(Lent') = got
      /\ \A i \in 1..got : Lent'[i] = slots'[i]
    <2>1. /\ Lent' \in Seq(0..MaxFrames) /\ Len(Lent') = Len(out')
          /\ \A i \in 1..Len(out') : Lent'[i] = slots'[out'[i]]
        BY LentSeq DEF SocketInv
    <2> QED BY <1>3, <1>5, <1>7, <2>1
<1>10. \A i \in 1..got : slots'[i] = queue[i]
    BY <1>0, <1>1, <1>8 DEF Slots
<1>11. /\ SubSeq(queue, 1, got) \in Seq(0..MaxFrames) /\ Len(SubSeq(queue, 1, got)) = got
       /\ \A i \in 1..got : SubSeq(queue, 1, got)[i] = queue[i]
    <2>1. \A i \in 1..got : queue[i] \in 0..MaxFrames
        <3>1. \A i \in 1..got : i \in 1..Len(queue)
            BY <1>0, <1>1
        <3>2. \A i \in 1..got : queue[i] \in 1..MaxFrames
            BY <1>0, <3>1, ElementOfSeq
        <3> QED BY <1>0, <3>2
    <2>2. 1 \in Int /\ got \in Int
        BY <1>1, <1>0
    <2>3. /\ SubSeq(queue, 1, got) \in Seq(0..MaxFrames)
          /\ Len(SubSeq(queue, 1, got)) = IF 1 <= got THEN got - 1 + 1 ELSE 0
          /\ \A i \in 1..(got - 1 + 1) : SubSeq(queue, 1, got)[i] = queue[1 + i - 1]
        BY <2>1, <2>2, SubSeqProperties
    <2> QED BY <1>0, <1>1, <2>3
<1>12. Lent' = SubSeq(queue, 1, got)
    BY <1>9, <1>10, <1>11, SeqEqual
<1>13. Lent' = Lent \o SubSeq(queue, 1, got)
    BY <1>6, <1>11, <1>12, ConcatEmptySeq
<1>14. /\ queue' = SubSeq(queue, got + 1, Len(queue)) /\ packets' = packets + got
    BY <1>2 DEF Take
<1>15. InCall /\ Len(Lent) + got <= ArraySize
    BY <1>0, <1>1, <1>6 DEF InCall, CallPcs
<1> QED BY <1>1, <1>2, <1>13, <1>14, <1>15

\* Every step is a step of the contract, or changes nothing of it.
LEMMA SocketRefines ==
  ASSUME SocketInv, SocketInv', ArraySize = kBATCH, [Next]_vars
  PROVE  [IO!IONext]_(IO!iovars)
<1> USE DEF IO!iovars
<1>1. CASE Construct \/ RecvFails \/ UNCHANGED vars
    BY <1>1 DEF Construct, RecvFails, vars, CallPcs
<1>2. CASE Destroy
    <2>1. ~InCall /\ ~InCall' /\ queue' = <<>> /\ Lent' = <<>> /\ UNCHANGED <<arrived, packets>>
        BY <1>2, LentSeq DEF Destroy, InCall, CallPcs, SocketInv
    <2> QED BY <2>1 DEF IO!IONext, IO!Close, InCall, Lent, Seen
<1>3. CASE Call
    <2>1. ~InCall /\ InCall' /\ Lent' = <<>> /\ UNCHANGED <<queue, arrived, packets>>
        BY <1>3, LentSeq DEF Call, InCall, CallPcs, SocketInv
    <2> QED BY <2>1 DEF IO!IONext, IO!Call, InCall, Lent, Seen
<1>4. CASE EpollWait
    <2>1. InCall /\ Lent' = Lent /\ UNCHANGED <<queue, arrived, packets>> /\ out = <<>>
        BY <1>4 DEF EpollWait, InCall, CallPcs, Lent, SocketInv, RoomForBatch
    <2>2. Lent \in Seq(0..MaxFrames) /\ Len(Lent) = 0 /\ queue \in Seq(1..MaxFrames)
        BY <2>1, LentSeq DEF SocketInv, TypeOK
    <2>3. /\ InCall /\ Len(Lent) + 0 <= ArraySize
          /\ Lent' = Lent \o SubSeq(queue, 1, 0) /\ queue' = SubSeq(queue, 0 + 1, Len(queue))
          /\ packets' = packets + 0 /\ arrived' = arrived /\ InCall' \in BOOLEAN
          /\ 0 \in 0..Len(queue)
        BY <2>1, <2>2, EmptyDelivery, SocketAssumption DEF SocketInv, TypeOK, InCall
    <2> QED BY <2>3 DEF IO!IONext, IO!Deliver, InCall, Lent, Seen
<1>5. CASE RecvMmsg
    <2> PICK k \in 0..Len(queue) :
          /\ InCall /\ Len(Lent) + k <= ArraySize
          /\ Lent' = Lent \o SubSeq(queue, 1, k)
          /\ queue' = SubSeq(queue, k + 1, Len(queue))
          /\ packets' = packets + k /\ arrived' = arrived
        BY <1>5, BatchDelivers
    <2>1. InCall' \in BOOLEAN
        BY DEF InCall
    <2>2. IO!Deliver(k)
        BY <2>1 DEF IO!Deliver, InCall, Lent, Seen
    <2> QED BY <2>2 DEF IO!IONext
<1>6. CASE Receive
    <2>1. /\ arrived < MaxFrames /\ arrived' = arrived + 1
          /\ queue' \in {queue, Append(queue, arrived + 1)}
          /\ UNCHANGED <<pc, slots, out, packets>>
        BY <1>6 DEF Receive
    <2> QED BY <2>1 DEF IO!IONext, IO!Arrive
<1> QED BY <1>1, <1>2, <1>3, <1>4, <1>5, <1>6 DEF Next, recvImpl

\* With an array of kBATCH Frames, as falcon-bench has, recv keeps the
\* PacketIO contract for any number of slots and datagrams: the datagrams
\* come in order, once, and stay behind their Frames until the next call.
THEOREM SocketImplements == ASSUME ArraySize = kBATCH PROVE Spec => Implements
<1>1. Init => IO!IOInit
    <2> SUFFICES ASSUME Init PROVE IO!IOInit
        OBVIOUS
    <2>1. out \in Seq(Slots) /\ slots \in [Slots -> 0..MaxFrames] /\ out = <<>>
        BY SocketInit DEF SocketInv, TypeOK, Init
    <2>2. Seen(out, slots) = <<>>
        BY <2>1, SeenSeq
    <2> QED BY <2>2 DEF Init, IO!IOInit, CallPcs, Seen
<1>2. SocketInv /\ SocketInv' /\ [Next]_vars => [IO!IONext]_(IO!iovars)
    BY SocketRefines
<1> QED BY <1>1, <1>2, SocketInit, SocketStep, PTL DEF Spec, Implements, IO!IOSpec
=============================================================================
