--------------------------- MODULE AfPacketProofs ----------------------------
(***************************************************************************)
(* Proofs about the AF_PACKET backend, for any number of blocks of any     *)
(* size and any size of the caller's array: it implements PacketIO, and    *)
(* its filter takes the traffic that the XDP program redirects.            *)
(***************************************************************************)
EXTENDS AfPacket, SequenceTheorems, WellFoundedInduction, TLAPS

-----------------------------------------------------------------------------
(* The inductive invariant.                                                *)

\* How many blocks b comes behind x, and behind the one recvImpl looks at.
Dist(x, b) == IF x <= b THEN b - x ELSE b + kBlockCount - x
Off(b) == Dist(block_index, b)

\* The n blocks from the one recvImpl looks at are handed over, the others are
\* the kernel's, which goes on with the first of these.
Ring(n) ==
  /\ \A b \in Blocks : status[b] # {} <=> Off(b) < n
  /\ Off(kblock) = n \/ (n = kBlockCount /\ kblock = block_index)
  /\ filling => n < kBlockCount
  /\ release_block => n > 0
RingOK == \E n \in 0..kBlockCount : Ring(n)

\* A block is handed over with a frame in it; the cursor is inside a block
\* that was handed over, and inside recv no block waits for its release.
CursorOK ==
  /\ \A b \in Blocks : status[b] # {} => content[b] # <<>>
  /\ packet_index > 0 => /\ status[block_index] # {}
                         /\ packets_in_block = Len(content[block_index])
                         /\ packet_index < packets_in_block
  /\ release_block => packet_index = 0 /\ pc \notin CallPcs

\* The blocks whose frames count, and how many of the first one were read.
Counted(b) == status[b] # {} \/ (b = kblock /\ filling)
Done == IF release_block THEN Len(content[block_index]) ELSE packet_index

\* Round the ring the frames are numbered in the order of their arrival, and
\* the number of an unread frame exceeds the number of frames handed out.
Numbered ==
  /\ packets <= arrived
  /\ \A b \in Blocks : Counted(b) =>
       \A i \in DOMAIN content[b] :
         /\ content[b][i] <= arrived
         /\ (b = block_index => i > Done) => packets < content[b][i]
         /\ \A j \in DOMAIN content[b] : i < j => content[b][i] < content[b][j]
  /\ \A a, b \in Blocks : Counted(a) /\ Counted(b) /\ Off(a) < Off(b) =>
       \A i \in DOMAIN content[a], j \in DOMAIN content[b] : content[a][i] < content[b][j]

RingInv == TypeOK /\ RingOK /\ CursorOK /\ Numbered

-----------------------------------------------------------------------------
(* Arithmetic of the ring.                                                 *)

\* The block after and the block before a block, without division.
LEMMA RingSteps ==
  ASSUME NEW b \in Blocks
  PROVE  /\ NextBlock(b) = IF b + 1 = kBlockCount THEN 0 ELSE b + 1
         /\ FollowingBlock(b) = NextBlock(b)
         /\ PreviousBlock(b) = IF b = 0 THEN kBlockCount - 1 ELSE b - 1
         /\ NextBlock(b) \in Blocks /\ PreviousBlock(b) \in Blocks
<1>0. kBlockCount \in Nat \ {0} /\ b \in Nat /\ b < kBlockCount
    BY PacketAssumption DEF Blocks
<1>1. \A k \in Nat \ {0}, a \in Nat : a < k => a % k = a
    OBVIOUS
<1>2. \A k \in Nat \ {0} : k % k = 0
    OBVIOUS
<1>3. \A k \in Nat \ {0}, a \in Nat : a < k => (a + k) % k = a
    OBVIOUS
<1>4. NextBlock(b) = IF b + 1 = kBlockCount THEN 0 ELSE b + 1
    <2>1. b + 1 \in Nat /\ (b + 1 # kBlockCount => b + 1 < kBlockCount)
        BY <1>0
    <2> QED BY <1>0, <1>1, <1>2, <2>1 DEF NextBlock
<1>5. PreviousBlock(b) = IF b = 0 THEN kBlockCount - 1 ELSE b - 1
    <2>1. CASE b = 0
        <3>1. b + kBlockCount - 1 = kBlockCount - 1 /\ kBlockCount - 1 \in Nat
              /\ kBlockCount - 1 < kBlockCount
            BY <1>0, <2>1
        <3> QED BY <1>0, <1>1, <2>1, <3>1 DEF PreviousBlock
    <2>2. CASE b # 0
        <3>1. b + kBlockCount - 1 = (b - 1) + kBlockCount /\ b - 1 \in Nat /\ b - 1 < kBlockCount
            BY <1>0, <2>2
        <3> QED BY <1>0, <1>3, <2>2, <3>1 DEF PreviousBlock
    <2> QED BY <2>1, <2>2
<1> QED BY <1>0, <1>4, <1>5 DEF FollowingBlock, NextBlock, Blocks

\* Distances along the ring.
LEMMA DistFacts ==
  ASSUME NEW x \in Blocks
  PROVE  /\ \A b \in Blocks : /\ Dist(x, b) \in 0..(kBlockCount - 1)
                              /\ Dist(x, b) = 0 <=> b = x
                              /\ Dist(x, NextBlock(b)) =
                                   IF Dist(x, b) + 1 = kBlockCount THEN 0 ELSE Dist(x, b) + 1
                              /\ Dist(x, PreviousBlock(b)) =
                                   IF Dist(x, b) = 0 THEN kBlockCount - 1 ELSE Dist(x, b) - 1
                              /\ Dist(NextBlock(x), b) =
                                   IF b = x THEN kBlockCount - 1 ELSE Dist(x, b) - 1
         /\ \A a, b \in Blocks : Dist(x, a) = Dist(x, b) => a = b
<1>0. kBlockCount \in Nat \ {0} /\ x \in Nat /\ x < kBlockCount
    BY PacketAssumption DEF Blocks
<1>1. ASSUME NEW b \in Blocks
      PROVE  /\ Dist(x, b) \in 0..(kBlockCount - 1)
             /\ Dist(x, b) = 0 <=> b = x
             /\ Dist(x, NextBlock(b)) =
                  IF Dist(x, b) + 1 = kBlockCount THEN 0 ELSE Dist(x, b) + 1
             /\ Dist(x, PreviousBlock(b)) =
                  IF Dist(x, b) = 0 THEN kBlockCount - 1 ELSE Dist(x, b) - 1
             /\ Dist(NextBlock(x), b) = IF b = x THEN kBlockCount - 1 ELSE Dist(x, b) - 1
    <2>1. b \in Nat /\ b < kBlockCount
        BY <1>0 DEF Blocks
    <2>2. /\ NextBlock(b) = IF b + 1 = kBlockCount THEN 0 ELSE b + 1
          /\ PreviousBlock(b) = IF b = 0 THEN kBlockCount - 1 ELSE b - 1
          /\ NextBlock(x) = IF x + 1 = kBlockCount THEN 0 ELSE x + 1
        BY RingSteps
    <2> QED BY <1>0, <2>1, <2>2 DEF Dist
<1>2. ASSUME NEW a \in Blocks, NEW b \in Blocks, Dist(x, a) = Dist(x, b) PROVE a = b
    <2>1. a \in Nat /\ a < kBlockCount /\ b \in Nat /\ b < kBlockCount
        BY <1>0 DEF Blocks
    <2> QED BY <1>0, <1>2, <2>1 DEF Dist
<1> QED BY <1>1, <1>2

\* The next block is one further, or the first again.
LEMMA DistNext ==
  ASSUME NEW x \in Blocks, NEW b \in Blocks
  PROVE  Dist(x, NextBlock(b)) = IF Dist(x, b) + 1 = kBlockCount THEN 0 ELSE Dist(x, b) + 1
  BY DistFacts

\* The frames of a block are a sequence that fits in it.
LEMMA BlockSeq ==
  \A s : s \in BoundedSeq(1..MaxFrames, BlockFrames)
           <=> s \in Seq(1..MaxFrames) /\ Len(s) <= BlockFrames
<1> TAKE s
<1>1. BoundedSeq(1..MaxFrames, BlockFrames) = UNION {[1..m -> 1..MaxFrames] : m \in 0..BlockFrames}
    BY DEF BoundedSeq, SeqOf
<1>2. ASSUME s \in BoundedSeq(1..MaxFrames, BlockFrames)
      PROVE  s \in Seq(1..MaxFrames) /\ Len(s) <= BlockFrames
    <2> PICK m \in 0..BlockFrames : s \in [1..m -> 1..MaxFrames]
        BY <1>1, <1>2
    <2>1. m \in Nat /\ m <= BlockFrames
        BY PacketAssumption
    <2>2. s \in Seq(1..MaxFrames)
        BY <2>1, SeqDef
    <2>3. DOMAIN s = 1..m /\ DOMAIN s = 1..Len(s) /\ Len(s) \in Nat
        BY <2>2, LenProperties
    <2>4. Len(s) = m
        BY <2>1, <2>3
    <2> QED BY <2>1, <2>2, <2>4
<1>3. ASSUME s \in Seq(1..MaxFrames), Len(s) <= BlockFrames
      PROVE  s \in BoundedSeq(1..MaxFrames, BlockFrames)
    <2>1. Len(s) \in 0..BlockFrames /\ s \in [1..Len(s) -> 1..MaxFrames]
        BY <1>3, LenProperties, PacketAssumption
    <2> QED BY <1>1, <2>1
<1> QED BY <1>2, <1>3

-----------------------------------------------------------------------------
(* Its preservation by the reader.                                         *)

\* What TypeOK says of the blocks and the cursor.
LEMMA BlockTypes ==
  ASSUME TypeOK
  PROVE  /\ \A b \in Blocks : /\ content[b] \in Seq(1..MaxFrames)
                              /\ Len(content[b]) \in 0..BlockFrames
                              /\ DOMAIN content[b] = 1..Len(content[b])
                              /\ \A i \in DOMAIN content[b] : content[b][i] \in 1..MaxFrames
         /\ block_index \in Blocks /\ kblock \in Blocks
         /\ packet_index \in Nat /\ packets \in Nat /\ arrived \in 0..MaxFrames
<1>1. ASSUME NEW b \in Blocks
      PROVE  /\ content[b] \in Seq(1..MaxFrames) /\ Len(content[b]) \in 0..BlockFrames
             /\ DOMAIN content[b] = 1..Len(content[b])
             /\ \A i \in DOMAIN content[b] : content[b][i] \in 1..MaxFrames
    <2>1. content[b] \in BoundedSeq(1..MaxFrames, BlockFrames)
        BY DEF TypeOK
    <2>2. content[b] \in Seq(1..MaxFrames) /\ Len(content[b]) <= BlockFrames
        BY <2>1, BlockSeq
    <2>3. Len(content[b]) \in Nat /\ DOMAIN content[b] = 1..Len(content[b])
        BY <2>2, LenProperties
    <2> QED BY <2>2, <2>3, ElementOfSeq, PacketAssumption
<1> QED BY <1>1 DEF TypeOK

\* The steps that move only the thread, and what the caller was given.
LEMMA QuietStep ==
  ASSUME RingInv, Construct \/ Destroy \/ NoPacket \/ EpollWait \/ UNCHANGED vars
  PROVE  RingInv'
<1>0. UNCHANGED <<status, kernelVars, cursor, packets>> /\ out' \in {out, <<>>}
    BY DEF Construct, Destroy, NoPacket, EpollWait, vars
<1>1. /\ UNCHANGED <<status, content, kblock, filling, arrived>>
      /\ UNCHANGED <<block_index, packet_index, packets_in_block, release_block, packets>>
    BY <1>0 DEF kernelVars, cursor
<1>2. /\ pc' \in CallPcs \cup {"off", "thrown", "idle", "destroyed"}
      /\ release_block => pc' \notin CallPcs
    <2>1. CASE Construct \/ Destroy
        BY <2>1 DEF Construct, Destroy, CallPcs
    <2>2. CASE NoPacket \/ EpollWait
        <3>1. pc \in CallPcs /\ pc' \in CallPcs \cup {"idle"}
            BY <2>2 DEF NoPacket, EpollWait, CallPcs
        <3> QED BY <3>1 DEF RingInv, CursorOK
    <2>3. CASE UNCHANGED vars
        BY <2>3 DEF vars, RingInv, TypeOK, CursorOK
    <2> QED BY <2>1, <2>2, <2>3
<1>3. out' \in Seq([block : Blocks, at : 1..BlockFrames]) /\ Len(out') <= ArraySize
    <2>1. CASE out' = out
        BY <2>1 DEF RingInv, TypeOK
    <2>2. CASE out' = <<>>
        <3>1. Len(<<>>) = 0 /\ <<>> \in Seq([block : Blocks, at : 1..BlockFrames])
            BY EmptySeq
        <3> QED BY <2>2, <3>1, PacketAssumption
    <2> QED BY <1>0, <2>1, <2>2
<1>4. TypeOK'
    BY <1>1, <1>2, <1>3 DEF RingInv, TypeOK
<1>5. RingOK' /\ Numbered'
    BY <1>1 DEF RingInv, RingOK, Ring, Off, Numbered, Counted, Done
<1>6. CursorOK'
    BY <1>1, <1>2 DEF RingInv, CursorOK
<1> QED BY <1>4, <1>5, <1>6 DEF RingInv

\* The block that was read goes back to the kernel.
LEMMA ReleaseStep == ASSUME RingInv, ReleaseBlock, release_block PROVE RingInv'
<1>0. /\ pc' = "loop" /\ out' = <<>> /\ status' = [status EXCEPT ![block_index] = {}]
      /\ block_index' = NextBlock(block_index) /\ release_block' = FALSE
      /\ UNCHANGED <<content, kblock, filling, arrived, packet_index, packets_in_block, packets>>
    BY DEF ReleaseBlock, kernelVars
<1>1. /\ block_index \in Blocks /\ kblock \in Blocks /\ block_index' \in Blocks
      /\ status \in [Blocks -> {{}, {"USER"}, {"USER", "TMO"}}]
      /\ kBlockCount \in Nat \ {0}
    BY <1>0, RingSteps, PacketAssumption DEF RingInv, TypeOK
<1> PICK n \in 0..kBlockCount : Ring(n)
    BY DEF RingInv, RingOK
<1>2. n > 0 /\ n \in Nat
    BY <1>1 DEF Ring
<1>3. \A b \in Blocks : status'[b] = IF b = block_index THEN {} ELSE status[b]
    BY <1>0, <1>1
<1>4. ASSUME NEW b \in Blocks
      PROVE  /\ Off(b)' = IF b = block_index THEN kBlockCount - 1 ELSE Off(b) - 1
             /\ Off(b) \in 0..(kBlockCount - 1) /\ (Off(b) = 0 <=> b = block_index)
    <2> PICK x \in Blocks : x = block_index
        BY <1>1
    <2>1. /\ Dist(NextBlock(x), b) = IF b = x THEN kBlockCount - 1 ELSE Dist(x, b) - 1
          /\ Dist(x, b) \in 0..(kBlockCount - 1) /\ (Dist(x, b) = 0 <=> b = x)
        BY DistFacts
    <2>2. block_index' = NextBlock(x)
        BY <1>0
    <2> QED BY <2>1, <2>2 DEF Off
<1>5. packet_index = 0
    BY DEF RingInv, CursorOK
<1>6. TypeOK'
    <2>1. status' \in [Blocks -> {{}, {"USER"}, {"USER", "TMO"}}]
        BY <1>0, <1>1
    <2>2. out' \in Seq([block : Blocks, at : 1..BlockFrames]) /\ Len(out') = 0
        BY <1>0, EmptySeq
    <2>3. Len(out') <= ArraySize /\ release_block' \in BOOLEAN /\ pc' \in CallPcs
        <3>1. Len(out') <= ArraySize
            BY <2>2, PacketAssumption
        <3> QED BY <1>0, <3>1 DEF CallPcs
    <2> QED BY <1>0, <1>1, <2>1, <2>2, <2>3 DEF RingInv, TypeOK
<1>7. Ring(n - 1)'
    <2>1. \A b \in Blocks : status'[b] # {} <=> Off(b)' < n - 1
        BY <1>1, <1>2, <1>3, <1>4 DEF Ring
    <2>2. Off(kblock)' = n - 1
        <3>1. CASE Off(kblock) = n
            <4>1. kblock # block_index
                BY <1>1, <1>2, <1>4, <3>1
            <4>2. Off(kblock)' = Dist(block_index', kblock)
                BY <1>0 DEF Off
            <4>3. Dist(block_index', kblock) = Off(kblock) - 1
                BY <1>0, <1>1, <4>1, DistFacts DEF Off
            <4> QED BY <3>1, <4>2, <4>3
        <3>2. CASE n = kBlockCount /\ kblock = block_index
            <4>1. Off(kblock)' = Dist(block_index', kblock)
                BY <1>0 DEF Off
            <4>2. Dist(block_index', kblock) = kBlockCount - 1
                BY <1>0, <1>1, <3>2, DistFacts
            <4> QED BY <3>2, <4>1, <4>2
        <3> QED BY <3>1, <3>2 DEF Ring
    <2> QED BY <1>0, <1>1, <1>2, <2>1, <2>2 DEF Ring
<1>8. RingOK'
    <2>1. n - 1 \in 0..kBlockCount
        BY <1>1, <1>2
    <2> QED BY <1>7, <2>1 DEF RingOK
<1>9. CursorOK'
    BY <1>0, <1>3, <1>5 DEF RingInv, CursorOK
<1>10. \A b \in Blocks : Counted(b)' => Counted(b) /\ b # block_index
    <2>1. filling => kblock # block_index
        BY <1>1, <1>2, <1>4 DEF Ring
    <2> QED BY <1>0, <1>3, <2>1 DEF Counted
<1>11. \A a, b \in Blocks : a # block_index /\ b # block_index /\ Off(a)' < Off(b)' => Off(a) < Off(b)
    BY <1>1, <1>4
<1>12. Numbered'
    <2>1. ASSUME NEW b \in Blocks, Counted(b)', NEW i \in DOMAIN content'[b]
          PROVE  /\ content'[b][i] <= arrived'
                 /\ packets' < content'[b][i]
                 /\ \A j \in DOMAIN content'[b] : i < j => content'[b][i] < content'[b][j]
        BY <1>0, <1>10, <2>1 DEF RingInv, Numbered
    <2>2. ASSUME NEW a \in Blocks, NEW b \in Blocks, Counted(a)', Counted(b)', Off(a)' < Off(b)'
          PROVE  \A i \in DOMAIN content'[a], j \in DOMAIN content'[b] : content'[a][i] < content'[b][j]
        BY <1>0, <1>10, <1>11, <2>2 DEF RingInv, Numbered
    <2>3. packets' <= arrived'
        BY <1>0 DEF RingInv, Numbered
    <2> QED BY <2>1, <2>2, <2>3 DEF Numbered
<1> QED BY <1>6, <1>8, <1>9, <1>12 DEF RingInv

\* A recv that begins with no block to give back.
LEMMA EnterStep == ASSUME RingInv, ReleaseBlock, ~release_block PROVE RingInv'
<1>0. /\ pc' = "loop" /\ out' = <<>>
      /\ UNCHANGED <<status, content, kblock, filling, arrived>>
      /\ UNCHANGED <<block_index, packet_index, packets_in_block, release_block, packets>>
    BY DEF ReleaseBlock, kernelVars
<1>1. out' \in Seq([block : Blocks, at : 1..BlockFrames]) /\ Len(out') = 0
    BY <1>0, EmptySeq
<1>2. TypeOK'
    BY <1>0, <1>1, PacketAssumption DEF RingInv, TypeOK, CallPcs
<1>3. RingOK' /\ Numbered'
    BY <1>0 DEF RingInv, RingOK, Ring, Off, Numbered, Counted, Done
<1>4. CursorOK'
    BY <1>0 DEF RingInv, CursorOK
<1> QED BY <1>2, <1>3, <1>4 DEF RingInv

\* The next frame of the block goes to the caller.
LEMMA ReadStep == ASSUME RingInv, ReadPacket PROVE RingInv'
<1> DEFINE p == packet_index
           s == content[block_index]
           n == IF p = 0 THEN Len(s) ELSE packets_in_block
<1>0. /\ pc = "loop" /\ Len(out) < ArraySize /\ "USER" \in status[block_index]
      /\ out' = Append(out, [block |-> block_index, at |-> p + 1]) /\ packets' = packets + 1
      /\ IF p + 1 = n
         THEN release_block' = TRUE /\ packet_index' = 0 /\ packets_in_block' = 0 /\ pc' = "idle"
         ELSE packet_index' = p + 1 /\ packets_in_block' = n /\ UNCHANGED <<release_block, pc>>
      /\ UNCHANGED <<status, content, kblock, filling, arrived, block_index>>
    BY DEF ReadPacket, OwnsBlock, Packet, kernelVars
<1>1. /\ s \in Seq(1..MaxFrames) /\ Len(s) \in 0..BlockFrames /\ DOMAIN s = 1..Len(s)
      /\ block_index \in Blocks /\ p \in Nat /\ packets \in Nat /\ arrived \in 0..MaxFrames
      /\ \A i \in DOMAIN s : s[i] \in 1..MaxFrames
      /\ BlockFrames \in Nat \ {0} /\ MaxFrames \in Nat /\ ArraySize \in Nat /\ kBlockCount \in Nat
    BY BlockTypes, PacketAssumption DEF RingInv
<1>2. status[block_index] # {} /\ s # <<>> /\ Counted(block_index) /\ ~release_block
    BY <1>0, <1>1 DEF RingInv, CursorOK, Counted, CallPcs
<1>3. Len(s) # 0
    BY <1>1, <1>2, EmptySeq
<1>4. n = Len(s) /\ p < Len(s) /\ p + 1 \in 1..Len(s)
    BY <1>1, <1>3 DEF RingInv, CursorOK
<1>5. TypeOK'
    <2>1. out' \in Seq([block : Blocks, at : 1..BlockFrames]) /\ Len(out') <= ArraySize
        <3>1. [block |-> block_index, at |-> p + 1] \in [block : Blocks, at : 1..BlockFrames]
            BY <1>1, <1>4
        <3>2. /\ out \in Seq([block : Blocks, at : 1..BlockFrames])
              /\ Len(out) \in Nat /\ Len(out) < ArraySize
            BY <1>0, LenProperties DEF RingInv, TypeOK
        <3>3. out' \in Seq([block : Blocks, at : 1..BlockFrames]) /\ Len(out') = Len(out) + 1
            BY <1>0, <3>1, <3>2, AppendProperties
        <3> QED BY <1>1, <3>2, <3>3
    <2>2. packets' \in 0..MaxFrames
        <3>1. packets < s[p + 1] /\ s[p + 1] <= MaxFrames /\ s[p + 1] \in Nat
            BY <1>1, <1>2, <1>4 DEF RingInv, Numbered, Done
        <3> QED BY <1>0, <1>1, <3>1
    <2>3. packet_index' \in 0..(BlockFrames - 1) /\ packets_in_block' \in 0..BlockFrames
          /\ release_block' \in BOOLEAN /\ pc' \in {"loop", "idle"}
        <3> HIDE DEF n
        <3>1. release_block \in BOOLEAN
            BY DEF RingInv, TypeOK
        <3>2. CASE p + 1 = n
            BY <1>0, <1>1, <3>2
        <3>3. CASE p + 1 # n
            <4>1. packet_index' = p + 1 /\ packets_in_block' = n /\ UNCHANGED <<release_block, pc>>
                BY <1>0, <3>3
            <4>2. p + 1 \in 0..(BlockFrames - 1) /\ n \in 0..BlockFrames
                BY <1>1, <1>4, <3>3
            <4> QED BY <1>0, <3>1, <4>1, <4>2
        <3> QED BY <3>2, <3>3
    <2> QED BY <1>0, <2>1, <2>2, <2>3 DEF RingInv, TypeOK, CallPcs
<1>6. RingOK'
    <2> PICK k \in 0..kBlockCount : Ring(k)
        BY DEF RingInv, RingOK
    <2>1. k > 0
        <3>1. Off(block_index) = 0
            BY <1>1, DistFacts DEF Off
        <3> QED BY <1>1, <1>2, <3>1 DEF Ring
    <2>2. Ring(k)'
        BY <1>0, <2>1 DEF Ring, Off
    <2> QED BY <2>2 DEF RingOK
<1>7. CursorOK'
    <2>1. \A b \in Blocks : status'[b] # {} => content'[b] # <<>>
        BY <1>0 DEF RingInv, CursorOK
    <2>2. CASE p + 1 = n
        BY <1>0, <2>1, <2>2 DEF CursorOK, CallPcs
    <2>3. CASE p + 1 # n
        <3>1. packet_index' = p + 1 /\ packets_in_block' = n /\ UNCHANGED <<release_block, pc>>
            BY <1>0, <2>3
        <3>2. packet_index' < packets_in_block'
            BY <1>1, <1>4, <2>3, <3>1
        <3> QED BY <1>0, <1>2, <1>4, <2>1, <3>1, <3>2 DEF CursorOK
    <2> QED BY <2>2, <2>3
<1>8. Done' = p + 1
    BY <1>0, <1>2, <1>4 DEF Done
<1>9. Numbered'
    <2> DEFINE v == s[p + 1]
    <2>0. v \in Nat /\ packets < v /\ v <= arrived
        BY <1>1, <1>2, <1>4 DEF RingInv, Numbered, Done
    <2>1. packets' <= v /\ packets' <= arrived' /\ packets' \in Nat
        BY <1>0, <1>1, <2>0
    <2>2. \A b \in Blocks : Counted(b)' <=> Counted(b)
        BY <1>0 DEF Counted
    <2>3. ASSUME NEW b \in Blocks, Counted(b), NEW i \in DOMAIN content[b], b = block_index => i > p + 1
          PROVE  packets' < content[b][i]
        <3>1. v < content[b][i]
            <4>1. CASE b = block_index
                BY <1>1, <1>4, <2>3, <4>1 DEF RingInv, Numbered
            <4>2. CASE b # block_index
                <5>1. Off(block_index) < Off(b)
                    BY <1>1, <4>2, DistFacts DEF Off
                <5> QED BY <1>1, <1>2, <1>4, <2>3, <5>1 DEF RingInv, Numbered
            <4> QED BY <4>1, <4>2
        <3>2. content[b][i] \in Nat
            BY BlockTypes DEF RingInv
        <3> QED BY <2>0, <2>1, <3>1, <3>2
    <2>4. ASSUME NEW b \in Blocks, Counted(b)', NEW i \in DOMAIN content'[b]
          PROVE  /\ content'[b][i] <= arrived'
                 /\ (b = block_index' => i > Done') => packets' < content'[b][i]
                 /\ \A j \in DOMAIN content'[b] : i < j => content'[b][i] < content'[b][j]
        <3>1. Counted(b) /\ content'[b] = content[b] /\ arrived' = arrived /\ block_index' = block_index
            BY <1>0, <2>2, <2>4
        <3>2. (b = block_index => i > p + 1) => packets' < content[b][i]
            BY <2>3, <2>4, <3>1
        <3> QED BY <1>8, <2>4, <3>1, <3>2 DEF RingInv, Numbered
    <2>5. ASSUME NEW a \in Blocks, NEW b \in Blocks, Counted(a)', Counted(b)', Off(a)' < Off(b)'
          PROVE  \A i \in DOMAIN content'[a], j \in DOMAIN content'[b] : content'[a][i] < content'[b][j]
        BY <1>0, <2>2, <2>5 DEF RingInv, Numbered, Off
    <2> QED BY <2>1, <2>4, <2>5 DEF Numbered
<1> QED BY <1>5, <1>6, <1>7, <1>9 DEF RingInv

-----------------------------------------------------------------------------
(* Its preservation by the kernel.                                         *)

\* The order of the frames survives a step in which the last counted block t
\* gets at most the frame that arrives, and no other block gets anything.
LEMMA NumberedGrows ==
  ASSUME RingInv, TypeOK', UNCHANGED <<cursor, packets>>, arrived' \in {arrived, arrived + 1},
         NEW t \in Blocks,
         \A b \in Blocks : Counted(b)' /\ b # t => Counted(b) /\ content'[b] = content[b],
         \A b \in Blocks : Counted(b)' /\ Counted(t)' => Off(b) <= Off(t),
         Counted(t)' =>
           \A i \in DOMAIN content'[t] :
             \/ content'[t][i] = arrived' /\ arrived' = arrived + 1 /\ i = Len(content'[t])
             \/ Counted(t) /\ i \in DOMAIN content[t] /\ content'[t][i] = content[t][i],
         \A b \in Blocks : status[b] # {} => content'[b] = content[b]
  PROVE  Numbered'
<1>0. /\ UNCHANGED <<block_index, packet_index, packets_in_block, release_block, packets>>
      /\ packets \in Nat /\ arrived \in Nat /\ arrived' \in Nat /\ packets <= arrived
      /\ arrived <= arrived' /\ packets' <= arrived'
    BY BlockTypes DEF cursor, RingInv, Numbered
<1>1. \A b \in Blocks : Off(b)' = Off(b) /\ Off(b) \in Nat
    BY <1>0, DistFacts, BlockTypes, PacketAssumption DEF Off, RingInv
<1>2. Done' = Done
    <2>1. release_block => content'[block_index] = content[block_index]
        <3>1. block_index \in Blocks /\ Off(block_index) = 0
            BY BlockTypes, DistFacts DEF Off, RingInv
        <3> QED BY <3>1 DEF RingInv, RingOK, Ring
    <2> QED BY <1>0, <2>1 DEF Done
<1>3. ASSUME NEW b \in Blocks
      PROVE  /\ Len(content'[b]) \in Nat /\ DOMAIN content'[b] = 1..Len(content'[b])
             /\ \A i \in DOMAIN content'[b] : content'[b][i] \in Nat
             /\ \A i \in DOMAIN content[b] : content[b][i] \in Nat
    <2>1. content'[b] \in BoundedSeq(1..MaxFrames, BlockFrames)
        BY DEF TypeOK
    <2>2. content'[b] \in Seq(1..MaxFrames)
        BY <2>1, BlockSeq
    <2>3. Len(content'[b]) \in Nat /\ DOMAIN content'[b] = 1..Len(content'[b])
        BY <2>2, LenProperties
    <2>4. \A i \in DOMAIN content'[b] : content'[b][i] \in Nat
        <3> PICK q \in Seq(1..MaxFrames) : q = content'[b]
            BY <2>2
        <3>1. \A i \in 1..Len(q) : q[i] \in 1..MaxFrames
            BY ElementOfSeq
        <3> QED BY <2>3, <3>1
    <2>5. \A i \in DOMAIN content[b] : content[b][i] \in Nat
        BY BlockTypes DEF RingInv
    <2> QED BY <2>3, <2>4, <2>5
\* Every frame that counts is an old one or the one that arrives.
<1>4. ASSUME NEW b \in Blocks, Counted(b)', NEW i \in DOMAIN content'[b]
      PROVE  \/ Counted(b) /\ i \in DOMAIN content[b] /\ content'[b][i] = content[b][i]
             \/ /\ b = t /\ content'[b][i] = arrived' /\ arrived' = arrived + 1
                /\ i = Len(content'[b])
    BY <1>4
<1>5. ASSUME NEW b \in Blocks, Counted(b)', NEW i \in DOMAIN content'[b]
      PROVE  /\ content'[b][i] <= arrived'
             /\ (b = block_index' => i > Done') => packets' < content'[b][i]
             /\ \A j \in DOMAIN content'[b] : i < j => content'[b][i] < content'[b][j]
    <2>1. CASE Counted(b) /\ i \in DOMAIN content[b] /\ content'[b][i] = content[b][i]
        <3>1. content[b][i] <= arrived /\ ((b = block_index => i > Done) => packets < content[b][i])
            BY <2>1 DEF RingInv, Numbered
        <3>2. ASSUME NEW j \in DOMAIN content'[b], i < j PROVE content'[b][i] < content'[b][j]
            <4>1. CASE j \in DOMAIN content[b] /\ content'[b][j] = content[b][j]
                BY <2>1, <3>2, <4>1 DEF RingInv, Numbered
            <4>2. CASE content'[b][j] = arrived' /\ arrived' = arrived + 1
                BY <1>0, <1>3, <2>1, <3>1, <4>2
            <4> QED BY <1>4, <1>5, <4>1, <4>2
        <3> QED BY <1>0, <1>2, <1>3, <2>1, <3>1, <3>2
    <2>2. CASE content'[b][i] = arrived' /\ arrived' = arrived + 1 /\ i = Len(content'[b])
        BY <1>0, <1>3, <2>2
    <2> QED BY <1>4, <1>5, <2>1, <2>2
<1>6. ASSUME NEW a \in Blocks, NEW b \in Blocks, Counted(a)', Counted(b)', Off(a)' < Off(b)',
             NEW i \in DOMAIN content'[a], NEW j \in DOMAIN content'[b]
      PROVE  content'[a][i] < content'[b][j]
    <2>1. Off(a) < Off(b)
        BY <1>1, <1>6
    <2>2. a # t
        BY <1>1, <1>6, <2>1
    <2>3. Counted(a) /\ i \in DOMAIN content[a] /\ content'[a][i] = content[a][i]
        BY <1>6, <2>2
    <2>4. CASE Counted(b) /\ j \in DOMAIN content[b] /\ content'[b][j] = content[b][j]
        BY <2>1, <2>3, <2>4 DEF RingInv, Numbered
    <2>5. CASE content'[b][j] = arrived' /\ arrived' = arrived + 1
        <3>1. content[a][i] <= arrived /\ content[a][i] \in Nat
            BY <1>3, <2>3 DEF RingInv, Numbered
        <3> QED BY <1>0, <2>3, <2>5, <3>1
    <2> QED BY <1>4, <1>6, <2>4, <2>5
<1> QED BY <1>0, <1>5, <1>6 DEF Numbered

\* The kernel hands the current block over and goes on with the next one.
LEMMA HandOverStep ==
  ASSUME RingInv, NEW flags \in {{"USER"}, {"USER", "TMO"}}, NEW s,
         filling, content[kblock] # <<>>, HandOver(flags, s),
         UNCHANGED <<pc, cursor, out, packets>>,
         \/ arrived' = arrived /\ s = <<>>
         \/ arrived < MaxFrames /\ arrived' = arrived + 1 /\ s = <<arrived'>>
  PROVE  RingInv'
<1> PICK b \in Blocks : b = FollowingBlock(kblock)
    BY BlockTypes, RingSteps DEF RingInv
<1> PICK k \in Blocks : k = kblock
    BY BlockTypes DEF RingInv
<1>0. /\ block_index \in Blocks /\ kblock' = b
      /\ kBlockCount \in Nat \ {0} /\ BlockFrames \in Nat \ {0} /\ MaxFrames \in Nat
      /\ arrived \in 0..MaxFrames /\ arrived' \in 0..MaxFrames
      /\ UNCHANGED <<block_index, packet_index, packets_in_block, release_block>>
    BY BlockTypes, RingSteps, PacketAssumption DEF RingInv, HandOver, cursor
<1>1. /\ status' = [status EXCEPT ![kblock] = flags] /\ filling' = (status'[b] = {})
      /\ content' = IF filling' THEN [content EXCEPT ![b] = s] ELSE content
    BY DEF HandOver
<1>2. /\ status \in [Blocks -> {{}, {"USER"}, {"USER", "TMO"}}]
      /\ content \in [Blocks -> BoundedSeq(1..MaxFrames, BlockFrames)]
    BY DEF RingInv, TypeOK
<1>3. /\ \A a \in Blocks : status'[a] = IF a = k THEN flags ELSE status[a]
      /\ flags # {} /\ filling' \in BOOLEAN /\ (filling' <=> status'[b] = {})
    BY <1>1, <1>2
<1>4. /\ filling' => b # k
      /\ \A a \in Blocks : content'[a] = IF filling' /\ a = b THEN s ELSE content[a]
    BY <1>0, <1>1, <1>2, <1>3
<1>5. \A a \in Blocks : status[a] # {} \/ a = k => content'[a] = content[a]
    BY <1>0, <1>3, <1>4
<1>6. TypeOK'
    <2>1. s \in BoundedSeq(1..MaxFrames, BlockFrames)
        <3>1. s \in Seq(1..MaxFrames) /\ Len(s) <= BlockFrames
            <4>1. CASE s = <<>>
                BY <1>0, <4>1, EmptySeq
            <4>2. CASE arrived' = arrived + 1 /\ s = <<arrived'>>
                <5>1. arrived' \in 1..MaxFrames
                    BY <1>0, <4>2
                <5> QED BY <1>0, <4>2, <5>1
            <4> QED BY <4>1, <4>2
        <3> QED BY <3>1, BlockSeq
    <2>2. content' \in [Blocks -> BoundedSeq(1..MaxFrames, BlockFrames)]
        BY <1>0, <1>1, <1>2, <2>1
    <2>3. status' \in [Blocks -> {{}, {"USER"}, {"USER", "TMO"}}]
        BY <1>0, <1>1, <1>2
    <2> QED BY <1>0, <1>3, <2>2, <2>3 DEF RingInv, TypeOK, cursor
<1> PICK n \in 0..kBlockCount : Ring(n)
    BY DEF RingInv, RingOK
<1>7. Off(k) = n /\ n < kBlockCount /\ n \in Nat
    BY <1>0 DEF Ring
<1>8. /\ \A a \in Blocks : Off(a) \in Nat /\ (Off(a) = n <=> a = k)
      /\ Off(b) = IF n + 1 = kBlockCount THEN 0 ELSE n + 1
      /\ Off(b) = 0 <=> b = block_index
    <2>1. \A a \in Blocks : Off(a) \in 0..(kBlockCount - 1) /\ (Off(a) = Off(k) => a = k)
        BY <1>0, DistFacts DEF Off
    <2>2. /\ Off(b) = IF Off(k) + 1 = kBlockCount THEN 0 ELSE Off(k) + 1
          /\ Off(b) = 0 <=> b = block_index
        <3> PICK x \in Blocks : x = block_index
            BY <1>0
        <3>1. b = NextBlock(k)
            BY RingSteps
        <3>2. Dist(x, NextBlock(k)) = IF Dist(x, k) + 1 = kBlockCount THEN 0 ELSE Dist(x, k) + 1
            BY DistNext
        <3>3. Dist(x, b) = 0 <=> b = x
            BY DistFacts
        <3> QED BY <3>1, <3>2, <3>3 DEF Off
    <2> QED BY <1>7, <2>1, <2>2
<1>9. /\ \A a \in Blocks : Off(a)' = Off(a)
      /\ \A a \in Blocks : status'[a] # {} <=> Off(a) < n + 1
    <2>1. \A a \in Blocks : Off(a)' = Off(a)
        BY <1>0 DEF Off
    <2>2. \A a \in Blocks : status'[a] # {} <=> Off(a) < n + 1
        BY <1>3, <1>7, <1>8 DEF Ring
    <2> QED BY <2>1, <2>2
<1>10. filling' => n + 1 < kBlockCount
    BY <1>0, <1>3, <1>7, <1>8, <1>9
<1>11. RingOK'
    <2>1. Off(kblock)' = Off(b)
        BY <1>0 DEF Off
    <2>2. Off(b) = n + 1 \/ (n + 1 = kBlockCount /\ b = block_index)
        BY <1>8
    <2>3. Ring(n + 1)'
        BY <1>0, <1>7, <1>9, <1>10, <2>1, <2>2 DEF Ring
    <2>4. n + 1 \in 0..kBlockCount
        BY <1>0, <1>7
    <2> QED BY <2>3, <2>4 DEF RingOK
<1>12. CursorOK'
    <2>1. \A a \in Blocks : status'[a] # {} => content'[a] # <<>>
        BY <1>3, <1>5 DEF RingInv, CursorOK
    <2>2. status[block_index] # {} => status'[block_index] # {} /\ content'[block_index] = content[block_index]
        BY <1>0, <1>3, <1>5
    <2>3. pc' = pc
        OBVIOUS
    <2> QED BY <1>0, <2>1, <2>2, <2>3 DEF RingInv, CursorOK
<1>13. Numbered'
    <2>0. /\ UNCHANGED <<cursor, packets>> /\ arrived' \in {arrived, arrived + 1}
          /\ \A a \in Blocks : status[a] # {} => content'[a] = content[a]
          /\ Counted(k) /\ k \in Blocks
        BY <1>5 DEF Counted
    <2>1. CASE filling'
        <3>1. \A a \in Blocks : Counted(a)' /\ a # b => Counted(a) /\ content'[a] = content[a]
            BY <1>0, <1>3, <1>4, <2>0 DEF Counted
        <3>2. \A a \in Blocks : Counted(a)' /\ Counted(b)' => Off(a) <= Off(b)
            BY <1>0, <1>7, <1>8, <1>9, <1>10, <2>1 DEF Counted
        <3>3. \A i \in DOMAIN content'[b] :
                content'[b][i] = arrived' /\ arrived' = arrived + 1 /\ i = Len(content'[b])
            <4>1. content'[b] = s
                BY <1>0, <1>4, <2>1
            <4>2. CASE s = <<>>
                BY <4>1, <4>2
            <4>3. CASE arrived' = arrived + 1 /\ s = <<arrived'>>
                <5> PICK v : v = arrived'
                    OBVIOUS
                <5>1. DOMAIN <<v>> = {1} /\ <<v>>[1] = v /\ Len(<<v>>) = 1
                    OBVIOUS
                <5> QED BY <4>1, <4>3, <5>1
            <4> QED BY <4>2, <4>3
        <3> QED BY <1>0, <1>6, <2>0, <3>1, <3>2, <3>3, NumberedGrows
    <2>2. CASE ~filling'
        <3>1. \A a \in Blocks : Counted(a)' => Counted(a) /\ content'[a] = content[a] /\ Off(a) <= n
            BY <1>0, <1>3, <1>4, <1>7, <1>8, <1>9, <2>0, <2>2 DEF Counted
        <3> QED BY <1>0, <1>6, <1>7, <2>0, <3>1, NumberedGrows
    <2> QED BY <1>3, <2>1, <2>2
<1> QED BY <1>6, <1>11, <1>12, <1>13 DEF RingInv

\* A frame arrives, or the timer hands a block over.
LEMMA KernelStep == ASSUME RingInv, Receive \/ Retire PROVE RingInv'
<1> PICK k \in Blocks : k = kblock
    BY BlockTypes DEF RingInv
<1>0. /\ kBlockCount \in Nat \ {0} /\ BlockFrames \in Nat \ {0} /\ MaxFrames \in Nat
      /\ content \in [Blocks -> BoundedSeq(1..MaxFrames, BlockFrames)]
      /\ content[k] \in Seq(1..MaxFrames) /\ Len(content[k]) \in Nat
      /\ block_index \in Blocks /\ arrived \in 0..MaxFrames
      /\ UNCHANGED <<pc, cursor, out, packets>>
    BY BlockTypes, PacketAssumption DEF RingInv, TypeOK, Receive, Retire
<1>1. CASE Retire
    BY <1>0, <1>1, HandOverStep DEF Retire
<1>2. CASE Receive
    <2>0. arrived < MaxFrames /\ arrived' = arrived + 1 /\ arrived' \in 1..MaxFrames
        BY <1>0, <1>2 DEF Receive
    <2>1. CASE filling /\ Len(content[k]) = BlockFrames /\ HandOver({"USER"}, <<arrived + 1>>)
        <3>1. content[kblock] # <<>>
            BY <1>0, <2>1, EmptySeq
        <3> QED BY <1>0, <2>0, <2>1, <3>1, HandOverStep
    \* The frame goes into the current block, behind what is there.
    <2>2. ASSUME NEW q, q \in BoundedSeq(1..MaxFrames, BlockFrames),
                 content' = [content EXCEPT ![k] = q], status[k] = {}, filling' = TRUE,
                 UNCHANGED <<status, kblock>>,
                 \A i \in DOMAIN q : \/ q[i] = arrived' /\ i = Len(q)
                                     \/ filling /\ i \in DOMAIN content[k] /\ q[i] = content[k][i]
          PROVE  RingInv'
        <3>1. \A a \in Blocks : content'[a] = IF a = k THEN q ELSE content[a]
            BY <1>0, <2>2
        <3>2. UNCHANGED <<block_index, packet_index, packets_in_block, release_block>>
            BY <1>0 DEF cursor
        <3>3. TypeOK'
            <4>1. content' \in [Blocks -> BoundedSeq(1..MaxFrames, BlockFrames)]
                BY <1>0, <2>2
            <4>2. filling' \in BOOLEAN /\ arrived' \in 0..MaxFrames
                BY <2>0, <2>2
            <4> QED BY <1>0, <2>2, <3>2, <4>1, <4>2 DEF RingInv, TypeOK
        <3> PICK n \in 0..kBlockCount : Ring(n)
            BY DEF RingInv, RingOK
        <3>4. /\ \A a \in Blocks : Off(a) \in 0..(kBlockCount - 1)
              /\ \A a \in Blocks : Off(a) = Off(k) => a = k
            BY <1>0, DistFacts DEF Off
        <3>5. Off(k) = n /\ n < kBlockCount /\ n \in Nat
            BY <1>0, <2>2, <3>4 DEF Ring
        <3>6. RingOK'
            <4>1. Ring(n)'
                BY <2>2, <3>2, <3>5 DEF Ring, Off
            <4> QED BY <4>1 DEF RingOK
        <3>7. CursorOK'
            BY <1>0, <2>2, <3>1, <3>2 DEF RingInv, CursorOK
        <3>8. Numbered'
            <4>1. \A a \in Blocks : Counted(a)' /\ a # k => Counted(a) /\ content'[a] = content[a]
                BY <2>2, <3>1 DEF Counted
            <4>2. \A a \in Blocks : Counted(a)' => Off(a) <= Off(k)
                BY <2>2, <3>4, <3>5 DEF Counted, Ring
            <4>3. \A i \in DOMAIN content'[k] :
                    \/ content'[k][i] = arrived' /\ arrived' = arrived + 1 /\ i = Len(content'[k])
                    \/ Counted(k) /\ i \in DOMAIN content[k] /\ content'[k][i] = content[k][i]
                BY <2>0, <2>2, <3>1 DEF Counted
            <4>4. \A a \in Blocks : status[a] # {} => content'[a] = content[a]
                BY <2>2, <3>1
            <4>5. UNCHANGED <<cursor, packets>> /\ arrived' \in {arrived, arrived + 1}
                BY <1>0, <2>0
            <4> QED BY <3>3, <4>1, <4>2, <4>3, <4>4, <4>5, NumberedGrows
        <3> QED BY <3>3, <3>6, <3>7, <3>8 DEF RingInv
    <2>3. CASE filling /\ Len(content[k]) < BlockFrames
               /\ content' = [content EXCEPT ![k] = Append(@, arrived + 1)]
               /\ UNCHANGED <<status, kblock, filling>>
        <3> PICK v \in 1..MaxFrames : v = arrived'
            BY <2>0
        <3> PICK c \in Seq(1..MaxFrames) : c = content[k]
            BY <1>0
        <3>1. /\ Append(c, v) \in Seq(1..MaxFrames) /\ Len(Append(c, v)) = Len(c) + 1
              /\ \A i \in 1..Len(c) : Append(c, v)[i] = c[i]
              /\ Append(c, v)[Len(c) + 1] = v
            BY AppendProperties
        <3> PICK q : q = Append(c, v)
            OBVIOUS
        <3>2. q \in BoundedSeq(1..MaxFrames, BlockFrames)
            <4>1. Len(q) <= BlockFrames
                BY <1>0, <2>3, <3>1
            <4> QED BY <3>1, <4>1, BlockSeq
        <3>3. ASSUME NEW i \in DOMAIN q
              PROVE  \/ q[i] = v /\ i = Len(q)
                     \/ i \in DOMAIN c /\ q[i] = c[i]
            <4>1. Len(c) \in Nat /\ DOMAIN c = 1..Len(c) /\ DOMAIN q = 1..(Len(c) + 1)
                BY <3>1, LenProperties
            <4>2. i = Len(c) + 1 \/ i \in 1..Len(c)
                BY <4>1
            <4> QED BY <3>1, <4>1, <4>2
        <3>4. content' = [content EXCEPT ![k] = q]
            BY <2>0, <2>3
        <3>5. status[k] = {}
            <4> PICK n \in 0..kBlockCount : Ring(n)
                BY DEF RingInv, RingOK
            <4>1. Off(k) = n
                BY <1>0, <2>3 DEF Ring
            <4> QED BY <1>0, <4>1 DEF Ring
        <3>6. filling' = TRUE
            BY <2>3 DEF RingInv, TypeOK
        <3>7. \A i \in DOMAIN q : \/ q[i] = arrived' /\ i = Len(q)
                                  \/ filling /\ i \in DOMAIN content[k] /\ q[i] = content[k][i]
            BY <2>3, <3>3
        <3>8. UNCHANGED <<status, kblock>>
            BY <2>3
        <3> QED BY <2>2, <3>2, <3>4, <3>5, <3>6, <3>7, <3>8, Zenon
    <2>4. CASE ~filling /\ status[k] = {} /\ content' = [content EXCEPT ![k] = <<arrived + 1>>]
               /\ filling' = TRUE /\ UNCHANGED <<status, kblock>>
        <3> PICK v \in 1..MaxFrames : v = arrived'
            BY <2>0
        <3> PICK q : q = <<v>>
            OBVIOUS
        <3>1. q \in Seq(1..MaxFrames) /\ Len(q) = 1 /\ DOMAIN q = {1} /\ q[1] = v
            OBVIOUS
        <3>2. q \in BoundedSeq(1..MaxFrames, BlockFrames)
            <4>1. Len(q) <= BlockFrames
                BY <1>0, <3>1
            <4> QED BY <3>1, <4>1, BlockSeq, Zenon
        <3>3. content' = [content EXCEPT ![k] = q]
            BY <2>0, <2>4
        <3>4. \A i \in DOMAIN q : \/ q[i] = arrived' /\ i = Len(q)
                                  \/ filling /\ i \in DOMAIN content[k] /\ q[i] = content[k][i]
            BY <3>1
        <3> QED BY <2>2, <2>4, <3>2, <3>3, <3>4, Zenon
    <2>5. CASE ~filling /\ UNCHANGED <<status, content, kblock, filling>>
        <3>1. UNCHANGED <<block_index, packet_index, packets_in_block, release_block>>
            BY <1>0 DEF cursor
        <3>2. TypeOK'
            BY <1>0, <2>0, <2>5, <3>1 DEF RingInv, TypeOK
        <3>3. RingOK' /\ CursorOK'
            BY <1>0, <2>5, <3>1 DEF RingInv, RingOK, Ring, Off, CursorOK
        <3>4. Numbered'
            <4>1. /\ packets \in Nat /\ packets <= arrived
                  /\ \A b \in Blocks : \A i \in DOMAIN content[b] : content[b][i] \in Nat
                BY BlockTypes DEF RingInv, Numbered
            <4>2. packets' <= arrived' /\ packets' = packets
                BY <1>0, <2>0, <4>1
            <4>3. \A b \in Blocks : (Counted(b)' <=> Counted(b)) /\ Off(b)' = Off(b)
                BY <2>5, <3>1 DEF Counted, Off
            <4>4. Done' = Done
                BY <2>5, <3>1 DEF Done
            <4>5. \A b \in Blocks : Counted(b) => \A i \in DOMAIN content[b] : content[b][i] <= arrived'
                BY <1>0, <2>0, <4>1 DEF RingInv, Numbered
            <4> QED BY <2>5, <3>1, <4>2, <4>3, <4>4, <4>5 DEF RingInv, Numbered
        <3> QED BY <3>2, <3>3, <3>4 DEF RingInv
    <2> QED BY <1>2, <2>1, <2>3, <2>4, <2>5 DEF Receive
<1> QED BY <1>1, <1>2

\* Every step preserves the invariant.
LEMMA RingStep == RingInv /\ [Next]_vars => RingInv'
  BY QuietStep, ReleaseStep, EnterStep, ReadStep, KernelStep DEF Next, recvImpl

\* The backend starts in the invariant.
LEMMA RingInit == Init => RingInv
<1> SUFFICES ASSUME Init PROVE RingInv
    OBVIOUS
<1> USE PacketAssumption
<1>1. \A b \in Blocks : status[b] = {} /\ content[b] = <<>> /\ DOMAIN content[b] = {}
    BY DEF Init
<1>2. 0 \in Blocks /\ \A b \in Blocks : Dist(0, b) \in Nat /\ Dist(0, 0) = 0
    BY DEF Blocks, Dist
<1>3. TypeOK
    <2>1. <<>> \in BoundedSeq(1..MaxFrames, BlockFrames)
        <3>1. <<>> \in Seq(1..MaxFrames) /\ Len(<<>>) <= BlockFrames
            BY EmptySeq
        <3> QED BY <3>1, BlockSeq, Zenon
    <2>2. content \in [Blocks -> BoundedSeq(1..MaxFrames, BlockFrames)]
        BY <2>1 DEF Init
    <2>3. status \in [Blocks -> {{}, {"USER"}, {"USER", "TMO"}}]
        BY DEF Init
    <2>4. out \in Seq([block : Blocks, at : 1..BlockFrames]) /\ Len(out) <= ArraySize
        BY EmptySeq DEF Init
    <2>5. filling \in BOOLEAN /\ release_block \in BOOLEAN
        BY DEF Init
    <2> QED BY <1>2, <2>2, <2>3, <2>4, <2>5 DEF Init, TypeOK
<1>4. RingOK
    <2>1. Ring(0)
        BY <1>1, <1>2 DEF Init, Ring, Off
    <2>2. 0 \in 0..kBlockCount
        OBVIOUS
    <2> QED BY <2>1, <2>2 DEF RingOK
<1>5. CursorOK
    BY <1>1 DEF Init, CursorOK
<1>6. Numbered
    BY <1>1 DEF Init, Numbered
<1> QED BY <1>3, <1>4, <1>5, <1>6 DEF RingInv

-----------------------------------------------------------------------------
(* What holds in every state.                                              *)

\* However the kernel fills and hands over blocks, the cursor of recvImpl
\* stays inside a block, no Frame points past a block, no more Frames are
\* handed out than the array holds and no more frames counted than arrived.
THEOREM PacketTypes == Spec => []TypeOK
<1>1. RingInv => TypeOK
    BY DEF RingInv
<1> QED BY <1>1, RingInit, RingStep, PTL DEF Spec

\* When epoll_wait says that the socket is readable, the block recvImpl looks
\* at was handed over, for a ring of any number of blocks.
THEOREM ReadableOurs == Spec => []ReadableIsOurs
<1>1. RingInv => ReadableIsOurs
    <2> SUFFICES ASSUME RingInv, Readable PROVE "USER" \in status[block_index]
        BY DEF ReadableIsOurs
    <2>0. /\ kblock \in Blocks /\ block_index \in Blocks /\ kBlockCount \in Nat \ {0}
          /\ status \in [Blocks -> {{}, {"USER"}, {"USER", "TMO"}}]
        BY PacketAssumption DEF RingInv, TypeOK
    <2> PICK n \in 0..kBlockCount : Ring(n)
        BY DEF RingInv, RingOK
    <2>1. /\ PreviousBlock(kblock) \in Blocks /\ Off(block_index) = 0
          /\ Off(PreviousBlock(kblock)) = IF Off(kblock) = 0 THEN kBlockCount - 1 ELSE Off(kblock) - 1
        BY <2>0, RingSteps, DistFacts DEF Off
    <2>2. Off(PreviousBlock(kblock)) < n
        BY <2>1 DEF Readable, Ring
    <2>3. 0 < n
        BY <2>0, <2>1, <2>2 DEF Ring
    <2>4. status[block_index] # {}
        BY <2>0, <2>1, <2>3 DEF Ring
    <2> QED BY <2>0, <2>4
<1> QED BY <1>1, RingInit, RingStep, PTL DEF Spec

-----------------------------------------------------------------------------
(***************************************************************************)
(* The two filters let the same traffic through.  The outcome of the BPF   *)
(* program is given for each of its instructions; it satisfies the         *)
(* recursion by which Accepted runs the program, and, going backwards from *)
(* the last instruction, it is the only one that does.                     *)
(***************************************************************************)

\* run satisfies the recursion.
Runs(run, f) == run = [i \in 1..Len(filter) |-> [a \in Loaded |-> Execute(f, run, i, a)]]

\* The instructions of the filter, one by one.
LEMMA Code ==
  /\ Len(filter) = 13
  /\ filter[1] = LD("h12", 12, 2)  /\ filter[2] = JEQ("IP", 0, 4)
  /\ filter[3] = LD("b23", 23, 1)  /\ filter[4] = JEQ("UDP", 0, 7)
  /\ filter[5] = LD("h36", 36, 2)  /\ filter[6] = JEQ("9100", 6, 5)
  /\ filter[7] = JEQ("IPV6", 0, 4)
  /\ filter[8] = LD("b20", 20, 1)  /\ filter[9] = JEQ("UDP", 0, 2)
  /\ filter[10] = LD("h56", 56, 2) /\ filter[11] = JEQ("9100", 1, 0)
  /\ filter[12] = RET("none") /\ filter[13] = RET("all")
  BY DEF filter

\* What a jump makes of a frame.
LEMMA ExecJeq ==
  ASSUME NEW f, NEW run, NEW i, NEW a, NEW k, NEW jt \in Nat, NEW jf \in Nat,
         filter[i] = JEQ(k, jt, jf)
  PROVE  Execute(f, run, i, a) = run[i + 1 + (IF a = k THEN jt ELSE jf)][a]
  BY DEF Execute, JEQ

\* What a return makes of it.
LEMMA ExecRet ==
  ASSUME NEW f, NEW run, NEW i, NEW a, NEW b, filter[i] = RET(b)
  PROVE  Execute(f, run, i, a) = b
  BY DEF Execute, RET

\* The frames that pass from an instruction on, by what was loaded.
Port4(f) == 38 <= f.len /\ f.h36 = "9100"
Udp4(f) == 24 <= f.len /\ f.b23 = "UDP" /\ Port4(f)
Port6(f) == 58 <= f.len /\ f.h56 = "9100"
Udp6(f) == 21 <= f.len /\ f.b20 = "UDP" /\ Port6(f)
Ip(f, a) == (a = "IP" /\ Udp4(f)) \/ (a = "IPV6" /\ Udp6(f))

Passes(f, i, a) ==
  \/ i = 1 /\ 14 <= f.len /\ Ip(f, f.h12)
  \/ i = 2 /\ Ip(f, a)
  \/ i = 3 /\ Udp4(f)
  \/ i = 4 /\ a = "UDP" /\ Port4(f)
  \/ i = 5 /\ Port4(f)
  \/ i = 6 /\ a = "9100"
  \/ i = 7 /\ a = "IPV6" /\ Udp6(f)
  \/ i = 8 /\ Udp6(f)
  \/ i = 9 /\ a = "UDP" /\ Port6(f)
  \/ i = 10 /\ Port6(f)
  \/ i = 11 /\ a = "9100"
  \/ i = 13

\* What the filter lets into the ring of a frame, from instruction i on.
Outcome(f, i, a) == IF Passes(f, i, a) THEN "all" ELSE "none"

\* The fields of a frame that are loaded.
LEMMA FieldsLoaded ==
  ASSUME NEW f \in WireFrames
  PROVE  /\ f["h12"] = f.h12 /\ f["b23"] = f.b23 /\ f["h36"] = f.h36
         /\ f["b20"] = f.b20 /\ f["h56"] = f.h56
         /\ f.len \in Nat
         /\ {f.h12, f.b23, f.h36, f.b20, f.h56} \subseteq Loaded
  BY FilterAssumption DEF WireFrames, Loaded

\* If the instructions behind i have the outcome given for them, so has i.
LEMMA OneStep ==
  ASSUME NEW f \in WireFrames, NEW run, NEW i \in 1..13, NEW a \in Loaded,
         \A j \in 1..13, b \in Loaded : j > i => run[j][b] = Outcome(f, j, b)
  PROVE  Execute(f, run, i, a) = Outcome(f, i, a)
<1>1. CASE i = 1
    <2>0. filter[i] = LD("h12", 12, 2)
        BY <1>1, Code
    <2>1. Execute(f, run, i, a) = IF 12 + 2 <= f.len THEN run[i + 1][f["h12"]] ELSE "none"
        BY <2>0 DEF Execute, LD
    <2>2. run[2][f.h12] = Outcome(f, 2, f.h12)
        BY <1>1, FieldsLoaded
    <2> QED BY <1>1, <2>1, <2>2, FieldsLoaded DEF Passes, Outcome, Ip
<1>2. CASE i = 2
    <2>1. Execute(f, run, i, a) = run[i + 1 + (IF a = "IP" THEN 0 ELSE 4)][a]
        BY <1>2, Code, ExecJeq
    <2>2. run[3][a] = Outcome(f, 3, a) /\ run[7][a] = Outcome(f, 7, a)
        BY <1>2
    <2>3. CASE a = "IP"
        BY <1>2, <2>1, <2>2, <2>3 DEF Outcome, Passes, Ip
    <2>4. CASE a # "IP"
        BY <1>2, <2>1, <2>2, <2>4 DEF Outcome, Passes, Ip
    <2> QED BY <2>3, <2>4
<1>3. CASE i = 3
    <2>0. filter[i] = LD("b23", 23, 1)
        BY <1>3, Code
    <2>1. Execute(f, run, i, a) = IF 23 + 1 <= f.len THEN run[i + 1][f["b23"]] ELSE "none"
        BY <2>0 DEF Execute, LD
    <2>2. run[4][f.b23] = Outcome(f, 4, f.b23)
        BY <1>3, FieldsLoaded
    <2> QED BY <1>3, <2>1, <2>2, FieldsLoaded DEF Passes, Outcome, Udp4
<1>4. CASE i = 4
    <2>1. Execute(f, run, i, a) = run[i + 1 + (IF a = "UDP" THEN 0 ELSE 7)][a]
        BY <1>4, Code, ExecJeq
    <2>2. run[5][a] = Outcome(f, 5, a) /\ run[12][a] = Outcome(f, 12, a)
        BY <1>4
    <2>3. CASE a = "UDP"
        BY <1>4, <2>1, <2>2, <2>3 DEF Outcome, Passes, Ip
    <2>4. CASE a # "UDP"
        BY <1>4, <2>1, <2>2, <2>4 DEF Outcome, Passes, Ip
    <2> QED BY <2>3, <2>4
<1>5. CASE i = 5
    <2>0. filter[i] = LD("h36", 36, 2)
        BY <1>5, Code
    <2>1. Execute(f, run, i, a) = IF 36 + 2 <= f.len THEN run[i + 1][f["h36"]] ELSE "none"
        BY <2>0 DEF Execute, LD
    <2>2. run[6][f.h36] = Outcome(f, 6, f.h36)
        BY <1>5, FieldsLoaded
    <2> QED BY <1>5, <2>1, <2>2, FieldsLoaded DEF Passes, Outcome, Port4
<1>6. CASE i = 6
    <2>1. Execute(f, run, i, a) = run[i + 1 + (IF a = "9100" THEN 6 ELSE 5)][a]
        BY <1>6, Code, ExecJeq
    <2>2. run[13][a] = Outcome(f, 13, a) /\ run[12][a] = Outcome(f, 12, a)
        BY <1>6
    <2>3. CASE a = "9100"
        BY <1>6, <2>1, <2>2, <2>3 DEF Outcome, Passes, Ip
    <2>4. CASE a # "9100"
        BY <1>6, <2>1, <2>2, <2>4 DEF Outcome, Passes, Ip
    <2> QED BY <2>3, <2>4
<1>7. CASE i = 7
    <2>1. Execute(f, run, i, a) = run[i + 1 + (IF a = "IPV6" THEN 0 ELSE 4)][a]
        BY <1>7, Code, ExecJeq
    <2>2. run[8][a] = Outcome(f, 8, a) /\ run[12][a] = Outcome(f, 12, a)
        BY <1>7
    <2>3. CASE a = "IPV6"
        BY <1>7, <2>1, <2>2, <2>3 DEF Outcome, Passes, Ip
    <2>4. CASE a # "IPV6"
        BY <1>7, <2>1, <2>2, <2>4 DEF Outcome, Passes, Ip
    <2> QED BY <2>3, <2>4
<1>8. CASE i = 8
    <2>0. filter[i] = LD("b20", 20, 1)
        BY <1>8, Code
    <2>1. Execute(f, run, i, a) = IF 20 + 1 <= f.len THEN run[i + 1][f["b20"]] ELSE "none"
        BY <2>0 DEF Execute, LD
    <2>2. run[9][f.b20] = Outcome(f, 9, f.b20)
        BY <1>8, FieldsLoaded
    <2> QED BY <1>8, <2>1, <2>2, FieldsLoaded DEF Passes, Outcome, Udp6
<1>9. CASE i = 9
    <2>1. Execute(f, run, i, a) = run[i + 1 + (IF a = "UDP" THEN 0 ELSE 2)][a]
        BY <1>9, Code, ExecJeq
    <2>2. run[10][a] = Outcome(f, 10, a) /\ run[12][a] = Outcome(f, 12, a)
        BY <1>9
    <2>3. CASE a = "UDP"
        BY <1>9, <2>1, <2>2, <2>3 DEF Outcome, Passes, Ip
    <2>4. CASE a # "UDP"
        BY <1>9, <2>1, <2>2, <2>4 DEF Outcome, Passes, Ip
    <2> QED BY <2>3, <2>4
<1>10. CASE i = 10
    <2>0. filter[i] = LD("h56", 56, 2)
        BY <1>10, Code
    <2>1. Execute(f, run, i, a) = IF 56 + 2 <= f.len THEN run[i + 1][f["h56"]] ELSE "none"
        BY <2>0 DEF Execute, LD
    <2>2. run[11][f.h56] = Outcome(f, 11, f.h56)
        BY <1>10, FieldsLoaded
    <2> QED BY <1>10, <2>1, <2>2, FieldsLoaded DEF Passes, Outcome, Port6
<1>11. CASE i = 11
    <2>1. Execute(f, run, i, a) = run[i + 1 + (IF a = "9100" THEN 1 ELSE 0)][a]
        BY <1>11, Code, ExecJeq
    <2>2. run[13][a] = Outcome(f, 13, a) /\ run[12][a] = Outcome(f, 12, a)
        BY <1>11
    <2>3. CASE a = "9100"
        BY <1>11, <2>1, <2>2, <2>3 DEF Outcome, Passes, Ip
    <2>4. CASE a # "9100"
        BY <1>11, <2>1, <2>2, <2>4 DEF Outcome, Passes, Ip
    <2> QED BY <2>3, <2>4
<1>12. CASE i = 12
    <2>1. Execute(f, run, i, a) = "none"
        BY <1>12, Code, ExecRet
    <2> QED BY <1>12, <2>1 DEF Outcome, Passes
<1>13. CASE i = 13
    <2>1. Execute(f, run, i, a) = "all"
        BY <1>13, Code, ExecRet
    <2> QED BY <1>13, <2>1 DEF Outcome, Passes
<1> QED BY <1>1, <1>2, <1>3, <1>4, <1>5, <1>6, <1>7, <1>8, <1>9, <1>10, <1>11, <1>12, <1>13

\* The outcome satisfies the recursion.
LEMMA RunsOutcome ==
  ASSUME NEW f \in WireFrames
  PROVE  Runs([i \in 1..Len(filter) |-> [a \in Loaded |-> Outcome(f, i, a)]], f)
<1> DEFINE g == [i \in 1..Len(filter) |-> [a \in Loaded |-> Outcome(f, i, a)]]
<1>1. Len(filter) = 13 /\ \A j \in 1..13, b \in Loaded : g[j][b] = Outcome(f, j, b)
    BY Code
<1> HIDE DEF g
<1>2. \A i \in 1..13, a \in Loaded : Execute(f, g, i, a) = Outcome(f, i, a)
    BY <1>1, OneStep
<1>3. g = [i \in 1..Len(filter) |-> [a \in Loaded |-> Execute(f, g, i, a)]]
    BY <1>1, <1>2 DEF g
<1> QED BY <1>3 DEF Runs, g

\* A function that satisfies the recursion has the outcome everywhere.
LEMMA RunIsOutcome ==
  ASSUME NEW f \in WireFrames, NEW run, Runs(run, f)
  PROVE  \A i \in 1..13, a \in Loaded : run[i][a] = Outcome(f, i, a)
<1> DEFINE Known(i) == \A j \in 1..13, b \in Loaded : j > i => run[j][b] = Outcome(f, j, b)
<1>1. \A i \in 1..13, a \in Loaded : run[i][a] = Execute(f, run, i, a)
    BY Code DEF Runs
<1>2. \A i \in 1..13 : Known(i) => \A a \in Loaded : run[i][a] = Outcome(f, i, a)
    BY <1>1, OneStep
<1>3. Known(12)
    BY <1>2
<1>4. Known(11)
    BY <1>2, <1>3
<1>5. Known(10)
    BY <1>2, <1>4
<1>6. Known(9)
    BY <1>2, <1>5
<1>7. Known(8)
    BY <1>2, <1>6
<1>8. Known(7)
    BY <1>2, <1>7
<1>9. Known(6)
    BY <1>2, <1>8
<1>10. Known(5)
    BY <1>2, <1>9
<1>11. Known(4)
    BY <1>2, <1>10
<1>12. Known(3)
    BY <1>2, <1>11
<1>13. Known(2)
    BY <1>2, <1>12
<1>14. Known(1)
    BY <1>2, <1>13
<1>15. Known(0)
    BY <1>2, <1>14
<1> QED BY <1>15

\* Which frames the BPF filter accepts.
LEMMA AcceptedIs ==
  ASSUME NEW f \in WireFrames
  PROVE  Accepted(f) <=> 14 <= f.len /\ Ip(f, f.h12)
<1> DEFINE run == CHOOSE run : Runs(run, f)
<1>1. Runs(run, f)
    BY RunsOutcome, Zenon
<1>2. run[1]["nothing"] = Outcome(f, 1, "nothing")
    <2> HIDE DEF run
    <2>1. "nothing" \in Loaded
        BY DEF Loaded
    <2> QED BY <1>1, <2>1, RunIsOutcome
<1>3. Accepted(f) <=> run[1]["nothing"] = "all"
    BY DEF Accepted, Runs
<1> QED
    <2> HIDE DEF run
    <2> QED BY <1>2, <1>3 DEF Outcome, Passes

\* The two programs agree on every frame of every length.
LEMMA FiltersSame == SameTraffic
<1> SUFFICES ASSUME NEW f \in WireFrames
             PROVE  /\ falcon_xdp_redirect(f) => Accepted(f)
                    /\ Accepted(f) /\ ~falcon_xdp_redirect(f)
                         => ~Plain(f) /\ f.h12 \in {"IP", "IPV6"}
    BY DEF SameTraffic
<1>1. Accepted(f) <=> 14 <= f.len /\ Ip(f, f.h12)
    BY AcceptedIs
<1>2. f.len \in Nat
    BY FieldsLoaded
<1> QED BY <1>1, <1>2 DEF falcon_xdp_redirect, Plain, Ip, Udp4, Udp6, Port4, Port6,
             ethhdr, iphdr, ipv6hdr, udphdr

\* For frames of any length, a backend that lives receives what the AF_XDP
\* backend would, apart from frames with IPv4 options and cut-off UDP headers.
THEOREM FiltersSameTraffic == Spec => []FiltersAgree
<1>1. FiltersAgree
    BY FiltersSame DEF FiltersAgree
<1> QED BY <1>1, PTL

-----------------------------------------------------------------------------
(* Flattening, by induction on the number of sequences.                    *)

\* Every nonempty set of natural numbers has a least element.
LEMMA LeastNatural ==
  ASSUME NEW T, T \subseteq Nat, T # {}
  PROVE  \E n \in T : \A m \in T : n <= m
<1> DEFINE R == OpToRel(<, Nat)
<1>1. IsWellFoundedOn(R, Nat)
    BY NatLessThanWellFounded, Zenon
<1>2. \A x, y \in Nat : y < x => <<y, x>> \in R
    BY DEF OpToRel
<1> HIDE DEF R
<1>3. \E x \in T : \A y \in T : ~ (<<y, x>> \in R)
    BY <1>1, WFMin, Zenon
<1>4. PICK x \in T : \A y \in T : ~ (<<y, x>> \in R)
    BY <1>3
<1>5. ASSUME NEW y \in T PROVE x <= y
    <2>1. x \in Nat /\ y \in Nat
        OBVIOUS
    <2>2. ~(y < x)
        BY <1>2, <1>4, <2>1
    <2> QED BY <2>1, <2>2
<1> QED BY <1>5

\* What contains 1 and with each number the next one contains all up to N.
LEMMA OneUpTo ==
  ASSUME NEW N \in Nat \ {0}, NEW T, 1 \in T, \A n \in 1..(N - 1) : n \in T => n + 1 \in T
  PROVE  1..N \subseteq T
<1> DEFINE C == {n \in 1..N : n \notin T}
<1> SUFFICES ASSUME C # {} PROVE FALSE
    OBVIOUS
<1>1. C \subseteq Nat
    OBVIOUS
<1>2. PICK n \in C : \A m \in C : n <= m
    <2> HIDE DEF C
    <2> QED BY <1>1, LeastNatural
<1>3. n # 1
    OBVIOUS
<1>4. n - 1 \in 1..(N - 1) /\ n - 1 \notin C
    BY <1>2, <1>3
<1> QED BY <1>4

\* Concatenation, as a symbol of its own.
Cat(a, b) == a \o b

\* Its laws.
LEMMA CatLaws ==
  ASSUME NEW A
  PROVE  /\ <<>> \in Seq(A)
         /\ \A a, b \in Seq(A) : Cat(a, b) \in Seq(A)
         /\ \A a, b, c \in Seq(A) : Cat(Cat(a, b), c) = Cat(a, Cat(b, c))
         /\ \A a \in Seq(A) : Cat(a, <<>>) = a
  BY ConcatProperties, ConcatAssociative, ConcatEmptySeq, EmptySeq DEF Cat

\* t[i] is the flattening of the first i sequences.
Flats(t, s, N) ==
  /\ t[1] = s[1]
  /\ \A i \in 1..(N - 1) : t[i + 1] = Cat(t[i], s[i + 1])

\* Such a t exists.
LEMMA FlatsExist ==
  ASSUME NEW Q, \A a, b \in Q : Cat(a, b) \in Q,
         NEW N \in Nat \ {0}, NEW s \in [1..N -> Q]
  PROVE  \E t \in [1..N -> Q] : Flats(t, s, N)
<1> DEFINE T == {n \in 1..N : \E t \in [1..n -> Q] : Flats(t, s, n)}
<1>1. 1 \in T
    <2>1. [i \in 1..1 |-> s[1]] \in [1..1 -> Q]
        OBVIOUS
    <2>2. Flats([i \in 1..1 |-> s[1]], s, 1)
        BY DEF Flats
    <2> QED BY <2>1, <2>2
<1>2. ASSUME NEW n \in 1..(N - 1), n \in T PROVE n + 1 \in T
    <2>1. PICK t \in [1..n -> Q] : Flats(t, s, n)
        BY <1>2
    <2> DEFINE u == [i \in 1..(n + 1) |-> IF i = n + 1 THEN Cat(t[n], s[n + 1]) ELSE t[i]]
    <2>2. t[n] \in Q /\ s[n + 1] \in Q
        OBVIOUS
    <2>3. u \in [1..(n + 1) -> Q]
        BY <2>2
    <2>4. Flats(u, s, n + 1)
        <3>1. u[1] = t[1] /\ u[n + 1] = Cat(u[n], s[n + 1])
            OBVIOUS
        <3>2. ASSUME NEW i \in 1..n PROVE u[i + 1] = Cat(u[i], s[i + 1])
            <4>1. CASE i = n
                BY <3>1, <4>1
            <4>2. CASE i # n
                <5>1. i \in 1..(n - 1) /\ u[i] = t[i] /\ u[i + 1] = t[i + 1]
                    BY <4>2
                <5> QED BY <2>1, <5>1 DEF Flats
            <4> QED BY <4>1, <4>2
        <3>3. n + 1 - 1 = n
            OBVIOUS
        <3> HIDE DEF u
        <3> QED BY <2>1, <3>1, <3>2, <3>3 DEF Flats
    <2> HIDE DEF u
    <2>5. n + 1 \in 1..N
        OBVIOUS
    <2> QED BY <2>3, <2>4, <2>5
<1>3. 1..N \subseteq T
    <2> HIDE DEF T
    <2> QED BY <1>1, <1>2, OneUpTo
<1> QED BY <1>3

\* FlattenSeq is the last of them.
LEMMA FlattenIs ==
  ASSUME NEW A, NEW N \in Nat \ {0}, NEW s \in [1..N -> Seq(A)]
  PROVE  \E t \in [1..N -> Seq(A)] : Flats(t, s, N) /\ FlattenSeq(s) = t[N]
<1> DEFINE Value(t, i) == IF i = 1 THEN s[i] ELSE t[i - 1] \o s[i]
           IsFlat(t) == t = [i \in 1..Len(s) |-> Value(t, i)]
           flatten == CHOOSE t : IsFlat(t)
<1>1. Len(s) = N
    <2>1. s \in Seq(Seq(A))
        BY SeqDef
    <2>2. Len(s) \in Nat /\ DOMAIN s = 1..Len(s)
        BY <2>1, LenProperties
    <2> QED BY <2>2
<1>2. \E t : IsFlat(t)
    <2>1. PICK t \in [1..N -> Seq(A)] : Flats(t, s, N)
        BY FlatsExist, CatLaws
    <2>2. ASSUME NEW i \in 1..N PROVE t[i] = Value(t, i)
        <3>1. CASE i = 1
            BY <2>1, <3>1 DEF Flats
        <3>2. CASE i # 1
            <4>1. i - 1 \in 1..(N - 1) /\ (i - 1) + 1 = i
                BY <3>2
            <4>2. t[i] = Cat(t[i - 1], s[i])
                BY <2>1, <4>1 DEF Flats
            <4> QED BY <3>2, <4>2 DEF Cat
        <3> QED BY <3>1, <3>2
    <2>3. IsFlat(t)
        <3> HIDE DEF Value
        <3> QED BY <1>1, <2>2
    <2> QED BY <2>3
<1>3. IsFlat(flatten)
    BY <1>2, Zenon
<1>4. FlattenSeq(s) = flatten[N]
    BY <1>1 DEF FlattenSeq
<1> HIDE DEF flatten
<1>5. Flats(flatten, s, N)
    <2>1. \A i \in 1..N : flatten[i] = Value(flatten, i)
        <3> HIDE DEF Value
        <3> QED BY <1>1, <1>3
    <2>2. flatten[1] = s[1]
        BY <2>1
    <2>3. ASSUME NEW i \in 1..(N - 1) PROVE flatten[i + 1] = Cat(flatten[i], s[i + 1])
        <3>1. i + 1 \in 1..N /\ i + 1 # 1 /\ (i + 1) - 1 = i
            OBVIOUS
        <3>2. flatten[i + 1] = Value(flatten, i + 1)
            BY <2>1, <3>1
        <3> QED BY <3>1, <3>2 DEF Cat
    <2> QED BY <2>2, <2>3 DEF Flats
<1>6. flatten \in [1..N -> Seq(A)]
    <2> DEFINE T == {n \in 1..N : flatten[n] \in Seq(A)}
    <2>1. 1 \in T
        BY <1>5 DEF Flats
    <2>2. ASSUME NEW n \in 1..(N - 1), n \in T PROVE n + 1 \in T
        <3>1. n + 1 \in 1..N /\ s[n + 1] \in Seq(A) /\ flatten[n] \in Seq(A)
            BY <2>2
        <3>2. flatten[n + 1] = Cat(flatten[n], s[n + 1])
            BY <1>5 DEF Flats
        <3>3. Cat(flatten[n], s[n + 1]) \in Seq(A)
            BY <3>1, CatLaws, Zenon
        <3> QED BY <3>1, <3>2, <3>3
    <2>3. 1..N \subseteq T
        <3> HIDE DEF T
        <3> QED BY <2>1, <2>2, OneUpTo
    <2>4. flatten = [i \in 1..N |-> flatten[i]]
        <3> HIDE DEF Value
        <3> QED BY <1>1, <1>3
    <2> QED BY <2>3, <2>4
<1> QED BY <1>4, <1>5, <1>6

\* Nothing but empty sequences.
LEMMA FlattenEmpty ==
  ASSUME NEW A, NEW N \in Nat \ {0}, NEW s \in [1..N -> Seq(A)], \A i \in 1..N : s[i] = <<>>
  PROVE  FlattenSeq(s) = <<>>
<1>1. PICK t \in [1..N -> Seq(A)] : Flats(t, s, N) /\ FlattenSeq(s) = t[N]
    BY FlattenIs
<1> DEFINE T == {n \in 1..N : t[n] = <<>>}
<1>2. 1 \in T
    BY <1>1 DEF Flats
<1>3. ASSUME NEW n \in 1..(N - 1), n \in T PROVE n + 1 \in T
    <2>1. t[n + 1] = Cat(t[n], s[n + 1]) /\ s[n + 1] = <<>> /\ n + 1 \in 1..N
        BY <1>1 DEF Flats
    <2>2. t[n] = <<>>
        BY <1>3
    <2> QED BY <2>1, <2>2, CatLaws
<1>4. 1..N \subseteq T
    <2> HIDE DEF T
    <2> QED BY <1>2, <1>3, OneUpTo
<1> QED BY <1>1, <1>4

\* The first sequence taken off.
LEMMA FlattenFirst ==
  ASSUME NEW A, NEW N \in Nat \ {0}, NEW s \in [1..N -> Seq(A)], NEW r \in [1..N -> Seq(A)],
         \A i \in 1..(N - 1) : r[i] = s[i + 1], r[N] = <<>>
  PROVE  FlattenSeq(s) = s[1] \o FlattenSeq(r)
<1>1. PICK t \in [1..N -> Seq(A)] : Flats(t, s, N) /\ FlattenSeq(s) = t[N]
    BY FlattenIs
<1>2. PICK u \in [1..N -> Seq(A)] : Flats(u, r, N) /\ FlattenSeq(r) = u[N]
    BY FlattenIs
<1>0. s[1] \in Seq(A) /\ t[1] = s[1] /\ u[1] = r[1]
    BY <1>1, <1>2 DEF Flats
<1>3. t[N] = Cat(s[1], u[N])
    <2>1. CASE N = 1
        BY <1>0, <2>1, CatLaws
    <2>2. CASE N # 1
        <3> DEFINE M == N - 1
                   T == {n \in 1..M : t[n + 1] = Cat(s[1], u[n])}
        <3>1. M \in Nat \ {0}
            BY <2>2
        <3>2. 1 \in T
            <4>1. t[1 + 1] = Cat(t[1], s[1 + 1]) /\ r[1] = s[1 + 1] /\ 1 \in 1..M
                BY <1>1, <2>2 DEF Flats
            <4> QED BY <1>0, <4>1
        <3>3. ASSUME NEW n \in 1..(M - 1), n \in T PROVE n + 1 \in T
            <4>1. n + 1 \in 1..M /\ n + 1 \in 1..(N - 1) /\ n \in 1..(N - 1) /\ (n + 1) + 1 \in 1..N
                BY <2>2
            <4>2. /\ t[(n + 1) + 1] = Cat(t[n + 1], s[(n + 1) + 1])
                  /\ u[n + 1] = Cat(u[n], r[n + 1]) /\ r[n + 1] = s[(n + 1) + 1]
                BY <1>1, <1>2, <4>1 DEF Flats
            <4>3. u[n] \in Seq(A) /\ s[(n + 1) + 1] \in Seq(A)
                <5>1. n \in 1..N
                    BY <4>1
                <5>2. u[n] \in Seq(A)
                    BY <5>1, Zenon
                <5>3. s[(n + 1) + 1] \in Seq(A)
                    BY <4>1, Zenon
                <5> QED BY <5>2, <5>3
            <4>4. t[n + 1] = Cat(s[1], u[n])
                BY <3>3
            <4>5. Cat(Cat(s[1], u[n]), s[(n + 1) + 1]) = Cat(s[1], Cat(u[n], s[(n + 1) + 1]))
                BY <1>0, <4>3, CatLaws
            <4>6. t[(n + 1) + 1] = Cat(s[1], u[n + 1])
                BY <4>2, <4>4, <4>5
            <4> QED BY <4>1, <4>6
        <3>4. M \in T
            <4> HIDE DEF T, M
            <4>1. 1..M \subseteq T
                BY <3>1, <3>2, <3>3, OneUpTo
            <4> QED BY <3>1, <4>1
        <3>5. t[N] = Cat(s[1], u[N - 1])
            BY <3>4
        <3>6. N - 1 \in 1..(N - 1) /\ (N - 1) + 1 = N /\ u[N - 1] \in Seq(A)
            BY <2>2
        <3>7. u[N] = Cat(u[N - 1], r[N])
            BY <1>2, <3>6 DEF Flats
        <3>8. u[N] = u[N - 1]
            BY <3>6, <3>7, CatLaws
        <3> QED BY <3>5, <3>8
    <2> QED BY <2>1, <2>2
<1> QED BY <1>1, <1>2, <1>3 DEF Cat

\* r is s with e appended to a sequence behind which all are empty.
AppendedAt(A, N, s, r, k, e) ==
  /\ N \in Nat \ {0} /\ k \in 1..N /\ e \in Seq(A)
  /\ s \in [1..N -> Seq(A)] /\ r \in [1..N -> Seq(A)]
  /\ r[k] = Cat(s[k], e)
  /\ \A i \in 1..N : i # k => r[i] = s[i]
  /\ \A i \in 1..N : i > k => s[i] = <<>>

\* Then e is appended to the whole.
LEMMA FlattenAppend ==
  ASSUME NEW A, NEW N, NEW s, NEW r, NEW k, NEW e, AppendedAt(A, N, s, r, k, e)
  PROVE  FlattenSeq(r) = Cat(FlattenSeq(s), e)
<1> SUFFICES ASSUME N \in Nat \ {0}, k \in 1..N, e \in Seq(A),
                    s \in [1..N -> Seq(A)], r \in [1..N -> Seq(A)]
             PROVE  FlattenSeq(r) = Cat(FlattenSeq(s), e)
    BY DEF AppendedAt
<1>0. /\ r[k] = Cat(s[k], e)
      /\ \A i \in 1..N : i # k => r[i] = s[i]
      /\ \A i \in 1..N : i > k => s[i] = <<>>
    BY DEF AppendedAt
<1>1. PICK t \in [1..N -> Seq(A)] : Flats(t, s, N) /\ FlattenSeq(s) = t[N]
    BY FlattenIs
<1>2. PICK u \in [1..N -> Seq(A)] : Flats(u, r, N) /\ FlattenSeq(r) = u[N]
    BY FlattenIs
<1> DEFINE T == {n \in 1..N : u[n] = IF n < k THEN t[n] ELSE Cat(t[n], e)}
<1>3. 1 \in T
    <2>1. t[1] = s[1] /\ u[1] = r[1] /\ 1 \in 1..N
        BY <1>1, <1>2 DEF Flats
    <2>2. CASE k = 1
        BY <1>0, <2>1, <2>2
    <2>3. CASE k # 1
        <3>1. 1 < k /\ r[1] = s[1]
            BY <1>0, <2>3
        <3> QED BY <2>1, <3>1
    <2> QED BY <2>2, <2>3
<1>4. ASSUME NEW n \in 1..(N - 1), n \in T PROVE n + 1 \in T
    <2>1. n + 1 \in 1..N /\ n \in 1..N
        OBVIOUS
    <2>2. t[n + 1] = Cat(t[n], s[n + 1]) /\ u[n + 1] = Cat(u[n], r[n + 1])
        BY <1>1, <1>2 DEF Flats
    <2>3. t[n] \in Seq(A) /\ s[n + 1] \in Seq(A)
        BY <2>1
    <2>4. CASE n + 1 < k
        <3>1. u[n] = t[n] /\ r[n + 1] = s[n + 1]
            BY <1>0, <1>4, <2>4, <2>1
        <3>2. u[n + 1] = t[n + 1]
            BY <2>2, <3>1
        <3> QED BY <2>1, <2>4, <3>2
    <2>5. CASE n + 1 = k
        <3>1. u[n] = t[n] /\ r[n + 1] = Cat(s[n + 1], e)
            BY <1>0, <1>4, <2>5
        <3>2. Cat(t[n], Cat(s[n + 1], e)) = Cat(Cat(t[n], s[n + 1]), e)
            <4>1. \A a, b, c \in Seq(A) : Cat(Cat(a, b), c) = Cat(a, Cat(b, c))
                BY CatLaws
            <4> QED BY <2>3, <4>1, Zenon
        <3>3. u[n + 1] = Cat(t[n + 1], e)
            BY <2>2, <3>1, <3>2
        <3> QED BY <2>1, <2>5, <3>3
    <2>6. CASE n + 1 > k
        <3>0. ~(n < k) /\ n + 1 # k
            BY <2>6
        <3>1. u[n] = Cat(t[n], e) /\ r[n + 1] = <<>> /\ s[n + 1] = <<>>
            <4>1. u[n] = Cat(t[n], e)
                BY <1>4, <3>0
            <4>2. s[n + 1] = <<>>
                BY <1>0, <2>1, <2>6
            <4>3. r[n + 1] = s[n + 1]
                BY <1>0, <2>1, <3>0
            <4> QED BY <4>1, <4>2, <4>3
        <3>2. Cat(t[n], e) \in Seq(A)
            BY <2>3, CatLaws
        <3>3. Cat(t[n], <<>>) = t[n] /\ Cat(Cat(t[n], e), <<>>) = Cat(t[n], e)
            BY <2>3, <3>2, CatLaws
        <3>4. t[n + 1] = t[n] /\ u[n + 1] = u[n]
            BY <2>2, <3>1, <3>3
        <3>5. u[n + 1] = Cat(t[n + 1], e)
            BY <3>1, <3>4
        <3> QED BY <2>1, <2>6, <3>5
    <2> QED BY <2>1, <2>4, <2>5, <2>6
<1>5. 1..N \subseteq T
    <2> HIDE DEF T
    <2> QED BY <1>3, <1>4, OneUpTo
<1>6. u[N] = Cat(t[N], e)
    BY <1>5
<1> QED BY <1>1, <1>2, <1>6

-----------------------------------------------------------------------------
(* The unread frames, for a ring F of sequences that is read from block x, *)
(* of which d frames were read.                                            *)

At(x, i) == (x + i - 1) % kBlockCount
InOrder(x, F) == [i \in 1..kBlockCount |-> F[At(x, i)]]
All(x, F) == FlattenSeq(InOrder(x, F))
UnreadOf(x, F, d) == SubSeq(All(x, F), d + 1, Len(All(x, F)))

\* The block at place i is i - 1 blocks behind x.
LEMMA AtFacts ==
  ASSUME NEW x \in Blocks
  PROVE  /\ \A i \in 1..kBlockCount : At(x, i) \in Blocks /\ Dist(x, At(x, i)) = i - 1
         /\ \A b \in Blocks : Dist(x, b) + 1 \in 1..kBlockCount /\ At(x, Dist(x, b) + 1) = b
         /\ At(x, 1) = x
         /\ \A i \in 1..(kBlockCount - 1) : At(NextBlock(x), i) = At(x, i + 1)
         /\ At(NextBlock(x), kBlockCount) = x
<1>0. kBlockCount \in Nat \ {0} /\ NextBlock(x) \in Blocks
    BY PacketAssumption, RingSteps
<1>1. ASSUME NEW y \in Blocks, NEW i \in 1..kBlockCount
      PROVE  At(y, i) \in Blocks /\ Dist(y, At(y, i)) = i - 1
    <2>0. y \in Nat /\ y < kBlockCount
        BY <1>0 DEF Blocks
    <2>1. \A k \in Nat \ {0}, a \in Nat : a < k => a % k = a /\ (a + k) % k = a
        OBVIOUS
    <2>2. CASE y + i - 1 < kBlockCount
        <3>1. y + i - 1 \in Nat
            BY <2>0
        <3>2. At(y, i) = y + i - 1
            BY <1>0, <2>1, <2>2, <3>1 DEF At
        <3> QED BY <1>0, <2>0, <2>2, <3>2 DEF Blocks, Dist
    <2>3. CASE ~(y + i - 1 < kBlockCount)
        <3> DEFINE c == y + i - 1 - kBlockCount
        <3>1. c \in Nat /\ c < kBlockCount /\ y + i - 1 = c + kBlockCount
            BY <1>0, <2>0, <2>3
        <3>2. At(y, i) = c
            BY <1>0, <2>1, <3>1 DEF At
        <3> QED BY <1>0, <2>0, <2>3, <3>1, <3>2 DEF Blocks, Dist
    <2> QED BY <2>2, <2>3
<1>2. ASSUME NEW b \in Blocks
      PROVE  Dist(x, b) + 1 \in 1..kBlockCount /\ At(x, Dist(x, b) + 1) = b
    <2>1. Dist(x, b) \in 0..(kBlockCount - 1)
        BY DistFacts
    <2>2. Dist(x, b) + 1 \in 1..kBlockCount /\ (Dist(x, b) + 1) - 1 = Dist(x, b)
        BY <1>0, <2>1
    <2>3. At(x, Dist(x, b) + 1) \in Blocks /\ Dist(x, At(x, Dist(x, b) + 1)) = Dist(x, b)
        BY <1>1, <2>2
    <2> QED BY <2>2, <2>3, DistFacts
<1>3. At(x, 1) = x
    <2>1. At(x, 1) \in Blocks /\ Dist(x, At(x, 1)) = 0
        BY <1>0, <1>1
    <2> QED BY <2>1, DistFacts
<1>4. ASSUME NEW i \in 1..kBlockCount
      PROVE  At(NextBlock(x), i) = IF i = kBlockCount THEN x ELSE At(x, i + 1)
    <2> DEFINE b == At(NextBlock(x), i)
    <2>1. b \in Blocks /\ Dist(NextBlock(x), b) = i - 1
        BY <1>0, <1>1
    <2>2. i - 1 = IF b = x THEN kBlockCount - 1 ELSE Dist(x, b) - 1
        BY <2>1, DistFacts
    <2>3. Dist(x, b) \in 0..(kBlockCount - 1) /\ (Dist(x, b) = 0 <=> b = x)
        BY <2>1, DistFacts
    <2> HIDE DEF b
    <2>4. CASE b = x
        BY <1>0, <2>2, <2>4 DEF b
    <2>5. CASE b # x
        <3>1. i # kBlockCount /\ i + 1 = Dist(x, b) + 1
            BY <1>0, <2>2, <2>3, <2>5
        <3>2. At(x, i + 1) = b
            BY <1>2, <2>1, <3>1
        <3> QED BY <3>1, <3>2 DEF b
    <2> QED BY <2>4, <2>5
<1>5. \A i \in 1..(kBlockCount - 1) : At(NextBlock(x), i) = At(x, i + 1)
    <2> TAKE i \in 1..(kBlockCount - 1)
    <2>1. i \in 1..kBlockCount /\ i # kBlockCount
        BY <1>0
    <2> QED BY <1>4, <2>1
<1>6. At(NextBlock(x), kBlockCount) = x
    BY <1>0, <1>4
<1> QED BY <1>1, <1>2, <1>3, <1>5, <1>6

\* The blocks in the order in which they are read.
LEMMA OrderAt ==
  ASSUME NEW x \in Blocks, NEW F
  PROVE  /\ \A i \in 1..kBlockCount : InOrder(x, F)[i] = F[At(x, i)] /\ At(x, i) \in Blocks
         /\ 1 \in 1..kBlockCount /\ InOrder(x, F)[1] = F[x]
<1>1. 1 \in 1..kBlockCount
    BY PacketAssumption
<1>2. \A i \in 1..kBlockCount : InOrder(x, F)[i] = F[At(x, i)]
    BY DEF InOrder
<1> QED BY <1>1, <1>2, AtFacts

\* They are a sequence of sequences.
LEMMA OrderFacts ==
  ASSUME NEW A, NEW x \in Blocks, NEW F \in [Blocks -> Seq(A)]
  PROVE  InOrder(x, F) \in [1..kBlockCount -> Seq(A)] /\ kBlockCount \in Nat \ {0}
  BY AtFacts, PacketAssumption DEF InOrder

\* All frames, and those of the first block in front.
LEMMA AllFacts ==
  ASSUME NEW A, NEW x \in Blocks, NEW F \in [Blocks -> Seq(A)]
  PROVE  /\ All(x, F) \in Seq(A)
         /\ \E g \in Seq(A) : All(x, F) = F[x] \o g
<1> DEFINE N == kBlockCount
           s == InOrder(x, F)
           r == [i \in 1..N |-> IF i = N THEN <<>> ELSE s[i + 1]]
<1>1. s \in [1..N -> Seq(A)] /\ N \in Nat \ {0}
    BY OrderFacts
<1>2. s[1] = F[x]
    BY OrderAt
<1> HIDE DEF s, N
<1>3. r \in [1..N -> Seq(A)]
    <2>1. ASSUME NEW i \in 1..N PROVE r[i] \in Seq(A)
        <3>1. CASE i = N
            BY <3>1, EmptySeq
        <3>2. CASE i # N
            BY <1>1, <3>2
        <3> QED BY <3>1, <3>2
    <2> QED BY <2>1
<1>4. \A i \in 1..(N - 1) : r[i] = s[i + 1]
    BY <1>1
<1>5. r[N] = <<>>
    BY <1>1
<1> HIDE DEF r
<1>6. FlattenSeq(s) = s[1] \o FlattenSeq(r)
    BY <1>1, <1>3, <1>4, <1>5, FlattenFirst
<1>7. FlattenSeq(s) \in Seq(A) /\ FlattenSeq(r) \in Seq(A)
    <2>1. \A q \in [1..N -> Seq(A)] : FlattenSeq(q) \in Seq(A)
        <3> TAKE q \in [1..N -> Seq(A)]
        <3>1. PICK t \in [1..N -> Seq(A)] : Flats(t, q, N) /\ FlattenSeq(q) = t[N]
            BY <1>1, FlattenIs
        <3>2. N \in 1..N
            BY <1>1
        <3> QED BY <3>1, <3>2
    <2> QED BY <1>1, <1>3, <2>1
<1> QED BY <1>2, <1>6, <1>7 DEF All, s

\* Empty blocks hold nothing to read.
LEMMA UnreadEmpty ==
  ASSUME NEW A, NEW x \in Blocks, NEW F \in [Blocks -> Seq(A)], \A b \in Blocks : F[b] = <<>>
  PROVE  UnreadOf(x, F, 0) = <<>>
<1>1. \A i \in 1..kBlockCount : InOrder(x, F)[i] = <<>>
    BY OrderAt
<1>2. All(x, F) = <<>>
    BY <1>1, OrderFacts, FlattenEmpty DEF All
<1>3. Len(<<>>) = 0 /\ <<>> \in Seq(A)
    BY EmptySeq
<1> QED BY <1>2, <1>3, SubSeqEmpty DEF UnreadOf

\* A frame is read.
LEMMA UnreadRead ==
  ASSUME NEW A, NEW x \in Blocks, NEW F \in [Blocks -> Seq(A)], NEW d \in Nat, d < Len(F[x])
  PROVE  LET w == UnreadOf(x, F, d)
         IN  /\ w \in Seq(A) /\ Len(w) >= 1
             /\ SubSeq(w, 1, 1) = <<F[x][d + 1]>>
             /\ SubSeq(w, 2, Len(w)) = UnreadOf(x, F, d + 1)
<1> DEFINE a == All(x, F)
           w == UnreadOf(x, F, d)
<1>1. PICK g \in Seq(A) : a = F[x] \o g
    BY AllFacts
<1>2. a \in Seq(A) /\ F[x] \in Seq(A) /\ Len(F[x]) \in Nat /\ Len(g) \in Nat
    BY AllFacts, LenProperties
<1>3. Len(a) = Len(F[x]) + Len(g) /\ \A i \in 1..Len(F[x]) : a[i] = F[x][i]
    BY <1>1, <1>2, ConcatProperties
<1> HIDE DEF a
<1>4. /\ Len(a) \in Nat /\ d + 1 <= Len(a) /\ a[d + 1] = F[x][d + 1]
      /\ d + 1 \in 1..Len(a) /\ d + 1 \in Nat
    <2>1. d + 1 \in 1..Len(F[x])
        BY <1>2
    <2>2. a[d + 1] = F[x][d + 1]
        BY <1>3, <2>1
    <2>3. Len(a) \in Nat /\ d + 1 <= Len(a)
        BY <1>2, <1>3, <2>1
    <2> QED BY <2>2, <2>3
<1>5. w = SubSeq(a, d + 1, Len(a))
    BY DEF UnreadOf, a
<1>6. w \in Seq(A) /\ Len(w) = Len(a) - d
    BY <1>2, <1>4, <1>5, SubSeqProperties
<1>7. SubSeq(w, 1, 1) = <<F[x][d + 1]>>
    <2>1. SubSeq(w, 1, 1) = SubSeq(a, d + 1, d + 1)
        BY <1>2, <1>4, <1>5, SubSeqOfSubSeq
    <2>2. SubSeq(a, d + 1, d + 1) = <<a[d + 1]>> \o SubSeq(a, (d + 1) + 1, d + 1)
        BY <1>2, <1>4, SubSeqRecursiveFirst
    <2>3. SubSeq(a, (d + 1) + 1, d + 1) = <<>>
        BY <1>4, SubSeqEmpty
    <2>4. <<a[d + 1]>> \in Seq(A)
        <3>1. a[d + 1] \in A
            BY <1>2, <1>4, ElementOfSeq
        <3> QED BY <3>1
    <2>5. SubSeq(a, d + 1, d + 1) = <<a[d + 1]>>
        BY <2>2, <2>3, <2>4, ConcatEmptySeq
    <2> QED BY <1>4, <2>1, <2>5
<1>8. SubSeq(w, 2, Len(w)) = SubSeq(a, d + 2, Len(a))
    BY <1>2, <1>4, <1>5, <1>6, SubSeqOfSubSeq
<1>9. SubSeq(w, 2, Len(w)) = UnreadOf(x, F, d + 1)
    BY <1>8 DEF UnreadOf, a
<1>10. Len(w) >= 1
    BY <1>4, <1>6
<1> QED BY <1>6, <1>7, <1>9, <1>10

\* Frame f is put into block k, behind which all are empty.
Grown(A, x, F, G, d, k, f) ==
  /\ x \in Blocks /\ F \in [Blocks -> Seq(A)] /\ G \in [Blocks -> Seq(A)]
  /\ d \in Nat /\ d <= Len(F[x]) /\ k \in Blocks /\ f \in A
  /\ G[k] = Append(F[k], f)
  /\ \A b \in Blocks : b # k => G[b] = F[b]
  /\ \A b \in Blocks : Dist(x, b) > Dist(x, k) => F[b] = <<>>

\* Then it is the last one to read.
LEMMA UnreadAppend ==
  ASSUME NEW A, NEW x, NEW F, NEW G, NEW d, NEW k, NEW f, Grown(A, x, F, G, d, k, f)
  PROVE  UnreadOf(x, G, d) = Append(UnreadOf(x, F, d), f)
<1> SUFFICES ASSUME x \in Blocks, F \in [Blocks -> Seq(A)], G \in [Blocks -> Seq(A)],
                    d \in Nat, d <= Len(F[x]), k \in Blocks, f \in A, G[k] = Append(F[k], f),
                    \A b \in Blocks : b # k => G[b] = F[b],
                    \A b \in Blocks : Dist(x, b) > Dist(x, k) => F[b] = <<>>
             PROVE  UnreadOf(x, G, d) = Append(UnreadOf(x, F, d), f)
    BY DEF Grown
<1> DEFINE a == All(x, F)
           e == <<f>>
           j == Dist(x, k) + 1
<1>0. e \in Seq(A) /\ Len(e) = 1
    OBVIOUS
<1>1. F[k] \in Seq(A) /\ G[k] = F[k] \o e
    BY AppendIsConcat
<1>2. j \in 1..kBlockCount /\ At(x, j) = k
    BY AtFacts
<1>3. InOrder(x, G)[j] = InOrder(x, F)[j] \o e
    <2>1. InOrder(x, G)[j] = G[k] /\ InOrder(x, F)[j] = F[k]
        BY <1>2, OrderAt
    <2> QED BY <1>1, <2>1
<1>4. ASSUME NEW i \in 1..kBlockCount
      PROVE  /\ i # j => InOrder(x, G)[i] = InOrder(x, F)[i]
             /\ i > j => InOrder(x, F)[i] = <<>>
    <2>1. /\ InOrder(x, G)[i] = G[At(x, i)] /\ InOrder(x, F)[i] = F[At(x, i)]
          /\ At(x, i) \in Blocks /\ Dist(x, At(x, i)) = i - 1
        BY OrderAt, AtFacts
    <2>2. Dist(x, k) \in Nat
        BY DistFacts, PacketAssumption
    <2>3. i # j => At(x, i) # k
        BY <2>1, <2>2
    <2>4. i > j => Dist(x, At(x, i)) > Dist(x, k)
        BY <2>1, <2>2
    <2> HIDE DEF j
    <2> QED BY <2>1, <2>3, <2>4
<1>5. All(x, G) = a \o e
    <2> HIDE DEF j, e
    <2> DEFINE s == InOrder(x, F)
               r == InOrder(x, G)
    <2>1. s \in [1..kBlockCount -> Seq(A)] /\ r \in [1..kBlockCount -> Seq(A)]
          /\ kBlockCount \in Nat \ {0}
        BY OrderFacts
    <2>2. r[j] = Cat(s[j], e) /\ e \in Seq(A) /\ j \in 1..kBlockCount
        BY <1>0, <1>2, <1>3 DEF Cat
    <2>3. \A i \in 1..kBlockCount : i # j => r[i] = s[i]
        BY <1>4
    <2>4. \A i \in 1..kBlockCount : i > j => s[i] = <<>>
        BY <1>4
    <2> HIDE DEF s, r
    <2>5. FlattenSeq(r) = Cat(FlattenSeq(s), e)
        <3>1. AppendedAt(A, kBlockCount, s, r, j, e)
            BY <2>1, <2>2, <2>3, <2>4 DEF AppendedAt
        <3>2. FlattenSeq(r) = Cat(FlattenSeq(s), e)
            BY <3>1, FlattenAppend
        <3> QED BY <3>2
    <2> QED BY <2>5 DEF All, Cat, r, s
<1>6. a \in Seq(A) /\ Len(a) \in Nat /\ d <= Len(a)
    <2>1. PICK g \in Seq(A) : a = F[x] \o g
        BY AllFacts
    <2>2. a \in Seq(A) /\ F[x] \in Seq(A) /\ Len(F[x]) \in Nat /\ Len(g) \in Nat
        BY AllFacts, LenProperties
    <2>3. Len(a) = Len(F[x]) + Len(g)
        BY <2>1, <2>2, ConcatProperties
    <2> QED BY <2>2, <2>3
<1> HIDE DEF a, e
<1>7. a \o e \in Seq(A) /\ Len(a \o e) = Len(a) + 1
    <2>1. a \o e \in Seq(A) /\ Len(a \o e) = Len(a) + Len(e)
        BY <1>0, <1>6, ConcatProperties
    <2> QED BY <1>0, <2>1
<1>8. SubSeq(a \o e, d + 1, Len(a) + 1) = SubSeq(a, d + 1, Len(a)) \o e
    <2>1. (a \o e)[Len(a) + 1] = f
        BY <1>0, <1>6, ConcatProperties DEF e
    <2>2. SubSeq(a \o e, d + 1, Len(a) + 1)
            = SubSeq(a \o e, d + 1, (Len(a) + 1) - 1) \o <<(a \o e)[Len(a) + 1]>>
        <3> DEFINE q == a \o e
        <3>1. q \in Seq(A) /\ d + 1 \in 1..Len(q) /\ Len(a) + 1 \in (d + 1)..Len(q)
            BY <1>6, <1>7
        <3> HIDE DEF q
        <3>2. SubSeq(q, d + 1, Len(a) + 1) = SubSeq(q, d + 1, (Len(a) + 1) - 1) \o <<q[Len(a) + 1]>>
            BY <3>1, SubSeqRecursiveSecond
        <3> QED BY <3>2 DEF q
    <2>3. SubSeq(a \o e, d + 1, Len(a)) = SubSeq(a, d + 1, Len(a))
        <3>1. CASE d = Len(a)
            <4>1. d + 1 \in Int /\ Len(a) \in Int /\ Len(a) < d + 1
                BY <1>6, <3>1
            <4> QED BY <4>1, SubSeqEmpty
        <3>2. CASE d # Len(a)
            <4>1. d + 1 \in 1..Len(a) /\ Len(a) \in 1..Len(a)
                BY <1>6, <3>2
            <4> QED BY <1>0, <1>6, <4>1, SubSeqOfConcat1
        <3> QED BY <3>1, <3>2
    <2>4. (Len(a) + 1) - 1 = Len(a)
        BY <1>6
    <2> QED BY <2>1, <2>2, <2>3, <2>4 DEF e
<1>9. SubSeq(a, d + 1, Len(a)) \in Seq(A)
    BY <1>6, SubSeqProperties
<1> QED BY <1>5, <1>7, <1>8, <1>9, AppendIsConcat DEF UnreadOf, a, e

\* The first block is given back.
LEMMA UnreadRelease ==
  ASSUME NEW A, NEW x \in Blocks, NEW F \in [Blocks -> Seq(A)], NEW G \in [Blocks -> Seq(A)],
         G[x] = <<>>, \A b \in Blocks : b # x => G[b] = F[b]
  PROVE  UnreadOf(NextBlock(x), G, 0) = UnreadOf(x, F, Len(F[x]))
<1> DEFINE y == NextBlock(x)
           g == All(y, G)
           c == F[x]
<1>0. y \in Blocks
    BY RingSteps
<1>1. /\ InOrder(x, F) \in [1..kBlockCount -> Seq(A)] /\ InOrder(y, G) \in [1..kBlockCount -> Seq(A)]
      /\ kBlockCount \in Nat \ {0}
    BY <1>0, OrderFacts
<1>2. ASSUME NEW i \in 1..(kBlockCount - 1) PROVE InOrder(y, G)[i] = InOrder(x, F)[i + 1]
    <2>1. i \in 1..kBlockCount /\ i + 1 \in 1..kBlockCount /\ (i + 1) - 1 # 0
        BY <1>1
    <2>2. InOrder(y, G)[i] = G[At(x, i + 1)] /\ InOrder(x, F)[i + 1] = F[At(x, i + 1)]
        BY <1>0, <2>1, OrderAt, AtFacts
    <2>3. At(x, i + 1) \in Blocks /\ Dist(x, At(x, i + 1)) # 0
        BY <2>1, AtFacts
    <2> QED BY <2>2, <2>3, DistFacts
<1>3. InOrder(y, G)[kBlockCount] = <<>> /\ InOrder(x, F)[1] = c
    <2>1. kBlockCount \in 1..kBlockCount
        BY <1>1
    <2>2. InOrder(y, G)[kBlockCount] = G[At(y, kBlockCount)]
        <3>1. \A i \in 1..kBlockCount : InOrder(y, G)[i] = G[At(y, i)]
            BY DEF InOrder
        <3> QED BY <2>1, <3>1
    <2> QED BY <2>2, OrderAt, AtFacts
<1>4. All(x, F) = c \o g
    <2> HIDE DEF y, c
    <2> QED BY <1>1, <1>2, <1>3, FlattenFirst DEF All
<1>5. c \in Seq(A) /\ g \in Seq(A) /\ Len(c) \in Nat /\ Len(g) \in Nat
    BY <1>0, AllFacts, LenProperties
<1> HIDE DEF g, c
<1>6. Len(c \o g) = Len(c) + Len(g)
    BY <1>5, ConcatProperties
<1>7. SubSeq(c \o g, Len(c) + 1, Len(c) + Len(g)) = SubSeq(g, 1, Len(g))
    <2>1. SubSeq(c \o g, Len(c) + 1, Len(c) + Len(g))
            = SubSeq(g, Len(c) + 1 - Len(c), Len(c) + Len(g) - Len(c))
        <3>1. CASE Len(g) = 0
            <4>1. Len(c) + Len(g) < Len(c) + 1 /\ Len(c) + Len(g) - Len(c) < Len(c) + 1 - Len(c)
                BY <1>5, <3>1
            <4> QED BY <1>5, <4>1, SubSeqEmpty
        <3>2. CASE Len(g) # 0
            <4>1. /\ Len(c) + 1 \in Len(c) + 1 .. Len(c) + Len(g)
                  /\ Len(c) + Len(g) \in Len(c) + 1 .. Len(c) + Len(g)
                BY <1>5, <3>2
            <4> QED BY <1>5, <4>1, SubSeqOfConcat2
        <3> QED BY <3>1, <3>2
    <2>2. Len(c) + 1 - Len(c) = 1 /\ Len(c) + Len(g) - Len(c) = Len(g)
        BY <1>5
    <2> QED BY <2>1, <2>2
<1>8. UnreadOf(x, F, Len(c)) = SubSeq(g, 1, Len(g))
    BY <1>4, <1>6, <1>7 DEF UnreadOf
<1>9. UnreadOf(y, G, 0) = SubSeq(g, 1, Len(g))
    BY DEF UnreadOf, g
<1> QED BY <1>8, <1>9 DEF c

-----------------------------------------------------------------------------
(* What a step does to the unread frames.                                  *)

\* The frames that count, block by block.
FramesOf == [b \in Blocks |-> Frames(b)]

\* Their types.
LEMMA FramesTypes ==
  ASSUME TypeOK
  PROVE  /\ FramesOf \in [Blocks -> Seq(1..MaxFrames)]
         /\ \A b \in Blocks : FramesOf[b] = IF Counted(b) THEN content[b] ELSE <<>>
<1>1. \A b \in Blocks : content[b] \in Seq(1..MaxFrames)
    BY BlockTypes
<1>2. <<>> \in Seq(1..MaxFrames)
    BY EmptySeq
<1>3. \A b \in Blocks : FramesOf[b] = IF Counted(b) THEN content[b] ELSE <<>>
    BY DEF FramesOf, Frames, Counted
<1>4. \A b \in Blocks : FramesOf[b] \in Seq(1..MaxFrames)
    BY <1>1, <1>2, <1>3
<1> QED BY <1>3, <1>4 DEF FramesOf

\* Unread is what the lemmas above are about.
LEMMA UnreadIs ==
  /\ block_index \in Blocks => Unread = UnreadOf(block_index, FramesOf, Done)
  /\ block_index' \in Blocks => Unread' = UnreadOf(block_index', FramesOf', Done')
<1>1. ASSUME block_index \in Blocks PROVE Unread = UnreadOf(block_index, FramesOf, Done)
    <2>1. \A i \in 1..kBlockCount :
            /\ At(block_index, i) = (block_index + i - 1) % kBlockCount
            /\ FramesOf[At(block_index, i)] = Frames(At(block_index, i))
        BY <1>1, AtFacts DEF FramesOf, At
    <2>2. InOrder(block_index, FramesOf)
            = [i \in 1..kBlockCount |-> Frames((block_index + i - 1) % kBlockCount)]
        BY <2>1 DEF InOrder
    <2> QED BY <2>2, Zenon DEF Unread, UnreadOf, All, Done
<1>2. ASSUME block_index' \in Blocks PROVE Unread' = UnreadOf(block_index', FramesOf', Done')
    <2>1. \A i \in 1..kBlockCount :
            /\ At(block_index', i) = (block_index' + i - 1) % kBlockCount
            /\ FramesOf'[At(block_index', i)] = Frames((block_index + i - 1) % kBlockCount)'
        <3> TAKE i \in 1..kBlockCount
        <3>1. \A b \in Blocks : FramesOf'[b] = IF status'[b] # {} \/ (b = kblock' /\ filling')
                                                THEN content'[b] ELSE <<>>
            BY DEF FramesOf, Frames
        <3>2. At(block_index', i) \in Blocks
            BY <1>2, AtFacts
        <3> QED BY <3>1, <3>2 DEF Frames, At
    <2>2. InOrder(block_index', FramesOf')
            = [i \in 1..kBlockCount |-> Frames((block_index + i - 1) % kBlockCount)']
        BY <2>1 DEF InOrder
    <2> QED BY <2>2, Zenon DEF Unread, UnreadOf, All, Done
<1> QED BY <1>1, <1>2

\* The kernel's block is not handed over, and nothing is behind it.
LEMMA KernelPlace ==
  ASSUME RingInv, filling \/ status[kblock] = {}
  PROVE  /\ status[kblock] = {}
         /\ \A c \in Blocks : Off(c) > Off(kblock) => ~Counted(c)
         /\ FollowingBlock(kblock) \in Blocks
         /\ status[FollowingBlock(kblock)] = {} /\ FollowingBlock(kblock) # kblock
              => Off(FollowingBlock(kblock)) = Off(kblock) + 1
<1>0. kblock \in Blocks /\ block_index \in Blocks /\ kBlockCount \in Nat \ {0}
    BY BlockTypes, PacketAssumption DEF RingInv
<1> PICK n \in 0..kBlockCount : Ring(n)
    BY DEF RingInv, RingOK
<1>1. /\ \A c \in Blocks : Off(c) \in 0..(kBlockCount - 1) /\ (Off(c) = 0 <=> c = block_index)
      /\ FollowingBlock(kblock) \in Blocks
      /\ Off(FollowingBlock(kblock)) = IF Off(kblock) + 1 = kBlockCount THEN 0 ELSE Off(kblock) + 1
    BY <1>0, RingSteps, DistFacts DEF Off
<1>2. Off(kblock) = n /\ status[kblock] = {}
    BY <1>0, <1>1 DEF Ring
<1>3. \A c \in Blocks : Off(c) > Off(kblock) => ~Counted(c)
    BY <1>0, <1>1, <1>2 DEF Ring, Counted
<1>4. ASSUME status[FollowingBlock(kblock)] = {}, FollowingBlock(kblock) # kblock
      PROVE  Off(kblock) + 1 # kBlockCount
    <2> SUFFICES ASSUME Off(kblock) + 1 = kBlockCount PROVE FALSE
        OBVIOUS
    <2>1. FollowingBlock(kblock) = block_index /\ Off(block_index) = 0
        BY <1>0, <1>1
    <2>2. n = 0
        BY <1>0, <1>4, <2>1 DEF Ring
    <2>3. kblock = block_index
        BY <1>0, <1>1, <1>2, <2>2
    <2> QED BY <1>4, <2>1, <2>3
<1> QED BY <1>1, <1>2, <1>3, <1>4

\* Block k gets frame f behind all others.
Gets(k, f) ==
  /\ FramesOf'[k] = Append(FramesOf[k], f)
  /\ \A b \in Blocks : b # k => FramesOf'[b] = FramesOf[b]
  /\ \A b \in Blocks : Off(b) > Off(k) => FramesOf[b] = <<>>

\* No block that counts changes.
Keeps == \A b \in Blocks : FramesOf'[b] = FramesOf[b]

\* A block that was handed over keeps its frames.
HandedKept == \A b \in Blocks : status[b] # {} => content'[b] = content[b] /\ status'[b] # {}

\* What the hand-over of a block does to them.
LEMMA HandOverFrames ==
  ASSUME RingInv, RingInv', NEW flags, flags # {}, NEW s, filling, HandOver(flags, s)
  PROVE  /\ HandedKept
         /\ \/ Keeps
            \/ \E k \in Blocks : /\ FramesOf[k] = <<>> /\ FramesOf'[k] = s
                                 /\ \A b \in Blocks : b # k => FramesOf'[b] = FramesOf[b]
                                 /\ \A b \in Blocks : Off(b) > Off(k) => FramesOf[b] = <<>>
<1> PICK k \in Blocks : k = kblock
    BY BlockTypes DEF RingInv
<1> PICK b \in Blocks : b = FollowingBlock(kblock)
    BY KernelPlace
<1>0. /\ status \in [Blocks -> {{}, {"USER"}, {"USER", "TMO"}}]
      /\ content \in [Blocks -> BoundedSeq(1..MaxFrames, BlockFrames)]
      /\ kblock' = b /\ filling' \in BOOLEAN
    BY DEF RingInv, TypeOK, HandOver
<1>1. /\ \A a \in Blocks : status'[a] = IF a = k THEN flags ELSE status[a]
      /\ filling' <=> status'[b] = {}
    BY <1>0 DEF HandOver
<1>2. /\ filling' => b # k /\ status[b] = {}
      /\ \A a \in Blocks : content'[a] = IF filling' /\ a = b THEN s ELSE content[a]
    BY <1>0, <1>1 DEF HandOver
<1>3. /\ \A a \in Blocks : FramesOf[a] = IF Counted(a) THEN content[a] ELSE <<>>
      /\ \A a \in Blocks : FramesOf'[a] = IF Counted(a)' THEN content'[a] ELSE <<>>
    <2>1. TypeOK /\ TypeOK'
        BY DEF RingInv
    <2>2. \A a \in Blocks : FramesOf[a] = IF Counted(a) THEN content[a] ELSE <<>>
        BY <2>1, FramesTypes
    <2>3. \A a \in Blocks : FramesOf'[a] = IF Counted(a)' THEN content'[a] ELSE <<>>
        BY DEF FramesOf, Frames, Counted
    <2> QED BY <2>2, <2>3
<1>4. /\ \A a \in Blocks : Counted(a) <=> status[a] # {} \/ a = k
      /\ \A a \in Blocks : Counted(a)' <=> status'[a] # {} \/ (a = b /\ filling')
    BY <1>0 DEF Counted
<1>5. HandedKept
    BY <1>1, <1>2 DEF HandedKept
<1>6. CASE ~filling'
    <2>1. \A a \in Blocks : Counted(a)' <=> Counted(a)
        BY <1>1, <1>4, <1>6
    <2> QED BY <1>2, <1>3, <1>5, <1>6, <2>1 DEF Keeps
<1>7. CASE filling'
    <2>1. \A a \in Blocks : a # b => (Counted(a)' <=> Counted(a)) /\ content'[a] = content[a]
        BY <1>1, <1>2, <1>4, <1>7
    <2>2. Counted(b)' /\ ~Counted(b) /\ content'[b] = s
        BY <1>1, <1>2, <1>4, <1>7
    <2>3. Off(b) = Off(k) + 1
        BY <1>2, <1>7, KernelPlace
    <2>4. Off(k) \in Nat /\ \A a \in Blocks : Off(a) \in Nat
        BY BlockTypes, DistFacts, PacketAssumption DEF RingInv, Off
    <2>5. \A a \in Blocks : Off(a) > Off(b) => ~Counted(a)
        <3>1. \A a \in Blocks : Off(a) > Off(k) => ~Counted(a)
            BY KernelPlace
        <3> QED BY <2>3, <2>4, <3>1
    <2>6. FramesOf[b] = <<>> /\ FramesOf'[b] = s
        BY <1>3, <2>2
    <2>7. \A a \in Blocks : a # b => FramesOf'[a] = FramesOf[a]
        BY <1>3, <2>1
    <2>8. \A a \in Blocks : Off(a) > Off(b) => FramesOf[a] = <<>>
        BY <1>3, <2>5
    <2> QED BY <1>5, <2>6, <2>7, <2>8
<1> QED BY <1>6, <1>7

\* What the kernel does to them.
LEMMA KernelFrames ==
  ASSUME RingInv, RingInv', Receive \/ Retire
  PROVE  /\ HandedKept
         /\ Keeps \/ (Receive /\ \E k \in Blocks : Gets(k, arrived + 1))
<1> PICK k \in Blocks : k = kblock
    BY BlockTypes DEF RingInv
<1>0. /\ status \in [Blocks -> {{}, {"USER"}, {"USER", "TMO"}}]
      /\ content \in [Blocks -> BoundedSeq(1..MaxFrames, BlockFrames)]
    BY DEF RingInv, TypeOK
<1>1. /\ \A a \in Blocks : FramesOf[a] = IF Counted(a) THEN content[a] ELSE <<>>
      /\ \A a \in Blocks : FramesOf'[a] = IF Counted(a)' THEN content'[a] ELSE <<>>
    BY DEF FramesOf, Frames, Counted
<1>2. CASE Retire
    <2>1. filling /\ HandOver({"USER", "TMO"}, <<>>)
        BY <1>2 DEF Retire
    <2>2. /\ HandedKept
          /\ \/ Keeps
             \/ \E b \in Blocks : /\ FramesOf[b] = <<>> /\ FramesOf'[b] = <<>>
                                  /\ \A a \in Blocks : a # b => FramesOf'[a] = FramesOf[a]
        BY <2>1, HandOverFrames
    <2> QED BY <2>2 DEF Keeps
<1>3. CASE Receive
    <2> DEFINE f == arrived + 1
    <2>1. CASE filling /\ Len(content[kblock]) = BlockFrames /\ HandOver({"USER"}, <<f>>)
        <3>1. /\ HandedKept
              /\ \/ Keeps
                 \/ \E b \in Blocks : /\ FramesOf[b] = <<>> /\ FramesOf'[b] = <<f>>
                                      /\ \A a \in Blocks : a # b => FramesOf'[a] = FramesOf[a]
                                      /\ \A a \in Blocks : Off(a) > Off(b) => FramesOf[a] = <<>>
            BY <2>1, HandOverFrames
        <3>2. Append(<<>>, f) = <<f>>
            OBVIOUS
        <3> QED BY <1>3, <3>1, <3>2 DEF Gets
    \* The frame goes into the current block, behind what is there.
    <2>2. ASSUME filling \/ status[kblock] = {}, filling', UNCHANGED <<status, kblock>>,
                 content' = [content EXCEPT ![k] = Append(FramesOf[k], f)]
          PROVE  HandedKept /\ Gets(k, f)
        <3>1. status[k] = {} /\ \A a \in Blocks : Off(a) > Off(k) => ~Counted(a)
            BY <2>2, KernelPlace
        <3>2. \A a \in Blocks : content'[a] = IF a = k THEN Append(FramesOf[k], f) ELSE content[a]
            BY <1>0, <2>2
        <3>3. Counted(k)' /\ \A a \in Blocks : a # k => (Counted(a)' <=> Counted(a))
            BY <2>2 DEF Counted
        <3>4. HandedKept
            BY <2>2, <3>1, <3>2 DEF HandedKept
        <3>5. FramesOf'[k] = Append(FramesOf[k], f)
            BY <1>1, <3>2, <3>3
        <3>6. \A a \in Blocks : a # k => FramesOf'[a] = FramesOf[a]
            BY <1>1, <3>2, <3>3
        <3>7. \A a \in Blocks : Off(a) > Off(k) => FramesOf[a] = <<>>
            BY <1>1, <3>1
        <3> QED BY <3>4, <3>5, <3>6, <3>7 DEF Gets
    <2>3. CASE /\ filling /\ Len(content[kblock]) < BlockFrames
               /\ content' = [content EXCEPT ![kblock] = Append(@, f)]
               /\ UNCHANGED <<status, kblock, filling>>
        <3>1. FramesOf[k] = content[k]
            BY <1>1, <2>3 DEF Counted
        <3>2. content' = [content EXCEPT ![k] = Append(FramesOf[k], f)]
            BY <2>3, <3>1
        <3> QED BY <1>3, <2>2, <2>3, <3>2
    <2>4. CASE /\ ~filling /\ status[kblock] = {}
               /\ content' = [content EXCEPT ![kblock] = <<f>>]
               /\ filling' = TRUE
               /\ UNCHANGED <<status, kblock>>
        <3>1. FramesOf[k] = <<>>
            BY <1>1, <2>4 DEF Counted
        <3>2. Append(<<>>, f) = <<f>>
            OBVIOUS
        <3>3. content' = [content EXCEPT ![k] = Append(FramesOf[k], f)]
            BY <2>4, <3>1, <3>2
        <3> QED BY <1>3, <2>2, <2>4, <3>3
    <2>5. CASE UNCHANGED <<status, content, kblock, filling>>
        <3>1. \A a \in Blocks : (Counted(a)' <=> Counted(a)) /\ content'[a] = content[a]
            BY <2>5 DEF Counted
        <3>2. Keeps
            BY <1>1, <3>1 DEF Keeps
        <3> QED BY <2>5, <3>2 DEF HandedKept
    <2> QED BY <1>3, <2>1, <2>3, <2>4, <2>5 DEF Receive
<1> QED BY <1>2, <1>3

-----------------------------------------------------------------------------
(* The refinement.                                                         *)

\* What the caller sees through the places o when the blocks hold C.
Behind(o, C) == [i \in DOMAIN o |-> IF o[i].at \in DOMAIN C[o[i].block]
                                    THEN C[o[i].block][o[i].at] ELSE 0]
Places == [block : Blocks, at : 1..BlockFrames]

\* It is a sequence as long as o.
LEMMA BehindSeq ==
  ASSUME NEW o \in Seq(Places), NEW C
  PROVE  /\ Len(Behind(o, C)) = Len(o)
         /\ Behind(o, C) \in Seq({Behind(o, C)[i] : i \in 1..Len(o)})
         /\ o = <<>> => Behind(o, C) = <<>>
<1> DEFINE S == {Behind(o, C)[i] : i \in 1..Len(o)}
<1>1. Len(o) \in Nat /\ DOMAIN o = 1..Len(o)
    BY LenProperties
<1>2. DOMAIN Behind(o, C) = 1..Len(o)
    BY <1>1 DEF Behind
<1>3. Behind(o, C) \in [1..Len(o) -> S]
    BY <1>2 DEF Behind
<1>4. Behind(o, C) \in Seq(S)
    BY <1>1, <1>3, SeqDef
<1>5. Len(Behind(o, C)) = Len(o)
    BY <1>1, <1>2, <1>4, LenProperties
<1>6. ASSUME o = <<>> PROVE Behind(o, C) = <<>>
    BY <1>4, <1>5, <1>6, EmptySeq
<1> QED BY <1>4, <1>5, <1>6

\* A place that is added.
LEMMA BehindAppend ==
  ASSUME NEW o \in Seq(Places), NEW C, NEW p \in Places, p.at \in DOMAIN C[p.block]
  PROVE  Behind(Append(o, p), C) = Behind(o, C) \o <<C[p.block][p.at]>>
<1> DEFINE q == Append(o, p)
           v == C[p.block][p.at]
<1>1. Len(o) \in Nat /\ DOMAIN o = 1..Len(o)
    BY LenProperties
<1>2. /\ q \in Seq(Places) /\ Len(q) = Len(o) + 1 /\ q[Len(o) + 1] = p
      /\ \A i \in 1..Len(o) : q[i] = o[i]
    BY AppendProperties
<1>3. DOMAIN q = 1..(Len(o) + 1)
    BY <1>1, <1>2, LenProperties
<1>4. PICK S : Behind(o, C) \in Seq(S) /\ v \in S
    <2> DEFINE S == {Behind(o, C)[i] : i \in 1..Len(o)}
               R == S \cup {v}
    <2>1. Behind(o, C) \in Seq(S) /\ Len(Behind(o, C)) = Len(o)
        BY BehindSeq
    <2>2. Behind(o, C) \in [1..Len(o) -> S]
        BY <2>1, LenProperties
    <2>3. Behind(o, C) \in [1..Len(o) -> R]
        BY <2>2
    <2>4. Behind(o, C) \in Seq(R)
        BY <1>1, <2>3, SeqDef
    <2> QED BY <2>4
<1>5. Len(Behind(o, C)) = Len(o) /\ <<v>> \in Seq(S) /\ Len(<<v>>) = 1 /\ <<v>>[1] = v
    <2>1. Len(Behind(o, C)) = Len(o)
        BY BehindSeq
    <2> HIDE DEF v
    <2>2. <<v>> \in Seq(S) /\ Len(<<v>>) = 1 /\ <<v>>[1] = v
        BY <1>4
    <2> QED BY <2>1, <2>2
<1>6. /\ Behind(o, C) \o <<v>> \in Seq(S) /\ Len(Behind(o, C) \o <<v>>) = Len(o) + 1
      /\ \A i \in 1..Len(o) : (Behind(o, C) \o <<v>>)[i] = Behind(o, C)[i]
      /\ (Behind(o, C) \o <<v>>)[Len(o) + 1] = v
    <2> DEFINE a == Behind(o, C)
               e == <<v>>
    <2>1. a \in Seq(S) /\ e \in Seq(S) /\ Len(a) = Len(o) /\ Len(e) = 1 /\ e[1] = v
        BY <1>4, <1>5
    <2> HIDE DEF a, e
    <2>2. /\ a \o e \in Seq(S) /\ Len(a \o e) = Len(a) + Len(e)
          /\ \A i \in 1..(Len(a) + Len(e)) : (a \o e)[i] = IF i <= Len(a) THEN a[i] ELSE e[i - Len(a)]
        BY <2>1, ConcatProperties
    <2>3. Len(a \o e) = Len(o) + 1
        BY <2>1, <2>2
    <2>4. \A i \in 1..Len(o) : (a \o e)[i] = a[i]
        BY <1>1, <2>1, <2>2
    <2>5. (a \o e)[Len(o) + 1] = v
        <3>1. Len(o) + 1 \in 1..(Len(a) + Len(e)) /\ ~(Len(o) + 1 <= Len(a)) /\ Len(o) + 1 - Len(a) = 1
            BY <1>1, <2>1
        <3> QED BY <2>1, <2>2, <3>1
    <2> QED BY <2>2, <2>3, <2>4, <2>5 DEF a, e
<1>7. DOMAIN (Behind(o, C) \o <<v>>) = 1..(Len(o) + 1)
    BY <1>6, LenProperties
<1> DEFINE c == Behind(o, C) \o <<v>>
           d == Behind(q, C)
<1>8. DOMAIN d = 1..(Len(o) + 1) /\ d = [i \in DOMAIN d |-> d[i]]
    BY <1>3 DEF Behind
<1>9. ASSUME NEW i \in 1..(Len(o) + 1) PROVE d[i] = c[i]
    <2>1. CASE i = Len(o) + 1
        <3>1. d[i] = v
            BY <1>2, <1>3, <2>1 DEF Behind
        <3> QED BY <1>6, <2>1, <3>1
    <2>2. CASE i # Len(o) + 1
        <3>1. i \in 1..Len(o)
            BY <1>1, <2>2
        <3>2. q[i] = o[i]
            BY <1>2, <3>1
        <3>3. d[i] = Behind(o, C)[i]
            BY <1>1, <1>3, <3>1, <3>2 DEF Behind
        <3> QED BY <1>6, <3>1, <3>3
    <2> QED BY <2>1, <2>2
<1>10. c = [i \in DOMAIN c |-> c[i]]
    BY <1>6, <1>7, LenProperties
<1> HIDE DEF c, d
<1>11. d = c
    BY <1>7, <1>8, <1>9, <1>10 DEF c
<1> QED BY <1>11 DEF c, d, q, v

\* The blocks that are looked at do not change.
LEMMA BehindSame ==
  ASSUME NEW o, NEW C, NEW D, \A i \in DOMAIN o : C[o[i].block] = D[o[i].block]
  PROVE  Behind(o, D) = Behind(o, C)
  BY DEF Behind

\* The mapping, by name.
InCall == pc \in CallPcs
Waiting == IF pc \in {"thrown", "destroyed"} THEN <<>> ELSE Unread
Lent == [i \in DOMAIN out |-> Bytes(out[i])]

\* What the caller was given lies in the block recvImpl looks at, which has
\* not been given back.
OutOK ==
  /\ \A i \in DOMAIN out : /\ out[i].block = block_index
                           /\ out[i].at \in DOMAIN content[block_index]
  /\ out # <<>> => status[block_index] # {}
  /\ pc = "off" => out = <<>>

LendInv == RingInv /\ OutOK

\* Lent before and after a step.
LEMMA LentIs ==
  ASSUME TypeOK, TypeOK'
  PROVE  /\ out \in Seq(Places) /\ out' \in Seq(Places) /\ Len(out) <= ArraySize
         /\ Lent = Behind(out, content) /\ Lent' = Behind(out', content')
         /\ Len(Lent) = Len(out) /\ Len(out) \in Nat
         /\ out' = <<>> => Lent' = <<>>
<1>1. out \in Seq(Places) /\ out' \in Seq(Places) /\ Len(out) <= ArraySize
    BY DEF TypeOK, Places
<1>2. Lent = Behind(out, content) /\ Lent' = Behind(out', content')
    BY DEF Lent, Behind, Bytes
<1> QED BY <1>1, <1>2, BehindSeq, LenProperties

\* How the reader's place relates to the frames of its block.
LEMMA DoneFacts ==
  ASSUME RingInv
  PROVE  /\ Done \in Nat /\ Done <= Len(FramesOf[block_index])
         /\ block_index \in Blocks
         /\ FramesOf \in [Blocks -> Seq(1..MaxFrames)]
<1>0. TypeOK
    BY DEF RingInv
<1>1. /\ block_index \in Blocks /\ content[block_index] \in Seq(1..MaxFrames)
      /\ Len(content[block_index]) \in Nat /\ packet_index \in Nat
      /\ FramesOf \in [Blocks -> Seq(1..MaxFrames)]
      /\ FramesOf[block_index] = IF Counted(block_index) THEN content[block_index] ELSE <<>>
    BY <1>0, BlockTypes, FramesTypes, PacketAssumption
<1>2. CASE release_block
    <2>1. PICK n \in 0..kBlockCount : Ring(n)
        BY DEF RingInv, RingOK
    <2>2. n > 0 /\ Off(block_index) = 0
        BY <1>1, <1>2, <2>1, DistFacts DEF Ring, Off
    <2>3. Counted(block_index)
        BY <1>1, <2>1, <2>2 DEF Ring, Counted
    <2> QED BY <1>1, <1>2, <2>3 DEF Done
<1>3. CASE ~release_block /\ packet_index > 0
    <2>1. Counted(block_index) /\ packet_index < Len(content[block_index])
        BY <1>3 DEF RingInv, CursorOK, Counted
    <2> QED BY <1>1, <1>3, <2>1 DEF Done
<1>4. CASE ~release_block /\ ~(packet_index > 0)
    <2>1. Done = 0
        BY <1>1, <1>4 DEF Done
    <2>2. Len(FramesOf[block_index]) \in Nat
        <3>1. FramesOf[block_index] \in Seq(1..MaxFrames)
            BY <1>1
        <3> QED BY <3>1, LenProperties
    <2> QED BY <1>1, <2>1, <2>2
<1> QED BY <1>2, <1>3, <1>4

\* Frames that stay where they are stay unread.
LEMMA UnreadKept ==
  ASSUME RingInv, RingInv', Keeps, block_index' = block_index, Done' = Done
  PROVE  Unread' = Unread
<1>1. block_index \in Blocks /\ block_index' \in Blocks
    BY DEF RingInv, TypeOK
<1>2. FramesOf' = FramesOf
    BY DEF Keeps, FramesOf
<1> QED BY <1>1, <1>2, UnreadIs

\* The kernel's steps.
LEMMA KernelRefines ==
  ASSUME LendInv, RingInv', Receive \/ Retire
  PROVE  /\ Lent' = Lent /\ OutOK' /\ UNCHANGED <<pc, packets>>
         /\ \/ Unread' = Unread
            \/ Receive /\ Unread' = Append(Unread, arrived + 1)
<1>0. /\ UNCHANGED <<pc, out, packets>>
      /\ UNCHANGED <<block_index, packet_index, packets_in_block, release_block>>
    BY DEF Receive, Retire, cursor
<1>1. /\ HandedKept
      /\ Keeps \/ (Receive /\ \E k \in Blocks : Gets(k, arrived + 1))
    BY KernelFrames DEF LendInv
<1>2. TypeOK /\ TypeOK' /\ RingInv /\ block_index \in Blocks
    BY DEF LendInv, RingInv, TypeOK
<1>3. out # <<>> => content'[block_index] = content[block_index] /\ status'[block_index] # {}
    BY <1>1, <1>2 DEF LendInv, OutOK, HandedKept
<1>4. \A i \in DOMAIN out : out # <<>>
    OBVIOUS
<1>5. OutOK'
    BY <1>0, <1>3, <1>4 DEF LendInv, OutOK
<1>6. Lent' = Lent
    <2>1. \A i \in DOMAIN out : content[out[i].block] = content'[out[i].block]
        BY <1>3, <1>4 DEF LendInv, OutOK
    <2>2. Behind(out, content') = Behind(out, content)
        BY <2>1, BehindSame
    <2> QED BY <1>0, <1>2, <2>2, LentIs
<1>7. release_block => status[block_index] # {}
    <2>1. PICK n \in 0..kBlockCount : Ring(n)
        BY <1>2 DEF RingInv, RingOK
    <2>2. Off(block_index) = 0
        BY <1>2, DistFacts DEF Off
    <2> QED BY <1>2, <2>1, <2>2 DEF Ring
<1>8. Done' = Done
    BY <1>0, <1>1, <1>2, <1>7 DEF Done, HandedKept
<1>9. CASE Keeps
    BY <1>0, <1>2, <1>5, <1>6, <1>8, <1>9, UnreadKept
<1>10. CASE Receive /\ \E k \in Blocks : Gets(k, arrived + 1)
    <2> PICK k \in Blocks : Gets(k, arrived + 1)
        BY <1>10
    <2> DEFINE F == FramesOf
               G == FramesOf'
               x == block_index
               f == arrived + 1
    <2>1. /\ F \in [Blocks -> Seq(1..MaxFrames)] /\ G \in [Blocks -> Seq(1..MaxFrames)]
          /\ Done \in Nat /\ Done <= Len(F[x]) /\ x \in Blocks
        <3>1. \A b \in Blocks : G[b] \in Seq(1..MaxFrames)
            <4> TAKE b \in Blocks
            <4>1. content'[b] \in BoundedSeq(1..MaxFrames, BlockFrames)
                BY <1>2 DEF TypeOK
            <4>2. content'[b] \in Seq(1..MaxFrames) /\ <<>> \in Seq(1..MaxFrames)
                BY <4>1, BlockSeq, EmptySeq
            <4> QED BY <4>2 DEF FramesOf, Frames
        <3>2. G \in [Blocks -> Seq(1..MaxFrames)]
            BY <3>1 DEF FramesOf
        <3> QED BY <1>2, <3>2, DoneFacts
    <2>2. f \in 1..MaxFrames
        BY <1>2, <1>10, PacketAssumption DEF Receive, TypeOK
    <2>3. /\ G[k] = Append(F[k], f)
          /\ \A b \in Blocks : b # k => G[b] = F[b]
          /\ \A b \in Blocks : Dist(x, b) > Dist(x, k) => F[b] = <<>>
        BY DEF Gets, Off
    <2> HIDE DEF F, G, x, f
    <2>4. UnreadOf(x, G, Done) = Append(UnreadOf(x, F, Done), f)
        <3>1. Grown(1..MaxFrames, x, F, G, Done, k, f)
            BY <2>1, <2>2, <2>3 DEF Grown
        <3> QED BY <3>1, UnreadAppend
    <2>5. Unread = UnreadOf(x, F, Done) /\ Unread' = UnreadOf(x, G, Done)
        BY <1>0, <1>2, <1>8, UnreadIs DEF F, G, x
    <2> QED BY <1>0, <1>5, <1>6, <1>10, <2>4, <2>5 DEF f
<1> QED BY <1>1, <1>9, <1>10

\* A call that gives the finished block back.
LEMMA ReleaseRefines ==
  ASSUME RingInv, RingInv', ReleaseBlock
  PROVE  Unread' = Unread
<1>0. TypeOK /\ TypeOK' /\ block_index \in Blocks /\ block_index' \in Blocks
    BY DEF RingInv, TypeOK
<1>1. CASE ~release_block
    <2>1. UNCHANGED <<status, block_index, release_block, content, kblock, filling, packet_index>>
        BY <1>1 DEF ReleaseBlock, kernelVars
    <2>2. Keeps /\ Done' = Done
        BY <2>1 DEF Keeps, FramesOf, Frames, Done
    <2> QED BY <2>1, <2>2, UnreadKept
<1>2. CASE release_block
    <2> DEFINE F == FramesOf
               G == FramesOf'
               x == block_index
    <2>1. /\ status' = [status EXCEPT ![block_index] = {}] /\ block_index' = NextBlock(block_index)
          /\ release_block' = FALSE /\ UNCHANGED <<content, kblock, filling, packet_index>>
        BY <1>2 DEF ReleaseBlock, kernelVars
    <2>2. status \in [Blocks -> {{}, {"USER"}, {"USER", "TMO"}}]
        BY <1>0 DEF TypeOK
    <2>3. packet_index = 0 /\ Done' = 0 /\ Done = Len(content[x])
        BY <1>2, <2>1 DEF RingInv, CursorOK, Done
    <2>4. status[x] # {} /\ (filling => kblock # x)
        <3>1. PICK n \in 0..kBlockCount : Ring(n)
            BY DEF RingInv, RingOK
        <3>2. Off(x) = 0 /\ n > 0
            BY <1>0, <1>2, <3>1, DistFacts DEF Ring, Off
        <3> QED BY <1>0, <3>1, <3>2, PacketAssumption DEF Ring
    <2>5. \A b \in Blocks : status'[b] = IF b = x THEN {} ELSE status[b]
        BY <2>1, <2>2
    <2>6. G[x] = <<>> /\ F[x] = content[x]
        BY <1>0, <2>1, <2>4, <2>5 DEF FramesOf, Frames
    <2>7. \A b \in Blocks : b # x => G[b] = F[b]
        BY <2>1, <2>5 DEF FramesOf, Frames
    <2>8. F \in [Blocks -> Seq(1..MaxFrames)] /\ G \in [Blocks -> Seq(1..MaxFrames)]
        <3>1. F \in [Blocks -> Seq(1..MaxFrames)]
            BY DoneFacts
        <3>2. \A b \in Blocks : G[b] \in Seq(1..MaxFrames)
            BY <2>6, <2>7, <3>1, EmptySeq
        <3> QED BY <3>1, <3>2 DEF FramesOf
    <2>9. Unread = UnreadOf(x, F, Len(F[x])) /\ Unread' = UnreadOf(NextBlock(x), G, 0)
        BY <1>0, <2>1, <2>3, <2>6, UnreadIs
    <2> HIDE DEF F, G, x
    <2>10. UnreadOf(NextBlock(x), G, 0) = UnreadOf(x, F, Len(F[x]))
        <3>1. x \in Blocks
            BY <1>0 DEF x
        <3> QED BY <2>6, <2>7, <2>8, <3>1, UnreadRelease
    <2> QED BY <2>9, <2>10
<1> QED BY <1>1, <1>2

\* A frame is handed out.
LEMMA ReadRefines ==
  ASSUME LendInv, RingInv', ReadPacket
  PROVE  /\ OutOK' /\ Unread \in Seq(1..MaxFrames) /\ Len(Unread) >= 1
         /\ Lent' = Lent \o SubSeq(Unread, 1, 1)
         /\ Unread' = SubSeq(Unread, 2, Len(Unread))
<1> DEFINE p == packet_index
           s == content[block_index]
           x == block_index
           n == IF p = 0 THEN Len(s) ELSE packets_in_block
<1>0. /\ pc = "loop" /\ Len(out) < ArraySize /\ "USER" \in status[block_index]
      /\ out' = Append(out, [block |-> block_index, at |-> p + 1]) /\ packets' = packets + 1
      /\ IF p + 1 = n
         THEN release_block' = TRUE /\ packet_index' = 0 /\ packets_in_block' = 0 /\ pc' = "idle"
         ELSE packet_index' = p + 1 /\ packets_in_block' = n /\ UNCHANGED <<release_block, pc>>
      /\ UNCHANGED <<status, content, kblock, filling, arrived, block_index>>
    BY DEF ReadPacket, OwnsBlock, Packet, kernelVars
<1>1. /\ TypeOK /\ TypeOK' /\ RingInv
      /\ s \in Seq(1..MaxFrames) /\ Len(s) \in 0..BlockFrames /\ DOMAIN s = 1..Len(s)
      /\ block_index \in Blocks /\ p \in Nat /\ BlockFrames \in Nat
    BY BlockTypes, PacketAssumption DEF LendInv, RingInv
<1>2. status[block_index] # {} /\ s # <<>> /\ Counted(block_index) /\ ~release_block
    BY <1>0, <1>1 DEF RingInv, CursorOK, Counted, CallPcs
<1>3. n = Len(s) /\ p < Len(s) /\ p + 1 \in 1..Len(s)
    <2>1. Len(s) # 0
        BY <1>1, <1>2, EmptySeq
    <2> QED BY <1>1, <2>1 DEF RingInv, CursorOK
<1>4. Done = p /\ Done' = p + 1
    <2>1. CASE p + 1 = n
        BY <1>0, <1>2, <1>3, <2>1 DEF Done
    <2>2. CASE p + 1 # n
        BY <1>0, <1>2, <2>2 DEF Done
    <2> QED BY <2>1, <2>2
<1>5. FramesOf' = FramesOf /\ FramesOf[x] = s /\ FramesOf \in [Blocks -> Seq(1..MaxFrames)]
    <2>1. FramesOf' = FramesOf
        BY <1>0 DEF FramesOf, Frames
    <2> QED BY <1>1, <1>2, <2>1, FramesTypes
<1>6. Unread = UnreadOf(x, FramesOf, p) /\ Unread' = UnreadOf(x, FramesOf, p + 1)
    BY <1>0, <1>1, <1>4, <1>5, UnreadIs
<1>7. /\ Unread \in Seq(1..MaxFrames) /\ Len(Unread) >= 1
      /\ SubSeq(Unread, 1, 1) = <<s[p + 1]>>
      /\ Unread' = SubSeq(Unread, 2, Len(Unread))
    <2>1. p < Len(FramesOf[x])
        BY <1>3, <1>5
    <2> QED BY <1>1, <1>5, <1>6, <2>1, UnreadRead
<1>8. Lent' = Lent \o <<s[p + 1]>>
    <2> DEFINE q == [block |-> x, at |-> p + 1]
    <2>1. q \in Places /\ q.block = x /\ q.at = p + 1 /\ q.at \in DOMAIN content[q.block]
        BY <1>1, <1>3 DEF Places
    <2>2. out \in Seq(Places) /\ Lent = Behind(out, content) /\ Lent' = Behind(out', content')
        BY <1>1, LentIs
    <2>3. out' = Append(out, q) /\ content' = content
        BY <1>0
    <2> HIDE DEF q
    <2>4. Behind(Append(out, q), content) = Behind(out, content) \o <<content[q.block][q.at]>>
        BY <2>1, <2>2, BehindAppend
    <2> QED BY <2>1, <2>2, <2>3, <2>4
<1>9. OutOK'
    <2>1. out \in Seq(Places) /\ Len(out) \in Nat /\ DOMAIN out = 1..Len(out)
        BY <1>1, LentIs, LenProperties
    <2> DEFINE q == [block |-> x, at |-> p + 1]
    <2>2. q \in Places /\ q.block = x /\ q.at = p + 1
        BY <1>1, <1>3 DEF Places
    <2>3. /\ out' \in Seq(Places) /\ Len(out') = Len(out) + 1 /\ out'[Len(out) + 1] = q
          /\ \A i \in 1..Len(out) : out'[i] = out[i]
        <3> HIDE DEF q
        <3>1. out' = Append(out, q)
            BY <1>0 DEF q
        <3> QED BY <2>1, <2>2, <3>1, AppendProperties
    <2>4. DOMAIN out' = 1..(Len(out) + 1)
        BY <2>3, LenProperties
    <2>5. ASSUME NEW i \in DOMAIN out'
          PROVE  out'[i].block = x /\ out'[i].at \in DOMAIN s
        <3>1. CASE i = Len(out) + 1
            BY <1>1, <1>3, <2>2, <2>3, <3>1
        <3>2. CASE i # Len(out) + 1
            <4>1. i \in 1..Len(out)
                BY <2>1, <2>4, <3>2
            <4>2. out'[i] = out[i] /\ i \in DOMAIN out
                BY <2>1, <2>3, <4>1
            <4> QED BY <4>2 DEF LendInv, OutOK
        <3> QED BY <3>1, <3>2
    <2>6. pc' # "off"
        BY <1>0
    <2> QED BY <1>0, <1>2, <2>5, <2>6 DEF OutOK
<1> QED BY <1>7, <1>8, <1>9

\* Every step preserves where the caller's Frames point.
LEMMA LendStep == LendInv /\ [Next]_vars => LendInv'
<1> SUFFICES ASSUME LendInv, [Next]_vars PROVE LendInv'
    OBVIOUS
<1>1. RingInv'
    BY RingStep DEF LendInv
<1>2. CASE Construct \/ NoPacket \/ EpollWait \/ UNCHANGED vars
    <2>1. UNCHANGED <<out, block_index, content, status>> /\ (pc' = "off" => pc = "off")
        BY <1>2 DEF Construct, NoPacket, EpollWait, vars, kernelVars, cursor
    <2> QED BY <1>1, <2>1 DEF LendInv, OutOK
<1>3. CASE Destroy \/ ReleaseBlock
    <2>1. out' = <<>>
        BY <1>3 DEF Destroy, ReleaseBlock
    <2> QED BY <1>1, <2>1 DEF LendInv, OutOK
<1>4. CASE ReadPacket
    BY <1>1, <1>4, ReadRefines DEF LendInv
<1>5. CASE Receive \/ Retire
    BY <1>1, <1>5, KernelRefines DEF LendInv
<1> QED BY <1>2, <1>3, <1>4, <1>5 DEF Next, recvImpl

\* A call that finds nothing hands out nothing.
LEMMA EmptyDelivery ==
  ASSUME RingInv, NEW S, NEW s \in Seq(S)
  PROVE  /\ s \o SubSeq(Unread, 1, 0) = s
         /\ SubSeq(Unread, 0 + 1, Len(Unread)) = Unread
         /\ 0 \in 0..Len(Unread)
<1>0. block_index \in Blocks /\ Done \in Nat /\ FramesOf \in [Blocks -> Seq(1..MaxFrames)]
    BY DoneFacts
<1> DEFINE a == All(block_index, FramesOf)
<1>1. a \in Seq(1..MaxFrames) /\ Len(a) \in Nat
    BY <1>0, AllFacts, LenProperties
<1>2. Unread = SubSeq(a, Done + 1, Len(a))
    BY <1>0, UnreadIs DEF UnreadOf
<1>3. Unread \in Seq(1..MaxFrames)
    <2> HIDE DEF a
    <2>1. \A i \in (Done + 1)..Len(a) : a[i] \in 1..MaxFrames
        <3> TAKE i \in (Done + 1)..Len(a)
        <3>1. i \in 1..Len(a)
            BY <1>0, <1>1
        <3> QED BY <1>1, <3>1, ElementOfSeq
    <2>2. Done + 1 \in Int /\ Len(a) \in Int
        BY <1>0, <1>1
    <2> QED BY <1>2, <2>1, <2>2, SubSeqProperties
<1>4. SubSeq(Unread, 1, 0) = <<>>
    BY SubSeqEmpty
<1> QED BY <1>3, <1>4, ConcatEmptySeq, SubSeqFull, LenProperties

\* Every step is one of the contract, or leaves what the contract is about
\* alone.
LEMMA PacketRefines ==
  ASSUME LendInv, RingInv', [Next]_vars
  PROVE  [IO!IONext]_(IO!iovars)
<1> USE DEF IO!iovars
<1>0. /\ RingInv /\ TypeOK /\ TypeOK'
      /\ Len(Lent) = Len(out) /\ Len(out) <= ArraySize /\ Len(out) \in Nat /\ out \in Seq(Places)
      /\ out' = <<>> => Lent' = <<>>
    <2>1. RingInv /\ TypeOK /\ TypeOK'
        BY DEF LendInv, RingInv
    <2> QED BY <2>1, LentIs
<1>1. CASE Construct \/ UNCHANGED vars
    <2>1. CASE pc' = "thrown" /\ Construct
        <3>1. out = <<>> /\ out' = <<>> /\ ~InCall /\ ~InCall' /\ Waiting' = <<>>
            BY <2>1 DEF Construct, LendInv, OutOK, InCall, CallPcs, Waiting
        <3>2. Lent' = <<>> /\ UNCHANGED <<arrived, packets>>
            BY <1>0, <2>1, <3>1 DEF Construct, kernelVars
        <3> QED BY <3>1, <3>2 DEF IO!IONext, IO!Close, InCall, Lent, Waiting
    <2>2. CASE pc' # "thrown" \/ UNCHANGED vars
        <3>1. /\ UNCHANGED <<status, content, kblock, filling, arrived>>
              /\ UNCHANGED <<block_index, packet_index, release_block, out, packets>>
            BY <1>1 DEF Construct, vars, kernelVars, cursor
        <3>2. Unread' = Unread
            BY <3>1 DEF Unread, Frames
        <3>3. Lent' = Lent
            BY <3>1 DEF Lent, Bytes
        <3>4. InCall' = InCall /\ Waiting' = Waiting
            BY <1>1, <2>2, <3>2 DEF Construct, vars, InCall, CallPcs, Waiting
        <3> QED BY <3>1, <3>3, <3>4 DEF InCall, Lent, Waiting
    <2> QED BY <1>1, <2>1, <2>2
<1>2. CASE Destroy
    <2>1. ~InCall /\ ~InCall' /\ Waiting' = <<>> /\ Lent' = <<>> /\ UNCHANGED <<arrived, packets>>
        BY <1>0, <1>2 DEF Destroy, InCall, CallPcs, Waiting, kernelVars
    <2> QED BY <2>1 DEF IO!IONext, IO!Close, InCall, Lent, Waiting
<1>3. CASE ReleaseBlock
    <2>1. Unread' = Unread
        BY <1>0, <1>3, ReleaseRefines
    <2>2. /\ ~InCall /\ InCall' /\ Lent' = <<>> /\ Waiting' = Waiting
          /\ UNCHANGED <<arrived, packets>>
        BY <1>0, <1>3, <2>1 DEF ReleaseBlock, InCall, CallPcs, Waiting, kernelVars
    <2> QED BY <2>2 DEF IO!IONext, IO!Call, InCall, Lent, Waiting
<1>4. CASE NoPacket \/ EpollWait
    <2>1. /\ UNCHANGED <<status, content, kblock, filling, arrived>>
          /\ UNCHANGED <<block_index, packet_index, release_block, out, packets>>
          /\ pc \in CallPcs /\ pc' \in CallPcs \cup {"idle"}
        BY <1>4 DEF NoPacket, EpollWait, CallPcs, kernelVars, cursor
    <2>2. Unread' = Unread /\ Lent' = Lent
        BY <2>1 DEF Unread, Frames, Lent, Bytes
    <2>3. InCall /\ Waiting = Unread /\ Waiting' = Unread /\ InCall' \in BOOLEAN
        BY <2>1, <2>2 DEF InCall, Waiting, CallPcs
    <2>4. PICK S : Lent \in Seq(S)
        BY <1>0, LentIs, BehindSeq
    <2>5. /\ Lent \o SubSeq(Waiting, 1, 0) = Lent
          /\ SubSeq(Waiting, 0 + 1, Len(Waiting)) = Waiting /\ 0 \in 0..Len(Waiting)
        BY <1>0, <2>3, <2>4, EmptyDelivery
    <2>6. packets' = packets + 0 /\ Len(Lent) + 0 <= ArraySize
        BY <1>0, <2>1, PacketAssumption DEF TypeOK
    <2>7. IO!Deliver(0)
        BY <2>1, <2>2, <2>3, <2>5, <2>6 DEF IO!Deliver, InCall, Lent, Waiting
    <2> QED BY <2>5, <2>7 DEF IO!IONext, Waiting
<1>5. CASE ReadPacket
    <2>1. /\ Unread \in Seq(1..MaxFrames) /\ Len(Unread) >= 1
          /\ Lent' = Lent \o SubSeq(Unread, 1, 1)
          /\ Unread' = SubSeq(Unread, 2, Len(Unread))
        BY <1>5, ReadRefines
    <2>2. /\ pc = "loop" /\ pc' \in {"loop", "idle"} /\ Len(out) < ArraySize
          /\ packets' = packets + 1 /\ arrived' = arrived
        BY <1>5 DEF ReadPacket, kernelVars
    <2>3. InCall /\ Waiting = Unread /\ Waiting' = Unread' /\ InCall' \in BOOLEAN
        BY <2>2 DEF InCall, Waiting, CallPcs
    <2>4. Len(Lent) + 1 <= ArraySize /\ 1 \in 0..Len(Unread) /\ 1 + 1 = 2
        <3>1. Len(Unread) \in Nat
            BY <2>1, LenProperties
        <3> QED BY <1>0, <2>1, <2>2, <3>1, PacketAssumption
    <2>5. IO!Deliver(1)
        BY <2>1, <2>2, <2>3, <2>4 DEF IO!Deliver, InCall, Lent, Waiting
    <2> QED BY <2>3, <2>4, <2>5 DEF IO!IONext, Waiting
<1>6. CASE Receive \/ Retire
    <2>1. /\ Lent' = Lent /\ UNCHANGED <<pc, packets>>
          /\ \/ Unread' = Unread
             \/ Receive /\ Unread' = Append(Unread, arrived + 1)
        BY <1>6, KernelRefines
    <2>2. pc \notin {"thrown", "destroyed"}
        BY <1>6 DEF Receive, Retire, Live
    <2>3. InCall' = InCall /\ Waiting = Unread /\ Waiting' = Unread'
        BY <2>1, <2>2 DEF InCall, Waiting
    <2>4. CASE Receive
        <3>1. arrived < MaxFrames /\ arrived' = arrived + 1
            BY <2>4 DEF Receive
        <3>2. Waiting' \in {Waiting, Append(Waiting, arrived + 1)}
            BY <2>1, <2>3
        <3>3. IO!Arrive
            BY <2>1, <2>3, <3>1, <3>2 DEF IO!Arrive, InCall, Lent, Waiting
        <3> QED BY <3>3 DEF IO!IONext
    <2>5. CASE Retire /\ ~Receive
        <3>1. arrived' = arrived
            BY <2>5 DEF Retire
        <3> QED BY <2>1, <2>3, <2>5, <3>1 DEF InCall, Lent, Waiting
    <2> QED BY <1>6, <2>4, <2>5
<1> QED BY <1>1, <1>2, <1>3, <1>4, <1>5, <1>6 DEF Next, recvImpl

\* For any ring and any array recv keeps the PacketIO contract: the frames
\* come in the order of their arrival, once, over as many calls as it takes,
\* and the kernel reuses no block behind a Frame of the caller.
THEOREM PacketImplements == Spec => Implements
<1>1. Init => LendInv /\ IO!IOInit
    <2> SUFFICES ASSUME Init PROVE LendInv /\ IO!IOInit
        OBVIOUS
    <2>0. RingInv /\ TypeOK
        BY RingInit DEF RingInv
    <2>1. OutOK
        BY DEF Init, OutOK
    <2>2. \A b \in Blocks : FramesOf[b] = <<>>
        BY DEF Init, FramesOf, Frames
    <2>3. Unread = <<>>
        <3>1. Done = 0 /\ block_index \in Blocks /\ FramesOf \in [Blocks -> Seq(1..MaxFrames)]
            BY <2>0, DoneFacts DEF Init, Done
        <3>2. UnreadOf(block_index, FramesOf, 0) = <<>>
            BY <2>2, <3>1, UnreadEmpty
        <3> QED BY <3>1, <3>2, UnreadIs
    <2>4. Lent = <<>>
        <3>1. out \in Seq(Places) /\ out = <<>>
            BY <2>0 DEF TypeOK, Places, Init
        <3>2. Lent = Behind(out, content)
            BY DEF Lent, Behind, Bytes
        <3> QED BY <3>1, <3>2, BehindSeq
    <2>5. ~InCall /\ Waiting = <<>>
        BY <2>3 DEF Init, InCall, CallPcs, Waiting
    <2> QED BY <2>0, <2>1, <2>4, <2>5 DEF LendInv, Init, IO!IOInit, InCall, Lent, Waiting
<1>2. LendInv /\ LendInv' /\ [Next]_vars => [IO!IONext]_(IO!iovars)
    BY PacketRefines DEF LendInv
<1> QED BY <1>1, <1>2, LendStep, PTL DEF Spec, Implements, IO!IOSpec
=============================================================================
