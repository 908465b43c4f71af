------------------------------ MODULE AfPacket ------------------------------
(***************************************************************************)
(* AfPacketBackend (src/backend/af_packet.cpp): a TPACKET_V3 ring of       *)
(* blocks in memory shared with the kernel.  The kernel fills a block with *)
(* frames and hands it over by setting TP_STATUS_USER in its status;       *)
(* recvImpl reads the frames of a block one by one, over as many calls as  *)
(* it takes, and hands the block back by storing TP_STATUS_KERNEL.         *)
(***************************************************************************)
EXTENDS Naturals, Sequences, SequencesExt, RxFilter

CONSTANTS
  kBlockCount, \* number of blocks
  BlockFrames, \* number of frames that fit in a block
  ArraySize,   \* the size of the caller's array of Frames
  MaxFrames    \* bound: frames that arrive

ASSUME PacketAssumption ==
  /\ kBlockCount \in Nat \ {0} /\ BlockFrames \in Nat \ {0}
  /\ ArraySize \in Nat \ {0} /\ MaxFrames \in Nat

VARIABLES
  pc,               \* where the thread that owns the backend is
  status,           \* block_status: {} is TP_STATUS_KERNEL
  content,          \* the frames in each block
  kblock,           \* the block the kernel fills
  filling,          \* FALSE: that block was not free when its turn came
  arrived,          \* number of frames that arrived
  block_index,
  packet_index,
  packets_in_block,
  release_block,
  out,              \* where the caller's Frames point: a block and a place in it
  packets           \* stats_.packets

kernelVars == <<content, kblock, filling, arrived>>
cursor == <<block_index, packet_index, packets_in_block, release_block>>
vars == <<pc, status, kernelVars, cursor, out, packets>>

Blocks == 0..(kBlockCount - 1)

\* Fault: block_index_ runs past the last block.
NextBlock_NoWrap(b) == b + 1

\* Fault: the block goes back and is looked at again.
NextBlock_Stays(b) == b

NextBlock(b) == (b + 1) % kBlockCount

\* The order in which the kernel uses the blocks.
FollowingBlock(b) == (b + 1) % kBlockCount
PreviousBlock(b) == (b + kBlockCount - 1) % kBlockCount

Init ==
  /\ pc = "off"
  /\ status = [b \in Blocks |-> {}]
  /\ content = [b \in Blocks |-> <<>>]
  /\ kblock = 0 /\ filling = TRUE
  /\ arrived = 0
  /\ block_index = 0 /\ packet_index = 0 /\ packets_in_block = 0 /\ release_block = FALSE
  /\ out = <<>> /\ packets = 0

-----------------------------------------------------------------------------
\* The constructor attaches the filter and sets the ring up, or throws.  What
\* was queued before the filter was there the kernel discards with the old
\* receive queue when the ring is set up.
Construct ==
  /\ pc = "off"
  /\ pc' \in {"idle", "thrown"}
  /\ UNCHANGED <<status, kernelVars, cursor, out, packets>>

Destroy ==
  /\ pc = "idle"
  /\ pc' = "destroyed"
  /\ out' = <<>>
  /\ UNCHANGED <<status, kernelVars, cursor, packets>>

-----------------------------------------------------------------------------
(* recvImpl.                                                               *)

\* Give back the block that the call before finished.
ReleaseBlock ==
  /\ pc = "idle"
  /\ IF release_block
     THEN /\ status' = [status EXCEPT ![block_index] = {}]
          /\ block_index' = NextBlock(block_index)
          /\ release_block' = FALSE
     ELSE UNCHANGED <<status, block_index, release_block>>
  /\ out' = <<>>
  /\ pc' = "loop"
  /\ UNCHANGED <<kernelVars, packet_index, packets_in_block, packets>>

\* Fault: the status is compared, so that a block that was handed over on a
\* time-out is not recognised.
OwnsBlock_Exact == status[block_index] = {"USER"}

OwnsBlock == "USER" \in status[block_index]

\* The array is full, or the block is still the kernel's: return what there
\* is, or wait.
NoPacket ==
  /\ pc = "loop"
  /\ \/ Len(out) = ArraySize /\ pc' = "idle"
     \/ Len(out) < ArraySize /\ ~OwnsBlock /\ pc' = IF out = <<>> THEN "epoll" ELSE "idle"
  /\ UNCHANGED <<status, kernelVars, cursor, out, packets>>

\* The socket is readable while the block that the kernel handed over last is
\* not back.
Readable == status[PreviousBlock(kblock)] # {}

\* epoll_wait returns when the socket is readable, or after 100 ms.
EpollWait ==
  /\ pc = "epoll"
  /\ pc' = IF Readable THEN "loop" ELSE "idle"
  /\ UNCHANGED <<status, kernelVars, cursor, out, packets>>

\* Fault: the packet cursor is not moved on.
Packet_First == [block |-> block_index, at |-> 1]

\* The place that the packet cursor points to.
Packet == [block |-> block_index, at |-> packet_index + 1]

\* Hand out the next frame of the block; after the last one, return and keep
\* the block until the next call.
ReadPacket ==
  /\ pc = "loop" /\ Len(out) < ArraySize /\ OwnsBlock
  /\ LET n == IF packet_index = 0 THEN Len(content[block_index]) ELSE packets_in_block
     IN  /\ out' = Append(out, Packet)
         /\ packets' = packets + 1
         /\ IF packet_index + 1 = n
            THEN release_block' = TRUE /\ packet_index' = 0 /\ packets_in_block' = 0 /\ pc' = "idle"
            ELSE /\ packet_index' = packet_index + 1 /\ packets_in_block' = n
                 /\ UNCHANGED <<release_block, pc>>
  /\ UNCHANGED <<status, kernelVars, block_index>>

recvImpl == ReleaseBlock \/ NoPacket \/ EpollWait \/ ReadPacket

-----------------------------------------------------------------------------
(* The kernel's side of the ring, as the backend uses it.                  *)

Live == pc \notin {"off", "thrown", "destroyed"}

\* Hand the current block over and go on with the next one, if it is back:
\* it then starts with the frames s.
HandOver(flags, s) ==
  LET b == FollowingBlock(kblock)
  IN  /\ status' = [status EXCEPT ![kblock] = flags]
      /\ kblock' = b
      /\ filling' = (status'[b] = {})
      /\ content' = IF filling' THEN [content EXCEPT ![b] = s] ELSE content

\* A frame that passes the filter arrives.
Receive ==
  /\ Live /\ arrived < MaxFrames
  /\ arrived' = arrived + 1
  /\ LET f == arrived + 1
     IN  \/ /\ filling /\ Len(content[kblock]) < BlockFrames
            /\ content' = [content EXCEPT ![kblock] = Append(@, f)]
            /\ UNCHANGED <<status, kblock, filling>>
         \/ /\ filling /\ Len(content[kblock]) = BlockFrames
            /\ HandOver({"USER"}, <<f>>)
         \/ /\ ~filling /\ status[kblock] = {}
            /\ content' = [content EXCEPT ![kblock] = <<f>>]
            /\ filling' = TRUE
            /\ UNCHANGED <<status, kblock>>
         \/ /\ ~filling /\ status[kblock] # {}     \* dropped
            /\ UNCHANGED <<status, content, kblock, filling>>
  /\ UNCHANGED <<pc, cursor, out, packets>>

\* The retire timer hands over a block that has frames.
Retire ==
  /\ Live /\ filling /\ content[kblock] # <<>>
  /\ HandOver({"USER", "TMO"}, <<>>)
  /\ UNCHANGED <<pc, arrived, cursor, out, packets>>

Next == Construct \/ Destroy \/ recvImpl \/ Receive \/ Retire

\* The thread runs and calls recv again and again; the kernel's timer fires.
Spec == Init /\ [][Next]_vars /\ WF_vars(Construct \/ recvImpl) /\ WF_vars(Retire)

-----------------------------------------------------------------------------
CallPcs == {"loop", "epoll"}

\* Every variable holds a value of its kind.
TypeOK ==
  /\ pc \in CallPcs \cup {"off", "thrown", "idle", "destroyed"}
  /\ status \in [Blocks -> {{}, {"USER"}, {"USER", "TMO"}}]
  /\ content \in [Blocks -> BoundedSeq(1..MaxFrames, BlockFrames)]
  /\ kblock \in Blocks /\ filling \in BOOLEAN /\ arrived \in 0..MaxFrames
  /\ block_index \in Blocks /\ release_block \in BOOLEAN
  /\ packet_index \in 0..(BlockFrames - 1) /\ packets_in_block \in 0..BlockFrames
  /\ out \in Seq([block : Blocks, at : 1..BlockFrames]) /\ Len(out) <= ArraySize
  /\ packets \in 0..MaxFrames

\* The frames of block b that count: those of a block that was handed over or
\* is being filled.  Other blocks hold what was in them before.
Frames(b) == IF status[b] # {} \/ (b = kblock /\ filling) THEN content[b] ELSE <<>>

\* The accepted frames from the reader's place on, round the ring.
Unread ==
  LET all == FlattenSeq([i \in 1..kBlockCount |-> Frames((block_index + i - 1) % kBlockCount)])
      done == IF release_block THEN Len(content[block_index]) ELSE packet_index
  IN  SubSeq(all, done + 1, Len(all))

\* The frame that a Frame points to, 0 when the kernel has reused the place.
Bytes(p) == IF p.at \in DOMAIN content[p.block] THEN content[p.block][p.at] ELSE 0

\* recv is an implementation of the PacketIO contract: frames come in order,
\* once, and the kernel does not reuse a block that the caller still looks at.
IO == INSTANCE PacketIO WITH
        waiting <- IF pc \in {"thrown", "destroyed"} THEN <<>> ELSE Unread,
        lent    <- [i \in DOMAIN out |-> Bytes(out[i])],
        inCall  <- pc \in CallPcs
Implements == IO!IOSpec

\* When the socket is readable the block recvImpl looks at is its own: the
\* retry after epoll_wait does not become a busy loop on somebody else's block.
ReadableIsOurs == Live /\ ~release_block /\ Readable => "USER" \in status[block_index]

\* A backend that lives receives the traffic that the AF_XDP backend would
\* ("Keep AF_PACKET saturation counts comparable with UDP socket and AF_XDP",
\* af_packet.cpp:48), except for IPv4 headers with options, where the filter
\* takes bytes 36 and 37 for the port wherever that is, and for UDP headers
\* that are cut off behind the port.
FiltersAgree == Live => SameTraffic

\* Every frame in the ring is handed out, unless the backend is destroyed.
FramesDelivered ==
  \A n \in 1..MaxFrames :
    packets + Len(Unread) >= n ~> (packets >= n \/ pc = "destroyed")
=============================================================================
