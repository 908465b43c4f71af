------------------------------ MODULE PacketIO ------------------------------
(***************************************************************************)
(* What a receive backend of the benchmark promises to the code that is    *)
(* templated on it (PacketIO in core/backend.hpp): recv hands out the      *)
(* frames in the order in which the kernel accepted them, each one once,   *)
(* at most ArraySize a call, and the bytes behind a frame stay as they are *)
(* until the caller's next recv.  The kernel may drop any frame before it  *)
(* accepts it.  Frames are numbered as they arrive; a number stands for    *)
(* the bytes of the frame.                                                 *)
(***************************************************************************)
EXTENDS Naturals, Sequences

CONSTANTS
  ArraySize,   \* the size of the caller's array of Frames
  MaxFrames    \* bound: frames that arrive

VARIABLES
  arrived,     \* number of frames that have arrived
  waiting,     \* the accepted frames that were not handed out yet
  inCall,      \* TRUE: the caller is inside recv
  lent,        \* the bytes the caller sees through the Frames it was given
  packets      \* stats().packets

iovars == <<arrived, waiting, inCall, lent, packets>>

IOInit == arrived = 0 /\ waiting = <<>> /\ ~inCall /\ lent = <<>> /\ packets = 0

\* A frame arrives and is accepted or dropped.
Arrive ==
  /\ arrived < MaxFrames
  /\ arrived' = arrived + 1
  /\ waiting' \in {waiting, Append(waiting, arrived + 1)}
  /\ UNCHANGED <<inCall, lent, packets>>

\* recv is called: the Frames of the call before are void.
Call ==
  /\ ~inCall /\ inCall'
  /\ lent' = <<>>
  /\ UNCHANGED <<arrived, waiting, packets>>

\* recv puts the next k frames into the caller's array, and may return.
Deliver(k) ==
  /\ inCall /\ Len(lent) + k <= ArraySize
  /\ lent' = lent \o SubSeq(waiting, 1, k)
  /\ waiting' = SubSeq(waiting, k + 1, Len(waiting))
  /\ packets' = packets + k
  /\ inCall' \in BOOLEAN
  /\ UNCHANGED arrived

\* The backend is destroyed.
Close ==
  /\ ~inCall /\ waiting' = <<>> /\ lent' = <<>>
  /\ UNCHANGED <<arrived, inCall, packets>>

IONext == Arrive \/ Call \/ (\E k \in 0..Len(waiting) : Deliver(k)) \/ Close

IOSpec == IOInit /\ [][IONext]_iovars
=============================================================================
