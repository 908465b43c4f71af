------------------------------- MODULE AfXdp -------------------------------
(***************************************************************************)
(* AfXdpBackend (src/backend/af_xdp.cpp): a receive socket over a block of *)
(* memory (UMEM) cut into kChunks chunks.  A chunk goes round: recvImpl    *)
(* puts it on the fill ring, the driver takes it from there, writes a      *)
(* frame into it and puts it on the rx ring, recvImpl hands it to the      *)
(* caller and remembers it in recycle_addrs_ until the next call.  The     *)
(* two rings are shared with the kernel without a lock.                    *)
(*                                                                         *)
(* The constructor acquires five things one after the other, and each of   *)
(* its error paths has its own list of what to give back.                  *)
(***************************************************************************)
EXTENDS Naturals, Sequences, FiniteSets

CONSTANTS
  kChunks,     \* number of chunks
  kRingSize,   \* capacity of the fill ring and of the rx ring
  ArraySize,   \* the size of the caller's array of Frames
  MaxFrames    \* bound: frames that arrive on the queue

\* The fill ring has room for every chunk (both are 8192 in af_xdp.hpp).
ASSUME XdpAssumption ==
  /\ kChunks \in Nat \ {0} /\ kRingSize \in Nat /\ kChunks <= kRingSize
  /\ ArraySize \in Nat \ {0} /\ MaxFrames \in Nat

VARIABLES
  pc,          \* where the thread that owns the backend is
  held,        \* what the constructor acquired and nobody released
  registered,  \* TRUE: the XSKMAP sends the queue's frames to the socket
  fill,        \* fill_ring_: addresses free for the driver
  driver,      \* addresses the driver took from the fill ring
  rx,          \* rx_ring_: addresses of received frames
  parked,      \* the driver found no address and waits for a wakeup
  mem,         \* the frame in each chunk, 0 when there was none
  recycle,     \* recycle_addrs_
  received,    \* what xsk_ring_cons__peek returned
  out,         \* the addresses behind the caller's Frames
  packets,     \* stats_.packets
  arrived      \* number of frames that arrived

kernelVars == <<fill, driver, rx, parked, mem, arrived>>
vars == <<pc, held, registered, recycle, received, out, packets, kernelVars>>

Chunks == 1..kChunks
Lesser(a, b) == IF a <= b THEN a ELSE b

Init ==
  /\ pc = "open" /\ held = {} /\ registered = FALSE
  /\ fill = <<>> /\ driver = <<>> /\ rx = <<>> /\ parked = FALSE
  /\ mem = [c \in Chunks |-> 0]
  /\ recycle = <<>> /\ received = 0 /\ out = <<>> /\ packets = 0
  /\ arrived = 0

-----------------------------------------------------------------------------
(* The constructor.                                                        *)

\* The calls that may fail, what each acquires and which comes next.
Acquires == [open |-> {"object"}, load |-> {}, attach |-> {"attached"}, alloc |-> {"buf"},
             umem |-> {"umem"}, socket |-> {"xsk"}, xskmap |-> {}]
After == [open |-> "load", load |-> "attach", attach |-> "alloc", alloc |-> "umem",
          umem |-> "socket", socket |-> "xskmap", xskmap |-> "populate"]

\* What the error path of each call releases before it throws.
Cleanup == [open |-> {}, load |-> {"object"}, attach |-> {"object"},
            alloc  |-> {"attached", "object"},
            umem   |-> {"buf", "attached", "object"},
            socket |-> {"umem", "buf", "attached", "object"},
            xskmap |-> {"xsk", "umem", "buf", "attached", "object"}]

\* Fault: a socket that cannot be created leaves the program attached.
Release_NoDetach(l) == IF l = "socket" THEN Cleanup[l] \ {"attached"} ELSE Cleanup[l]

Release(l) == Cleanup[l]

Construct ==
  /\ pc \in DOMAIN Acquires
  /\ \/ /\ held' = held \cup Acquires[pc]
        /\ pc' = After[pc]
        /\ registered' = (pc = "xskmap")
     \/ /\ held' = held \ Release(pc)
        /\ pc' = "thrown"
        /\ UNCHANGED registered
  /\ UNCHANGED <<recycle, received, out, packets, kernelVars>>

\* xsk_ring_prod__reserve: all n entries, or none.
Reserve(n) == IF Len(fill) + n <= kRingSize THEN n ELSE 0

\* Fault: the addresses start one chunk too far.
Addr_OffByOne(i) == i + 1

\* The address of the i-th chunk, as a number of chunks.
Addr(i) == i

\* Offer every chunk to the driver.  This last error path releases nothing.
Populate ==
  /\ pc = "populate"
  /\ IF Reserve(kChunks) = kChunks
     THEN /\ fill' = fill \o [i \in Chunks |-> Addr(i)]
          /\ held' = held \ {"object"}
          /\ pc' = "idle"
     ELSE pc' = "thrown" /\ UNCHANGED <<fill, held>>
  /\ UNCHANGED <<registered, driver, rx, parked, mem, arrived, recycle, received, out, packets>>

\* The destructor.
Destroy ==
  /\ pc = "idle"
  /\ pc' = "destroyed"
  /\ held' = held \ {"xsk", "umem", "buf", "attached"}
  /\ registered' = FALSE
  /\ rx' = <<>> /\ out' = <<>>
  /\ UNCHANGED <<fill, driver, parked, mem, arrived, recycle, received, packets>>

-----------------------------------------------------------------------------
(* recvImpl.                                                               *)

\* Fault: submitted addresses stay in recycle_addrs_.
Unsubmitted_All(count) == recycle

\* What is left in recycle_addrs_ after `count` addresses were submitted.
Unsubmitted(count) == SubSeq(recycle, count + 1, Len(recycle))

\* Give back what the call before handed out.
Recycle ==
  /\ pc = "idle"
  /\ LET count == Reserve(Len(recycle))
     IN  /\ fill' = fill \o SubSeq(recycle, 1, count)
         /\ recycle' = Unsubmitted(count)
  /\ out' = <<>>
  /\ pc' = "peek"
  /\ UNCHANGED <<held, registered, received, packets, driver, rx, parked, mem, arrived>>

limit == Lesser(ArraySize, kRingSize)

\* Fault: only a full batch is taken.
Seen_FullBatch == IF Len(rx) >= limit THEN limit ELSE 0

Seen == Lesser(limit, Len(rx))

\* xsk_ring_cons__peek, before and after the poll.
Peek ==
  /\ pc \in {"peek", "peekAgain"}
  /\ received' = Seen
  /\ pc' = IF received' = 0 /\ pc = "peek" THEN "poll" ELSE "read"
  /\ UNCHANGED <<held, registered, recycle, out, packets, kernelVars>>

\* Fault: recv returns at once when nothing is there.
Poll_Skipped ==
  /\ pc = "poll"
  /\ pc' = "idle"
  /\ UNCHANGED <<held, registered, recycle, received, out, packets, kernelVars>>

\* poll enters the kernel, which wakes a driver that waits,
Poll ==
  /\ pc = "poll"
  /\ parked' = FALSE
  /\ pc' = "polling"
  /\ UNCHANGED <<held, registered, recycle, received, out, packets, fill, driver, rx, mem, arrived>>

\* and returns when there is a frame, or after 100 ms.
PollReturns ==
  /\ pc = "polling"
  /\ pc' = IF rx = <<>> THEN "idle" ELSE "peekAgain"
  /\ UNCHANGED <<held, registered, recycle, received, out, packets, kernelVars>>

\* Fault: every Frame is made from the first descriptor.
Descriptors_First == [i \in 1..received |-> rx[1]]

\* The addresses in the rx entries that were seen.
Descriptors == SubSeq(rx, 1, received)

\* Hand out the frames that were seen, then release their rx entries.
Read ==
  /\ pc = "read"
  /\ out' = Descriptors
  /\ recycle' = recycle \o Descriptors
  /\ packets' = packets + received
  /\ rx' = SubSeq(rx, received + 1, Len(rx))
  /\ pc' = "idle"
  /\ UNCHANGED <<held, registered, received, fill, driver, parked, mem, arrived>>

recvImpl == Recycle \/ Peek \/ Poll \/ PollReturns \/ Read

-----------------------------------------------------------------------------
(* The kernel and the driver, as the backend uses them.                    *)

\* The driver takes an address from the fill ring.
Stock ==
  /\ registered /\ ~parked /\ fill # <<>>
  /\ driver' = Append(driver, Head(fill))
  /\ fill' = Tail(fill)
  /\ UNCHANGED <<pc, held, registered, recycle, received, out, packets, rx, parked, mem, arrived>>

\* With no address at all it stops until it is woken (XDP_USE_NEED_WAKEUP).
Park ==
  /\ registered /\ ~parked /\ fill = <<>> /\ driver = <<>>
  /\ parked' = TRUE
  /\ UNCHANGED <<pc, held, registered, recycle, received, out, packets, fill, driver, rx, mem, arrived>>

\* A frame arrives.  It is written to an address the driver has and goes on
\* the rx ring; with no address or no room it is dropped.
Receive ==
  /\ registered /\ arrived < MaxFrames
  /\ arrived' = arrived + 1
  /\ IF driver # <<>> /\ Len(rx) < kRingSize
     THEN /\ mem' = [mem EXCEPT ![Head(driver)] = arrived + 1]
          /\ rx' = Append(rx, Head(driver))
          /\ driver' = Tail(driver)
     ELSE UNCHANGED <<mem, rx, driver>>
  /\ UNCHANGED <<pc, held, registered, recycle, received, out, packets, fill, parked>>

Next ==
  \/ Construct \/ Populate \/ Destroy
  \/ recvImpl
  \/ Stock \/ Park \/ Receive

\* The thread that owns the backend runs, and the receive loops of the
\* benchmark call recv again and again.
Spec == Init /\ [][Next]_vars /\ WF_vars(Construct \/ Populate \/ recvImpl)

-----------------------------------------------------------------------------
CtorPcs == DOMAIN Acquires \cup {"populate", "thrown"}
CallPcs == {"peek", "poll", "polling", "peekAgain", "read"}

\* Every variable holds a value of its kind.
TypeOK ==
  /\ pc \in CtorPcs \cup CallPcs \cup {"idle", "destroyed"}
  /\ held \subseteq {"object", "attached", "buf", "umem", "xsk"}
  /\ registered \in BOOLEAN /\ parked \in BOOLEAN
  /\ \A s \in {fill, driver, rx, recycle, out} : s \in Seq(Chunks)
  /\ mem \in [Chunks -> 0..MaxFrames]
  /\ received \in 0..kRingSize
  /\ packets \in 0..MaxFrames /\ arrived \in 0..MaxFrames

Occurrences(c, s) == Cardinality({i \in DOMAIN s : s[i] = c})

\* Between construction and destruction every chunk is in exactly one place:
\* on the fill ring, with the driver, on the rx ring or in recycle_addrs_.
\* None is lost, and none is offered to the driver twice.
ChunksConserved ==
  pc \in CallPcs \cup {"idle"} =>
    \A c \in Chunks :
      Occurrences(c, fill) + Occurrences(c, driver) + Occurrences(c, rx)
        + Occurrences(c, recycle) = 1

\* A constructor that throws leaves nothing attached, open or allocated (its
\* destructor will not run), and neither does the destructor.
NothingLeaks == pc \in {"thrown", "destroyed"} => held = {}

\* recv is an implementation of the PacketIO contract: the frames come in
\* order, once, and the driver does not write over them until the next call.
IO == INSTANCE PacketIO WITH
        waiting <- [i \in DOMAIN rx |-> mem[rx[i]]],
        lent    <- [i \in DOMAIN out |-> mem[out[i]]],
        inCall  <- pc \in CallPcs
Implements == IO!IOSpec

\* A driver that ran out of chunks is woken: recvImpl returns the chunks
\* before it looks at the rx ring and polls whenever that ring is empty.
DriverWoken == parked ~> (~parked \/ pc = "destroyed")

\* Every frame on the rx ring is handed out, unless the backend is destroyed.
FramesDelivered ==
  \A n \in 1..MaxFrames : packets + Len(rx) >= n ~> (packets >= n \/ pc = "destroyed")
=============================================================================
