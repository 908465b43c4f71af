---------------------------- MODULE AfXdpProofs -----------------------------
(***************************************************************************)
(* Proofs about the AF_XDP backend, for any number of chunks, any ring     *)
(* that has room for them and any size of the caller's array.              *)
(***************************************************************************)
EXTENDS AfXdp, FiniteSetTheorems, SequenceTheorems, TLAPS

-----------------------------------------------------------------------------
(* The inductive invariant.                                                *)

Resources == {"object", "attached", "buf", "umem", "xsk"}

\* At each call of the constructor, what is held is what the error path of
\* that call releases; a working backend has closed the object file.
HeldOK ==
  /\ pc \in DOMAIN Acquires => held = Cleanup[pc]
  /\ pc = "populate" => held = Resources
  /\ pc \in CallPcs \cup {"idle"} => held = Resources \ {"object"}
  /\ pc \in {"thrown", "destroyed"} => held = {}

\* Until the constructor returns no chunk is anywhere; the queue is registered
\* from the update of the XSKMAP until the destructor.
FreshOK ==
  /\ pc \in CtorPcs => /\ fill = <<>> /\ driver = <<>> /\ rx = <<>>
                       /\ recycle = <<>> /\ out = <<>>
  /\ registered => pc \in CallPcs \cup {"populate", "idle"}

\* A frame is counted, on the rx ring or dropped.
CountsOK == packets + Len(rx) <= arrived

\* Inside recv the caller has no Frames, and what was seen on the rx ring is
\* still there.
CallOK ==
  /\ pc \in CallPcs \cup {"destroyed"} => out = <<>>
  /\ pc = "read" => received <= Len(rx) /\ received <= ArraySize

\* What the caller looks at waits in recycle_addrs_.
Within(t, u) == \A i \in DOMAIN t : \E j \in DOMAIN u : u[j] = t[i]
OutHeld == Within(out, recycle)

XdpInv ==
  TypeOK /\ HeldOK /\ FreshOK /\ CountsOK /\ CallOK /\ OutHeld /\ ChunksConserved

-----------------------------------------------------------------------------
(* How often an address occurs in a sequence.                              *)

Places(c, s) == {i \in DOMAIN s : s[i] = c}

\* The places of an address are finitely many.
LEMMA PlacesFinite ==
  ASSUME NEW S, NEW s \in Seq(S), NEW c
  PROVE  IsFiniteSet(Places(c, s)) /\ Occurrences(c, s) = Cardinality(Places(c, s))
         /\ Occurrences(c, s) \in Nat
<1>1. Len(s) \in Nat /\ DOMAIN s = 1..Len(s)
    BY LenProperties
<1>2. IsFiniteSet(1..Len(s))
    BY <1>1, FS_Interval
<1>3. Places(c, s) \in SUBSET (1..Len(s))
    BY <1>1 DEF Places
<1>4. IsFiniteSet(Places(c, s)) /\ Cardinality(Places(c, s)) \in Nat
    BY <1>2, <1>3, FS_Subset, FS_CardinalityType
<1> QED BY <1>4 DEF Occurrences, Places

\* In a concatenation an address occurs as often as in the parts together.
LEMMA OccursConcat ==
  ASSUME NEW S, NEW s \in Seq(S), NEW t \in Seq(S), NEW c
  PROVE  Occurrences(c, s \o t) = Occurrences(c, s) + Occurrences(c, t)
<1> DEFINE u == s \o t
           m == Len(s)
           n == Len(t)
           A == Places(c, s)
           B == Places(c, t)
           C == {i \in (m + 1)..(m + n) : t[i - m] = c}
<1>1. /\ m \in Nat /\ DOMAIN s = 1..m /\ n \in Nat /\ DOMAIN t = 1..n
    BY LenProperties
<1>2. /\ u \in Seq(S) /\ DOMAIN u = 1..(m + n)
      /\ \A i \in 1..(m + n) : u[i] = IF i <= m THEN s[i] ELSE t[i - m]
    <2>1. u \in Seq(S) /\ Len(u) = m + n
          /\ \A i \in 1..(m + n) : u[i] = IF i <= m THEN s[i] ELSE t[i - m]
        BY ConcatProperties
    <2>2. DOMAIN u = 1..Len(u)
        BY <2>1, LenProperties
    <2> QED BY <2>1, <2>2
<1> HIDE DEF u, m, n
<1>3. Places(c, u) = A \cup C
    BY <1>1, <1>2 DEF Places
<1>4. A \cap C = {}
    BY <1>1 DEF Places
<1>5. ExistsBijection(B, C)
    <2> DEFINE f == [i \in B |-> i + m]
    <2>1. f \in [B -> C]
        BY <1>1 DEF Places
    <2>2. \A i, j \in B : f[i] = f[j] => i = j
        BY <1>1 DEF Places
    <2>3. \A k \in C : \E i \in B : f[i] = k
        <3> SUFFICES ASSUME NEW k \in C PROVE \E i \in B : f[i] = k
            OBVIOUS
        <3>1. k - m \in B /\ (k - m) + m = k
            BY <1>1 DEF Places
        <3> QED BY <3>1
    <2> HIDE DEF B, C
    <2>4. f \in Bijection(B, C)
        BY <2>1, <2>2, <2>3 DEF Bijection, Injection, Surjection, IsInjective
    <2> QED BY <2>4 DEF ExistsBijection
<1>6. IsFiniteSet(A) /\ IsFiniteSet(B) /\ Cardinality(A) \in Nat /\ Cardinality(B) \in Nat
      /\ Occurrences(c, s) = Cardinality(A) /\ Occurrences(c, t) = Cardinality(B)
      /\ Occurrences(c, u) = Cardinality(Places(c, u))
    BY <1>2, PlacesFinite
<1> HIDE DEF A, B, C
<1>7. IsFiniteSet(C) /\ Cardinality(C) = Cardinality(B)
    BY <1>5, <1>6, FS_Bijection
<1>8. Cardinality(A \cup C) = Cardinality(A) + Cardinality(C) - Cardinality(A \cap C)
    BY <1>6, <1>7, FS_Union
<1>9. Cardinality(A \cap C) = 0
    BY <1>4, FS_EmptySet
<1>10. Occurrences(c, u) = Occurrences(c, s) + Occurrences(c, t)
    BY <1>3, <1>6, <1>7, <1>8, <1>9
<1> QED BY <1>10 DEF u

\* Moving the head of one sequence to the end of another.
LEMMA OccursMoveHead ==
  ASSUME NEW S, NEW s \in Seq(S), NEW t \in Seq(S), s # <<>>, NEW c
  PROVE  /\ Occurrences(c, Tail(s)) + Occurrences(c, Append(t, Head(s)))
              = Occurrences(c, s) + Occurrences(c, t)
         /\ Occurrences(c, s) \in Nat /\ Occurrences(c, t) \in Nat
         /\ Occurrences(c, Tail(s)) \in Nat /\ Occurrences(c, Append(t, Head(s))) \in Nat
<1> PICK h \in S : h = Head(s)
    BY HeadTailProperties
<1> DEFINE one == <<h>>
<1>1. one \in Seq(S) /\ Tail(s) \in Seq(S) /\ Append(t, h) \in Seq(S)
    BY HeadTailProperties, AppendProperties
<1>2. s = one \o Tail(s)
    <2>1. Len(s) \in Nat \ {0}
        BY EmptySeq
    <2>2. 1 \in 1..Len(s) /\ Len(s) \in 1..Len(s)
        BY <2>1
    <2>3. SubSeq(s, 1, Len(s)) = <<s[1]>> \o SubSeq(s, 1 + 1, Len(s))
        BY <2>2, SubSeqRecursiveFirst
    <2>4. Tail(s) = SubSeq(s, 2, Len(s)) /\ SubSeq(s, 1, Len(s)) = s
        BY TailIsSubSeq, SubSeqFull
    <2>5. Head(s) = s[1]
        BY <2>1
    <2> QED BY <2>3, <2>4, <2>5
<1>3. Append(t, h) = t \o one
    BY AppendIsConcat
<1>4. Occurrences(c, one) \in Nat /\ Occurrences(c, Tail(s)) \in Nat /\ Occurrences(c, t) \in Nat
      /\ Occurrences(c, s) \in Nat /\ Occurrences(c, Append(t, h)) \in Nat
    BY <1>1, PlacesFinite
<1> HIDE DEF one
<1>5. Occurrences(c, s) = Occurrences(c, one) + Occurrences(c, Tail(s))
    BY <1>1, <1>2, OccursConcat
<1>6. Occurrences(c, Append(t, h)) = Occurrences(c, t) + Occurrences(c, one)
    BY <1>1, <1>3, OccursConcat
<1> QED BY <1>4, <1>5, <1>6

\* Moving the first k entries of one sequence to the end of another.
LEMMA OccursMove ==
  ASSUME NEW S, NEW s \in Seq(S), NEW t \in Seq(S), NEW k \in 0..Len(s), NEW c
  PROVE  /\ SubSeq(s, 1, k) \in Seq(S) /\ SubSeq(s, k + 1, Len(s)) \in Seq(S)
         /\ Len(SubSeq(s, 1, k)) = k /\ Len(SubSeq(s, k + 1, Len(s))) = Len(s) - k
         /\ t \o SubSeq(s, 1, k) \in Seq(S)
         /\ Occurrences(c, SubSeq(s, k + 1, Len(s))) + Occurrences(c, t \o SubSeq(s, 1, k))
              = Occurrences(c, s) + Occurrences(c, t)
         /\ Occurrences(c, s) \in Nat /\ Occurrences(c, t) \in Nat
         /\ Occurrences(c, SubSeq(s, k + 1, Len(s))) \in Nat
         /\ Occurrences(c, t \o SubSeq(s, 1, k)) \in Nat
<1> DEFINE a == SubSeq(s, 1, k)
           b == SubSeq(s, k + 1, Len(s))
<1>0. Len(s) \in Nat /\ k \in Nat /\ k <= Len(s) /\ k \in Int /\ k + 1 \in Int /\ Len(s) \in Int
    BY LenProperties
<1>1. a \in Seq(S) /\ Len(a) = k
    <2>1. \A i \in 1..k : s[i] \in S
        <3>1. \A i \in 1..k : i \in 1..Len(s)
            BY <1>0
        <3> QED BY <3>1, ElementOfSeq
    <2>2. a \in Seq(S) /\ Len(a) = IF 1 <= k THEN k - 1 + 1 ELSE 0
        BY <1>0, <2>1, SubSeqProperties
    <2> QED BY <1>0, <2>2
<1>2. b \in Seq(S) /\ Len(b) = Len(s) - k
    <2>1. \A i \in (k + 1)..Len(s) : s[i] \in S
        <3>1. \A i \in (k + 1)..Len(s) : i \in 1..Len(s)
            BY <1>0
        <3> QED BY <3>1, ElementOfSeq
    <2>2. b \in Seq(S) /\ Len(b) = IF k + 1 <= Len(s) THEN Len(s) - (k + 1) + 1 ELSE 0
        BY <1>0, <2>1, SubSeqProperties
    <2> QED BY <1>0, <2>2
<1>3. s = a \o b
    <2>1. 1 \in 1..(Len(s) + 1) /\ k \in (1 - 1)..Len(s) /\ Len(s) \in k..Len(s)
        BY <1>0
    <2>2. a \o b = SubSeq(s, 1, Len(s))
        BY <2>1, ConcatAdjacentSubSeq
    <2> QED BY <2>2, SubSeqFull
<1> HIDE DEF a, b
<1>4. t \o a \in Seq(S)
    BY <1>1, ConcatProperties
<1>5. Occurrences(c, a) \in Nat /\ Occurrences(c, b) \in Nat /\ Occurrences(c, t) \in Nat
      /\ Occurrences(c, s) \in Nat /\ Occurrences(c, t \o a) \in Nat
    BY <1>1, <1>2, <1>4, PlacesFinite
<1>6. Occurrences(c, s) = Occurrences(c, a) + Occurrences(c, b)
    BY <1>1, <1>2, <1>3, OccursConcat
<1>7. Occurrences(c, t \o a) = Occurrences(c, t) + Occurrences(c, a)
    BY <1>1, OccursConcat
<1>8. Occurrences(c, b) + Occurrences(c, t \o a) = Occurrences(c, s) + Occurrences(c, t)
    BY <1>5, <1>6, <1>7
<1> QED BY <1>1, <1>2, <1>4, <1>5, <1>8 DEF a, b

\* An address that is in a sequence occurs in it.
LEMMA OccursAt ==
  ASSUME NEW S, NEW s \in Seq(S), NEW i \in DOMAIN s
  PROVE  Occurrences(s[i], s) \in Nat \ {0}
<1>1. i \in Places(s[i], s)
    BY DEF Places
<1>2. Places(s[i], s) # {}
    BY <1>1
<1>3. Cardinality(Places(s[i], s)) # 0
    BY <1>2, PlacesFinite, FS_EmptySet
<1> QED BY <1>3, PlacesFinite

\* A sequence without entries has no place for an address.
LEMMA OccursEmpty == ASSUME NEW c PROVE Occurrences(c, <<>>) = 0
<1>1. {i \in DOMAIN <<>> : <<>>[i] = c} = {}
    OBVIOUS
<1> QED BY <1>1, FS_EmptySet DEF Occurrences

-----------------------------------------------------------------------------
(* Its preservation by the constructor and the destructor.                 *)

\* The rings, the driver and recycle_addrs_ are sequences of chunks.
LEMMA ChunkSeqs ==
  ASSUME TypeOK
  PROVE  /\ fill \in Seq(Chunks) /\ driver \in Seq(Chunks) /\ rx \in Seq(Chunks)
         /\ recycle \in Seq(Chunks) /\ out \in Seq(Chunks)
         /\ Len(fill) \in Nat /\ Len(driver) \in Nat /\ Len(rx) \in Nat
         /\ Len(recycle) \in Nat /\ Len(out) \in Nat
<1>1. /\ fill \in Seq(Chunks) /\ driver \in Seq(Chunks) /\ rx \in Seq(Chunks)
      /\ recycle \in Seq(Chunks) /\ out \in Seq(Chunks)
    BY DEF TypeOK
<1> QED BY <1>1, LenProperties

\* A call of the constructor succeeds, or throws and gives everything back.
LEMMA ConstructStep == ASSUME XdpInv, Construct PROVE XdpInv'
<1>0. pc \in {"open", "load", "attach", "alloc", "umem", "socket", "xskmap"}
    BY DEF Construct, Acquires
<1>1. UNCHANGED <<recycle, received, out, packets, kernelVars>>
    BY DEF Construct
<1>2. CASE /\ held' = held \cup Acquires[pc] /\ pc' = After[pc] /\ registered' = (pc = "xskmap")
    <2>0. pc' \in {"load", "attach", "alloc", "umem", "socket", "xskmap", "populate"}
          /\ (pc = "xskmap" => pc' = "populate")
        BY <1>0, <1>2 DEF After
    <2>1. registered' \in BOOLEAN /\ (registered' => pc' = "populate")
        BY <1>2, <2>0, Zenon
    <2>2. HeldOK' /\ held' \subseteq Resources
        BY <1>0, <1>2 DEF XdpInv, HeldOK, Acquires, After, Cleanup, Resources, CallPcs
    <2> QED BY <1>0, <1>1, <2>0, <2>1, <2>2 DEF XdpInv, TypeOK, FreshOK, CountsOK, CallOK, OutHeld,
              ChunksConserved, CtorPcs, CallPcs, Acquires, Resources, kernelVars
<1>3. CASE held' = held \ Release(pc) /\ pc' = "thrown" /\ UNCHANGED registered
    <2>1. held' = {}
        BY <1>0, <1>3 DEF XdpInv, HeldOK, Acquires, Release
    <2> QED BY <1>0, <1>1, <1>3, <2>1 DEF XdpInv, TypeOK, HeldOK, FreshOK, CountsOK, CallOK,
              OutHeld, ChunksConserved, CtorPcs, CallPcs, Acquires, kernelVars
<1> QED BY <1>2, <1>3 DEF Construct

\* The addresses the constructor offers are a sequence of all the chunks.
LEMMA AllChunks ==
  /\ [i \in Chunks |-> Addr(i)] \in Seq(Chunks)
  /\ \A c \in Chunks : Occurrences(c, [i \in Chunks |-> Addr(i)]) = 1
<1> DEFINE s == [i \in Chunks |-> Addr(i)]
<1>1. s \in [1..kChunks -> Chunks] /\ kChunks \in Nat
    BY XdpAssumption DEF Chunks, Addr
<1>2. s \in Seq(Chunks)
    BY <1>1, SeqDef
<1>3. ASSUME NEW c \in Chunks PROVE Occurrences(c, s) = 1
    <2>1. {i \in DOMAIN s : s[i] = c} = {c}
        BY DEF Addr
    <2>2. Cardinality({c}) = 1
        BY FS_Singleton
    <2> QED BY <2>1, <2>2 DEF Occurrences
<1> QED BY <1>2, <1>3

\* The empty fill ring takes every chunk, so that the last error path of the
\* constructor, which releases nothing, is not reached.
LEMMA PopulateStep == ASSUME XdpInv, Populate PROVE XdpInv'
<1> USE XdpAssumption
<1>0. /\ pc = "populate" /\ fill = <<>> /\ driver = <<>> /\ rx = <<>> /\ recycle = <<>>
      /\ out = <<>> /\ held = Resources
    BY DEF Populate, XdpInv, FreshOK, HeldOK, CtorPcs
<1> DEFINE all == [i \in Chunks |-> Addr(i)]
<1>1. Reserve(kChunks) = kChunks
    BY <1>0, EmptySeq DEF Reserve
<1>2. /\ fill' = fill \o all /\ held' = held \ {"object"} /\ pc' = "idle"
      /\ UNCHANGED <<registered, driver, rx, parked, mem, arrived, recycle, received, out, packets>>
    BY <1>1 DEF Populate
<1>3. all \in Seq(Chunks) /\ \A c \in Chunks : Occurrences(c, all) = 1
    BY AllChunks
<1> HIDE DEF all
<1>4. fill' = all
    BY <1>0, <1>2, <1>3, ConcatEmptySeq
<1>5. TypeOK'
    BY <1>0, <1>2, <1>3, <1>4 DEF XdpInv, TypeOK, CtorPcs, CallPcs, Resources
<1>6. ChunksConserved'
    BY <1>0, <1>2, <1>3, <1>4, OccursEmpty DEF ChunksConserved
<1>7. HeldOK' /\ FreshOK' /\ CountsOK' /\ CallOK' /\ OutHeld'
    BY <1>0, <1>2 DEF XdpInv, HeldOK, FreshOK, CountsOK, CallOK, OutHeld, CtorPcs, CallPcs,
       Acquires, Resources
<1> QED BY <1>5, <1>6, <1>7 DEF XdpInv

\* The destructor releases what a working backend holds.
LEMMA DestroyStep == ASSUME XdpInv, Destroy PROVE XdpInv'
<1> USE XdpAssumption
<1>0. pc = "idle" /\ pc' = "destroyed" /\ rx' = <<>> /\ out' = <<>> /\ registered' = FALSE
      /\ UNCHANGED <<fill, driver, parked, mem, arrived, recycle, received, packets>>
    BY DEF Destroy
<1>1. held' = {}
    BY <1>0 DEF Destroy, XdpInv, HeldOK, Resources
<1>2. Len(rx) \in Nat /\ Len(rx') = 0 /\ rx' \in Seq(Chunks) /\ out' \in Seq(Chunks)
    BY <1>0, ChunkSeqs, EmptySeq DEF XdpInv
<1>3. TypeOK'
    BY <1>0, <1>1, <1>2 DEF XdpInv, TypeOK, CtorPcs, CallPcs
<1>4. CountsOK'
    BY <1>0, <1>2 DEF XdpInv, TypeOK, CountsOK
<1> QED BY <1>0, <1>1, <1>3, <1>4 DEF XdpInv, HeldOK, FreshOK, CallOK, OutHeld, Within, ChunksConserved,
         CtorPcs, CallPcs, Acquires

-----------------------------------------------------------------------------
(* Its preservation by recvImpl.                                           *)

\* Giving back everything or nothing of recycle_addrs_.
LEMMA RecycleStep == ASSUME XdpInv, Recycle PROVE XdpInv'
<1> USE XdpAssumption
<1>0. /\ pc = "idle" /\ pc' = "peek" /\ out' = <<>>
      /\ UNCHANGED <<held, registered, received, packets, driver, rx, parked, mem, arrived>>
    BY DEF Recycle
<1>1. /\ fill \in Seq(Chunks) /\ recycle \in Seq(Chunks) /\ driver \in Seq(Chunks)
      /\ rx \in Seq(Chunks) /\ Len(fill) \in Nat /\ Len(recycle) \in Nat
    BY ChunkSeqs DEF XdpInv
<1> DEFINE count == Reserve(Len(recycle))
<1>2. count \in 0..Len(recycle)
    BY <1>1 DEF Reserve
<1>3. fill' = fill \o SubSeq(recycle, 1, count) /\ recycle' = SubSeq(recycle, count + 1, Len(recycle))
    BY DEF Recycle, Unsubmitted
<1> HIDE DEF count
<1>4. fill' \in Seq(Chunks) /\ recycle' \in Seq(Chunks) /\ out' \in Seq(Chunks)
    BY <1>0, <1>1, <1>2, <1>3, OccursMove, EmptySeq
<1>5. TypeOK'
    BY <1>0, <1>4 DEF XdpInv, TypeOK, CtorPcs, CallPcs
<1>6. ASSUME NEW c \in Chunks
      PROVE  Occurrences(c, fill') + Occurrences(c, driver') + Occurrences(c, rx')
               + Occurrences(c, recycle') = 1
    <2>1. Occurrences(c, fill) + Occurrences(c, driver) + Occurrences(c, rx)
            + Occurrences(c, recycle) = 1
        BY <1>0 DEF XdpInv, ChunksConserved
    <2>2. /\ Occurrences(c, recycle') + Occurrences(c, fill')
               = Occurrences(c, recycle) + Occurrences(c, fill)
          /\ Occurrences(c, recycle) \in Nat /\ Occurrences(c, fill) \in Nat
          /\ Occurrences(c, recycle') \in Nat /\ Occurrences(c, fill') \in Nat
        BY <1>1, <1>2, <1>3, OccursMove
    <2>3. Occurrences(c, driver) \in Nat /\ Occurrences(c, rx) \in Nat
        BY <1>1, PlacesFinite
    <2>4. Occurrences(c, driver') = Occurrences(c, driver) /\ Occurrences(c, rx') = Occurrences(c, rx)
        BY <1>0
    <2> QED BY <2>1, <2>2, <2>3, <2>4
<1>7. ChunksConserved'
    BY <1>6 DEF ChunksConserved, Chunks
<1>8. HeldOK' /\ FreshOK' /\ CountsOK' /\ CallOK' /\ OutHeld'
    BY <1>0 DEF XdpInv, HeldOK, FreshOK, CountsOK, CallOK, OutHeld, Within, CtorPcs, CallPcs, Acquires
<1> QED BY <1>5, <1>7, <1>8 DEF XdpInv

\* Looking at the rx ring, and the poll.
LEMMA PollStep == ASSUME XdpInv, Peek \/ Poll \/ PollReturns PROVE XdpInv'
<1> USE XdpAssumption
<1>0. /\ UNCHANGED <<held, registered, recycle, out, packets, fill, driver, rx, mem, arrived>>
      /\ pc \in CallPcs /\ pc' \in CallPcs \cup {"idle"}
    BY DEF Peek, Poll, PollReturns, kernelVars, CallPcs
<1>1. parked' \in BOOLEAN
    BY DEF Peek, Poll, PollReturns, kernelVars, XdpInv, TypeOK
<1>2. received' \in 0..kRingSize /\ (pc' = "read" => received' <= Len(rx) /\ received' <= ArraySize)
    <2>1. Len(rx) \in Nat
        BY ChunkSeqs DEF XdpInv
    <2>2. CASE Peek
        BY <2>1, <2>2 DEF Peek, Seen, limit, Lesser
    <2>3. CASE Poll \/ PollReturns
        BY <2>3 DEF Poll, PollReturns, XdpInv, TypeOK
    <2> QED BY <2>2, <2>3
<1>3. TypeOK'
    BY <1>0, <1>1, <1>2 DEF XdpInv, TypeOK
<1>4. HeldOK' /\ FreshOK'
    BY <1>0 DEF XdpInv, HeldOK, FreshOK, CtorPcs, CallPcs, Acquires
<1>5. CountsOK' /\ CallOK' /\ OutHeld' /\ ChunksConserved'
    BY <1>0, <1>2 DEF XdpInv, CountsOK, CallOK, OutHeld, ChunksConserved, CallPcs
<1> QED BY <1>3, <1>4, <1>5 DEF XdpInv

\* The last entries of a concatenation are those of its second part.
LEMMA SecondPart == ASSUME NEW S, NEW s \in Seq(S), NEW t \in Seq(S) PROVE Within(t, s \o t)
<1> DEFINE u == s \o t
<1> SUFFICES ASSUME NEW i \in DOMAIN t PROVE \E j \in DOMAIN u : u[j] = t[i]
    BY DEF Within
<1> DEFINE m == Len(s)
           n == Len(t)
<1>1. m \in Nat /\ n \in Nat /\ i \in 1..n
    BY LenProperties
<1>2. u \in Seq(S) /\ Len(u) = m + n
      /\ \A j \in 1..(m + n) : u[j] = IF j <= m THEN s[j] ELSE t[j - m]
    BY ConcatProperties
<1>3. DOMAIN u = 1..(m + n)
    BY <1>2, LenProperties
<1> HIDE DEF u, m, n
<1>4. m + i \in 1..(m + n) /\ ~(m + i <= m) /\ (m + i) - m = i
    BY <1>1
<1>5. m + i \in DOMAIN u /\ u[m + i] = t[i]
    BY <1>2, <1>3, <1>4
<1> QED BY <1>5

\* What was seen goes to the caller and to recycle_addrs_.
LEMMA ReadStep == ASSUME XdpInv, Read PROVE XdpInv'
<1> USE XdpAssumption
<1>0. /\ pc = "read" /\ pc' = "idle" /\ packets' = packets + received
      /\ UNCHANGED <<held, registered, received, fill, driver, parked, mem, arrived>>
      /\ out' = SubSeq(rx, 1, received) /\ recycle' = recycle \o SubSeq(rx, 1, received)
      /\ rx' = SubSeq(rx, received + 1, Len(rx))
    BY DEF Read, Descriptors
<1>1. /\ fill \in Seq(Chunks) /\ recycle \in Seq(Chunks) /\ driver \in Seq(Chunks)
      /\ rx \in Seq(Chunks) /\ Len(rx) \in Nat
    BY ChunkSeqs DEF XdpInv
<1>2. received \in 0..Len(rx) /\ received \in Nat
    BY <1>0, <1>1 DEF XdpInv, TypeOK, CallOK
<1>3. /\ out' \in Seq(Chunks) /\ recycle' \in Seq(Chunks) /\ rx' \in Seq(Chunks)
      /\ Len(rx') = Len(rx) - received
    BY <1>0, <1>1, <1>2, OccursMove
<1>4. packets' + Len(rx') <= arrived' /\ packets' \in 0..MaxFrames
    <2>1. packets \in Nat /\ arrived \in 0..MaxFrames /\ packets + Len(rx) <= arrived
        BY DEF XdpInv, TypeOK, CountsOK
    <2>2. packets' = packets + received /\ arrived' = arrived /\ Len(rx') = Len(rx) - received
        BY <1>0, <1>3
    <2> QED BY <1>1, <1>2, <2>1, <2>2
<1>5. TypeOK'
    BY <1>0, <1>3, <1>4 DEF XdpInv, TypeOK, CtorPcs, CallPcs
<1>6. ASSUME NEW c \in Chunks
      PROVE  Occurrences(c, fill') + Occurrences(c, driver') + Occurrences(c, rx')
               + Occurrences(c, recycle') = 1
    <2>1. Occurrences(c, fill) + Occurrences(c, driver) + Occurrences(c, rx)
            + Occurrences(c, recycle) = 1
        BY <1>0 DEF XdpInv, ChunksConserved, CallPcs
    <2>2. /\ Occurrences(c, rx') + Occurrences(c, recycle')
               = Occurrences(c, rx) + Occurrences(c, recycle)
          /\ Occurrences(c, rx) \in Nat /\ Occurrences(c, recycle) \in Nat
          /\ Occurrences(c, rx') \in Nat /\ Occurrences(c, recycle') \in Nat
        BY <1>0, <1>1, <1>2, OccursMove
    <2>3. Occurrences(c, driver) \in Nat /\ Occurrences(c, fill) \in Nat
        BY <1>1, PlacesFinite
    <2>4. Occurrences(c, driver') = Occurrences(c, driver)
          /\ Occurrences(c, fill') = Occurrences(c, fill)
        BY <1>0
    <2> QED BY <2>1, <2>2, <2>3, <2>4
<1>7. ChunksConserved'
    BY <1>6 DEF ChunksConserved, Chunks
<1>8. OutHeld'
    <2>1. recycle' = recycle \o out'
        BY <1>0
    <2>2. Within(out', recycle \o out')
        BY <1>1, <1>3, SecondPart
    <2> QED BY <2>1, <2>2 DEF OutHeld
<1>9. HeldOK' /\ FreshOK' /\ CountsOK' /\ CallOK'
    BY <1>0, <1>4 DEF XdpInv, HeldOK, FreshOK, CountsOK, CallOK, CtorPcs, CallPcs, Acquires
<1> QED BY <1>5, <1>7, <1>8, <1>9 DEF XdpInv

-----------------------------------------------------------------------------
(* Its preservation by the kernel and the driver.                          *)

\* The driver takes a chunk from the fill ring.
LEMMA StockStep == ASSUME XdpInv, Stock PROVE XdpInv'
<1> USE XdpAssumption
<1>0. /\ registered /\ fill # <<>> /\ driver' = Append(driver, Head(fill)) /\ fill' = Tail(fill)
      /\ UNCHANGED <<pc, held, registered, recycle, received, out, packets, rx, parked, mem, arrived>>
    BY DEF Stock
<1>1. /\ fill \in Seq(Chunks) /\ recycle \in Seq(Chunks) /\ driver \in Seq(Chunks)
      /\ rx \in Seq(Chunks)
    BY ChunkSeqs DEF XdpInv
<1>2. fill' \in Seq(Chunks) /\ driver' \in Seq(Chunks)
    BY <1>0, <1>1, HeadTailProperties, AppendProperties
<1>3. TypeOK'
    BY <1>0, <1>2 DEF XdpInv, TypeOK
<1>4. ASSUME NEW c \in Chunks,
             Occurrences(c, fill) + Occurrences(c, driver) + Occurrences(c, rx)
               + Occurrences(c, recycle) = 1
      PROVE  Occurrences(c, fill') + Occurrences(c, driver') + Occurrences(c, rx')
               + Occurrences(c, recycle') = 1
    <2>2. /\ Occurrences(c, fill') + Occurrences(c, driver')
               = Occurrences(c, fill) + Occurrences(c, driver)
          /\ Occurrences(c, fill) \in Nat /\ Occurrences(c, driver) \in Nat
          /\ Occurrences(c, fill') \in Nat /\ Occurrences(c, driver') \in Nat
        BY <1>0, <1>1, OccursMoveHead
    <2>3. Occurrences(c, rx) \in Nat /\ Occurrences(c, recycle) \in Nat
        BY <1>1, PlacesFinite
    <2>4. Occurrences(c, rx') = Occurrences(c, rx)
          /\ Occurrences(c, recycle') = Occurrences(c, recycle)
        BY <1>0
    <2> QED BY <1>4, <2>2, <2>3, <2>4
<1>5. ChunksConserved'
    BY <1>0, <1>4 DEF XdpInv, ChunksConserved, Chunks
<1>6. pc \notin CtorPcs
    BY <1>0 DEF XdpInv, FreshOK
<1>7. HeldOK' /\ FreshOK' /\ CountsOK' /\ CallOK' /\ OutHeld'
    BY <1>0, <1>6 DEF XdpInv, HeldOK, FreshOK, CountsOK, CallOK, OutHeld
<1> QED BY <1>3, <1>5, <1>7 DEF XdpInv

\* A frame that is put on the rx ring takes a chunk of the driver with it.
LEMMA AcceptStep ==
  ASSUME XdpInv, Receive, driver # <<>>, Len(rx) < kRingSize
  PROVE  XdpInv'
<1> USE XdpAssumption
<1>0. /\ registered /\ arrived < MaxFrames /\ arrived' = arrived + 1
      /\ mem' = [mem EXCEPT ![Head(driver)] = arrived + 1]
      /\ rx' = Append(rx, Head(driver)) /\ driver' = Tail(driver)
      /\ UNCHANGED <<pc, held, registered, recycle, received, out, packets, fill, parked>>
    BY DEF Receive
<1>1. /\ fill \in Seq(Chunks) /\ recycle \in Seq(Chunks) /\ driver \in Seq(Chunks)
      /\ rx \in Seq(Chunks) /\ Len(rx) \in Nat
    BY ChunkSeqs DEF XdpInv
<1>2. rx' \in Seq(Chunks) /\ driver' \in Seq(Chunks) /\ Len(rx') = Len(rx) + 1
      /\ Head(driver) \in Chunks
    BY <1>0, <1>1, HeadTailProperties, AppendProperties
<1>3. arrived' \in 0..MaxFrames /\ packets' + Len(rx') <= arrived'
    <2>1. packets \in Nat /\ arrived \in 0..MaxFrames /\ packets + Len(rx) <= arrived
        BY DEF XdpInv, TypeOK, CountsOK
    <2>2. packets' = packets
        BY <1>0
    <2> QED BY <1>0, <1>1, <1>2, <2>1, <2>2
<1>4. mem' \in [Chunks -> 0..MaxFrames]
    <2>1. mem \in [Chunks -> 0..MaxFrames]
        BY DEF XdpInv, TypeOK
    <2> QED BY <1>0, <1>2, <1>3, <2>1
<1>5. TypeOK'
    BY <1>0, <1>2, <1>3, <1>4 DEF XdpInv, TypeOK
<1>6. ASSUME NEW c \in Chunks,
             Occurrences(c, fill) + Occurrences(c, driver) + Occurrences(c, rx)
               + Occurrences(c, recycle) = 1
      PROVE  Occurrences(c, fill') + Occurrences(c, driver') + Occurrences(c, rx')
               + Occurrences(c, recycle') = 1
    <2>2. /\ Occurrences(c, driver') + Occurrences(c, rx')
               = Occurrences(c, driver) + Occurrences(c, rx)
          /\ Occurrences(c, driver) \in Nat /\ Occurrences(c, rx) \in Nat
          /\ Occurrences(c, driver') \in Nat /\ Occurrences(c, rx') \in Nat
        BY <1>0, <1>1, OccursMoveHead
    <2>3. Occurrences(c, fill) \in Nat /\ Occurrences(c, recycle) \in Nat
        BY <1>1, PlacesFinite
    <2>4. Occurrences(c, fill') = Occurrences(c, fill)
          /\ Occurrences(c, recycle') = Occurrences(c, recycle)
        BY <1>0
    <2> QED BY <1>6, <2>2, <2>3, <2>4
<1>7. ChunksConserved'
    BY <1>0, <1>6 DEF XdpInv, ChunksConserved, Chunks
<1>8. pc \notin CtorPcs
    BY DEF XdpInv, FreshOK
<1>9. CallOK'
    <2>1. UNCHANGED <<pc, out, received>>
        BY <1>0
    <2>2. pc \in CallPcs \cup {"destroyed"} => out' = <<>>
        BY <2>1 DEF XdpInv, CallOK
    <2>3. pc = "read" => received' <= Len(rx') /\ received' <= ArraySize
        BY <1>1, <1>2, <2>1 DEF XdpInv, TypeOK, CallOK
    <2> QED BY <2>1, <2>2, <2>3 DEF CallOK
<1>10. HeldOK' /\ FreshOK' /\ CountsOK' /\ OutHeld'
    BY <1>0, <1>3, <1>8 DEF XdpInv, HeldOK, FreshOK, CountsOK, OutHeld
<1> QED BY <1>5, <1>7, <1>9, <1>10 DEF XdpInv

\* Every step preserves the invariant.
LEMMA XdpStep == XdpInv /\ [Next]_vars => XdpInv'
<1> SUFFICES ASSUME XdpInv, [Next]_vars PROVE XdpInv'
    OBVIOUS
<1>1. CASE Receive
    <2>1. CASE driver # <<>> /\ Len(rx) < kRingSize
        BY <1>1, <2>1, AcceptStep
    <2>2. CASE ~(driver # <<>> /\ Len(rx) < kRingSize)
        <3>1. /\ arrived < MaxFrames /\ arrived' = arrived + 1
              /\ UNCHANGED <<pc, held, registered, recycle, received, out, packets, fill, parked,
                             mem, rx, driver>>
            BY <1>1, <2>2 DEF Receive
        <3>2. arrived' \in 0..MaxFrames /\ packets' + Len(rx') <= arrived'
            <4>1. packets \in Nat /\ Len(rx) \in Nat /\ arrived \in 0..MaxFrames
                  /\ packets + Len(rx) <= arrived /\ MaxFrames \in Nat
                BY ChunkSeqs, XdpAssumption DEF XdpInv, TypeOK, CountsOK
            <4>2. packets' = packets /\ Len(rx') = Len(rx)
                BY <3>1
            <4> QED BY <3>1, <4>1, <4>2
        <3> QED BY <3>1, <3>2 DEF XdpInv, TypeOK, HeldOK, FreshOK, CountsOK, CallOK, OutHeld,
                 ChunksConserved
    <2> QED BY <2>1, <2>2
<1>2. CASE Park \/ UNCHANGED vars
    <2>1. UNCHANGED <<pc, held, registered, recycle, received, out, packets, fill, driver, rx, mem,
                      arrived>> /\ parked' \in BOOLEAN
        BY <1>2 DEF Park, vars, kernelVars, XdpInv, TypeOK
    <2> QED BY <2>1 DEF XdpInv, TypeOK, HeldOK, FreshOK, CountsOK, CallOK, OutHeld, ChunksConserved
<1> QED BY <1>1, <1>2, ConstructStep, PopulateStep, DestroyStep, RecycleStep, PollStep, ReadStep,
         StockStep DEF Next, recvImpl

\* The backend starts in the invariant.
LEMMA XdpInit == Init => XdpInv
<1> SUFFICES ASSUME Init PROVE XdpInv
    OBVIOUS
<1>1. pc = "open" /\ Len(rx) = 0
    BY EmptySeq DEF Init
<1>2. TypeOK
    <2>1. <<>> \in Seq(Chunks)
        BY EmptySeq
    <2>2. mem \in [Chunks -> 0..MaxFrames]
        BY XdpAssumption DEF Init
    <2>3. pc \in CtorPcs
        BY <1>1 DEF CtorPcs, Acquires
    <2>4. \A s \in {fill, driver, rx, recycle, out} : s \in Seq(Chunks)
        BY <2>1 DEF Init
    <2>5. registered \in BOOLEAN /\ parked \in BOOLEAN /\ held = {}
        BY DEF Init
    <2>6. received \in 0..kRingSize /\ packets \in 0..MaxFrames /\ arrived \in 0..MaxFrames
        BY XdpAssumption DEF Init
    <2> QED BY <2>2, <2>3, <2>4, <2>5, <2>6 DEF TypeOK
<1>3. HeldOK
    BY <1>1 DEF Init, HeldOK, CallPcs, Cleanup
<1>4. FreshOK
    BY <1>1 DEF Init, FreshOK
<1>5. CountsOK
    BY <1>1 DEF Init, CountsOK
<1>6. CallOK /\ OutHeld /\ ChunksConserved
    BY <1>1 DEF Init, CallOK, OutHeld, Within, ChunksConserved, CallPcs
<1> QED BY <1>2, <1>3, <1>4, <1>5, <1>6 DEF XdpInv

-----------------------------------------------------------------------------
(* What holds in every state.                                              *)

\* The rings and recycle_addrs_ hold addresses of chunks only, and no more
\* frames are counted than arrived, however the driver interleaves with recv.
THEOREM XdpTypes == Spec => []TypeOK
<1>1. XdpInv => TypeOK
    BY DEF XdpInv
<1> QED BY <1>1, XdpInit, XdpStep, PTL DEF Spec

\* Every error path of the constructor gives back exactly what was acquired
\* before it, and the destructor the rest, if the fill ring has room for all
\* chunks: otherwise the last error path would leak.
THEOREM NothingLeft == Spec => []NothingLeaks
<1>1. XdpInv => NothingLeaks
    BY DEF XdpInv, HeldOK, NothingLeaks
<1> QED BY <1>1, XdpInit, XdpStep, PTL DEF Spec

\* While the backend works no chunk is lost or offered to the driver twice,
\* for any number of chunks and any interleaving of recv with the driver.
THEOREM ChunksKept == Spec => []ChunksConserved
<1>1. XdpInv => ChunksConserved
    BY DEF XdpInv
<1> QED BY <1>1, XdpInit, XdpStep, PTL DEF Spec

-----------------------------------------------------------------------------
(* The PacketIO contract.                                                  *)

\* The frames behind a sequence of addresses.
Behind(s, m) == [i \in DOMAIN s |-> m[s[i]]]

Waiting == Behind(rx, mem)
Lent == Behind(out, mem)
InCall == pc \in CallPcs

\* A function on 1..n is a sequence of length n.
LEMMA FunctionSeq ==
  ASSUME NEW n \in Nat, NEW S, NEW f \in [1..n -> S]
  PROVE  f \in Seq(S) /\ Len(f) = n /\ DOMAIN f = 1..n
<1>1. f \in Seq(S)
    BY SeqDef
<1> QED BY <1>1, LenProperties

\* The frames behind a sequence of addresses make a sequence.
LEMMA BehindSeq ==
  ASSUME NEW s \in Seq(Chunks), NEW m \in [Chunks -> 0..MaxFrames]
  PROVE  /\ Behind(s, m) \in Seq(0..MaxFrames) /\ Len(Behind(s, m)) = Len(s)
         /\ \A i \in 1..Len(s) : Behind(s, m)[i] = m[s[i]]
         /\ s = <<>> => Behind(s, m) = <<>>
<1>1. Len(s) \in Nat /\ DOMAIN s = 1..Len(s)
    BY LenProperties
<1>2. \A i \in 1..Len(s) : m[s[i]] \in 0..MaxFrames
    <2>1. \A i \in 1..Len(s) : s[i] \in Chunks
        BY ElementOfSeq
    <2> QED BY <2>1
<1>3. Behind(s, m) \in [1..Len(s) -> 0..MaxFrames]
    BY <1>1, <1>2 DEF Behind
<1>4. Behind(s, m) \in Seq(0..MaxFrames) /\ Len(Behind(s, m)) = Len(s)
    BY <1>1, <1>3, FunctionSeq
<1>5. s = <<>> => Behind(s, m) = <<>>
    BY <1>4, EmptySeq
<1> QED BY <1>1, <1>4, <1>5 DEF Behind

\* A part of the addresses has that part of the frames behind it.
LEMMA BehindSubSeq ==
  ASSUME NEW s \in Seq(Chunks), NEW m \in [Chunks -> 0..MaxFrames],
         NEW a \in Nat \ {0}, NEW b \in 0..Len(s)
  PROVE  Behind(SubSeq(s, a, b), m) = SubSeq(Behind(s, m), a, b)
<1> DEFINE w == Behind(s, m)
           n == IF a <= b THEN b - a + 1 ELSE 0
           p == SubSeq(s, a, b)
           q == SubSeq(w, a, b)
<1>0. /\ Len(s) \in Nat /\ b \in Nat /\ b <= Len(s) /\ a \in Int /\ b \in Int /\ n \in Nat
      /\ \A i \in a..b : i \in 1..Len(s)
    BY LenProperties
<1>1. w \in Seq(0..MaxFrames) /\ Len(w) = Len(s) /\ \A i \in 1..Len(s) : w[i] = m[s[i]]
    BY BehindSeq
<1> HIDE DEF w
<1>2. /\ p \in Seq(Chunks) /\ Len(p) = n /\ \A i \in 1..(b - a + 1) : p[i] = s[a + i - 1]
    <2>1. \A i \in a..b : s[i] \in Chunks
        BY <1>0, ElementOfSeq
    <2> QED BY <1>0, <2>1, SubSeqProperties
<1>3. /\ q \in Seq(0..MaxFrames) /\ Len(q) = n /\ \A i \in 1..(b - a + 1) : q[i] = w[a + i - 1]
    <2>1. \A i \in a..b : w[i] \in 0..MaxFrames
        BY <1>0, <1>1, ElementOfSeq
    <2> QED BY <1>0, <2>1, SubSeqProperties
<1> HIDE DEF p, q
<1>4. /\ Behind(p, m) \in Seq(0..MaxFrames) /\ Len(Behind(p, m)) = n
      /\ \A i \in 1..n : Behind(p, m)[i] = m[p[i]]
    <2>1. /\ Behind(p, m) \in Seq(0..MaxFrames) /\ Len(Behind(p, m)) = Len(p)
          /\ \A i \in 1..Len(p) : Behind(p, m)[i] = m[p[i]]
        BY <1>2, BehindSeq
    <2> HIDE DEF n
    <2> QED BY <1>2, <2>1
<1>5. ASSUME NEW i \in 1..n PROVE Behind(p, m)[i] = q[i]
    <2>1. i \in 1..(b - a + 1) /\ a + i - 1 \in 1..Len(s)
        BY <1>0
    <2>2. p[i] = s[a + i - 1] /\ q[i] = w[a + i - 1]
        BY <1>2, <1>3, <2>1
    <2>3. w[a + i - 1] = m[s[a + i - 1]]
        BY <1>1, <2>1
    <2> QED BY <1>4, <2>2, <2>3
<1> HIDE DEF n
<1>6. Behind(p, m) = q
    BY <1>3, <1>4, <1>5, SeqEqual
<1> QED BY <1>6 DEF p, q, w

\* The frames on the rx ring and those the caller sees are sequences, before
\* and after a step.
LEMMA FrameSeqs ==
  ASSUME TypeOK, TypeOK'
  PROVE  /\ Waiting \in Seq(0..MaxFrames) /\ Len(Waiting) = Len(rx)
         /\ Waiting' \in Seq(0..MaxFrames) /\ Len(Waiting') = Len(rx')
         /\ Lent \in Seq(0..MaxFrames) /\ Len(Lent) = Len(out)
         /\ Lent' \in Seq(0..MaxFrames) /\ Len(Lent') = Len(out')
         /\ rx = <<>> => Waiting = <<>>
         /\ rx' = <<>> => Waiting' = <<>>
         /\ out = <<>> => Lent = <<>>
         /\ out' = <<>> => Lent' = <<>>
<1>1. /\ out \in Seq(Chunks) /\ rx \in Seq(Chunks) /\ mem \in [Chunks -> 0..MaxFrames]
      /\ out' \in Seq(Chunks) /\ rx' \in Seq(Chunks) /\ mem' \in [Chunks -> 0..MaxFrames]
    BY DEF TypeOK
<1> QED BY <1>1, BehindSeq DEF Waiting, Lent

\* The chunk the driver writes to is neither on the rx ring nor behind one of
\* the caller's Frames.
LEMMA WritesApart ==
  ASSUME XdpInv, driver # <<>>, pc \in CallPcs \cup {"idle"}
  PROVE  /\ \A i \in DOMAIN rx : rx[i] # Head(driver)
         /\ \A i \in DOMAIN out : out[i] # Head(driver)
<1>1. /\ fill \in Seq(Chunks) /\ recycle \in Seq(Chunks) /\ driver \in Seq(Chunks)
      /\ rx \in Seq(Chunks)
    BY ChunkSeqs DEF XdpInv
<1> PICK h \in Chunks : h = Head(driver)
    BY <1>1, HeadTailProperties
<1>2. 1 \in DOMAIN driver /\ driver[1] = h
    <2>1. Len(driver) \in Nat \ {0} /\ DOMAIN driver = 1..Len(driver)
        BY <1>1, EmptySeq, LenProperties
    <2> QED BY <2>1
<1>3. Occurrences(h, driver) \in Nat \ {0}
    BY <1>1, <1>2, OccursAt
<1>4. /\ Occurrences(h, fill) + Occurrences(h, driver) + Occurrences(h, rx)
           + Occurrences(h, recycle) = 1
    BY DEF XdpInv, ChunksConserved
<1>5. Occurrences(h, fill) \in Nat /\ Occurrences(h, rx) \in Nat /\ Occurrences(h, recycle) \in Nat
    BY <1>1, PlacesFinite
<1>6. Occurrences(h, rx) = 0 /\ Occurrences(h, recycle) = 0
    BY <1>3, <1>4, <1>5
<1>7. \A i \in DOMAIN rx : rx[i] # h
    BY <1>1, <1>6, OccursAt
<1>8. \A i \in DOMAIN recycle : recycle[i] # h
    BY <1>1, <1>6, OccursAt
<1>9. \A i \in DOMAIN out : out[i] # h
    BY <1>8 DEF XdpInv, OutHeld, Within
<1> QED BY <1>7, <1>9

\* A write elsewhere does not change the frames behind a sequence.
LEMMA BehindUnchanged ==
  ASSUME NEW s \in Seq(Chunks), NEW m, NEW n, NEW h,
         \A c \in Chunks : c # h => n[c] = m[c],
         \A i \in DOMAIN s : s[i] # h
  PROVE  Behind(s, n) = Behind(s, m)
<1>1. \A i \in DOMAIN s : s[i] \in Chunks
    <2>1. DOMAIN s = 1..Len(s)
        BY LenProperties
    <2> QED BY <2>1, ElementOfSeq
<1>2. \A i \in DOMAIN s : n[s[i]] = m[s[i]]
    BY <1>1
<1> QED BY <1>2 DEF Behind

\* An accepted frame joins those that wait, and changes none of the others.
LEMMA ArriveStep ==
  ASSUME XdpInv, XdpInv', Receive
  PROVE  Waiting' \in {Waiting, Append(Waiting, arrived + 1)} /\ Lent' = Lent
<1>1. CASE ~(driver # <<>> /\ Len(rx) < kRingSize)
    BY <1>1 DEF Receive, Waiting, Lent
<1>2. CASE driver # <<>> /\ Len(rx) < kRingSize
    <2>0. /\ mem' = [mem EXCEPT ![Head(driver)] = arrived + 1]
          /\ rx' = Append(rx, Head(driver)) /\ out' = out
        BY <1>2 DEF Receive
    <2>1. /\ driver \in Seq(Chunks) /\ rx \in Seq(Chunks) /\ out \in Seq(Chunks) /\ Len(rx) \in Nat
          /\ mem \in [Chunks -> 0..MaxFrames] /\ mem' \in [Chunks -> 0..MaxFrames]
          /\ rx' \in Seq(Chunks) /\ arrived' \in 0..MaxFrames /\ arrived' = arrived + 1
        BY ChunkSeqs DEF XdpInv, TypeOK, Receive
    <2> PICK h \in Chunks : h = Head(driver)
        BY <1>2, <2>1, HeadTailProperties
    <2> PICK v \in 0..MaxFrames : v = arrived + 1
        BY <2>1
    <2>2. pc \in CallPcs \cup {"idle"}
        BY <1>2 DEF XdpInv, FreshOK, Receive, CtorPcs
    <2>3. (\A i \in DOMAIN rx : rx[i] # h) /\ (\A i \in DOMAIN out : out[i] # h)
        BY <1>2, <2>2, WritesApart
    <2> DEFINE m == [mem EXCEPT ![h] = v]
    <2>4. mem' = m /\ rx' = Append(rx, h) /\ m[h] = v
        BY <2>0, <2>1
    <2>5. Behind(rx, m) = Waiting /\ Behind(out, m) = Lent
        <3>1. \A c \in Chunks : c # h => m[c] = mem[c]
            BY <2>1
        <3> HIDE DEF m
        <3>2. Behind(rx, m) = Behind(rx, mem)
            BY <2>1, <2>3, <3>1, BehindUnchanged
        <3>3. Behind(out, m) = Behind(out, mem)
            BY <2>1, <2>3, <3>1, BehindUnchanged
        <3> QED BY <3>2, <3>3 DEF Waiting, Lent
    <2>6. m \in [Chunks -> 0..MaxFrames]
        BY <2>1, <2>4
    <2> HIDE DEF m
    <2>7. Behind(Append(rx, h), m) = Append(Behind(rx, m), v)
        <3> DEFINE n == Len(rx)
                   s == Append(rx, h)
                   w == Behind(rx, m)
                   t == Append(w, v)
        <3>1. /\ w \in Seq(0..MaxFrames) /\ Len(w) = n /\ \A i \in 1..n : w[i] = m[rx[i]]
            BY <2>1, <2>6, BehindSeq
        <3>2. /\ s \in Seq(Chunks) /\ Len(s) = n + 1 /\ s[n + 1] = h
              /\ \A i \in 1..n : s[i] = rx[i]
            BY <2>1, AppendProperties
        <3> HIDE DEF w
        <3>3. /\ t \in Seq(0..MaxFrames) /\ Len(t) = n + 1 /\ t[n + 1] = v
              /\ \A i \in 1..n : t[i] = w[i]
            BY <3>1, AppendProperties
        <3> HIDE DEF s, t
        <3>4. /\ Behind(s, m) \in Seq(0..MaxFrames) /\ Len(Behind(s, m)) = n + 1
              /\ \A i \in 1..(n + 1) : Behind(s, m)[i] = m[s[i]]
            BY <2>6, <3>2, BehindSeq
        <3>5. ASSUME NEW i \in 1..(n + 1) PROVE Behind(s, m)[i] = t[i]
            <4>1. CASE i = n + 1
                BY <2>4, <3>2, <3>3, <3>4, <4>1
            <4>2. CASE i # n + 1
                <5>1. i \in 1..n
                    BY <2>1, <4>2
                <5> QED BY <3>1, <3>2, <3>3, <3>4, <5>1
            <4> QED BY <4>1, <4>2
        <3>6. Behind(s, m) = t
            BY <3>3, <3>4, <3>5, SeqEqual
        <3> QED BY <3>6 DEF s, t, w
    <2>8. Waiting' = Append(Waiting, arrived + 1)
        BY <2>4, <2>5, <2>7 DEF Waiting
    <2>9. Lent' = Lent
        BY <2>0, <2>4, <2>5 DEF Lent
    <2> QED BY <2>8, <2>9
<1> QED BY <1>1, <1>2

\* Read delivers the head of the rx ring.
LEMMA ReadDelivers ==
  ASSUME XdpInv, XdpInv', Read
  PROVE  \E k \in 0..Len(Waiting) :
           /\ InCall /\ Len(Lent) + k <= ArraySize
           /\ Lent' = Lent \o SubSeq(Waiting, 1, k)
           /\ Waiting' = SubSeq(Waiting, k + 1, Len(Waiting))
           /\ packets' = packets + k /\ arrived' = arrived
<1>0. /\ pc = "read" /\ packets' = packets + received /\ mem' = mem /\ arrived' = arrived
      /\ out' = SubSeq(rx, 1, received) /\ rx' = SubSeq(rx, received + 1, Len(rx))
    BY DEF Read, Descriptors
<1>1. /\ rx \in Seq(Chunks) /\ Len(rx) \in Nat /\ out = <<>> /\ mem \in [Chunks -> 0..MaxFrames]
      /\ received \in 0..Len(rx) /\ received <= ArraySize /\ received \in Nat
    BY <1>0, ChunkSeqs DEF XdpInv, TypeOK, CallOK, CallPcs
<1>2. /\ Lent = <<>> /\ Len(Lent) = 0 /\ Waiting \in Seq(0..MaxFrames) /\ Len(Waiting) = Len(rx)
      /\ Lent' \in Seq(0..MaxFrames)
    BY <1>1, FrameSeqs, EmptySeq DEF XdpInv
<1>3. Lent' = SubSeq(Waiting, 1, received)
    <2>1. Behind(SubSeq(rx, 1, received), mem) = SubSeq(Behind(rx, mem), 1, received)
        BY <1>1, BehindSubSeq
    <2> QED BY <1>0, <2>1 DEF Lent, Waiting
<1>4. Waiting' = SubSeq(Waiting, received + 1, Len(Waiting))
    <2>1. received + 1 \in Nat \ {0} /\ Len(rx) \in 0..Len(rx)
        BY <1>1
    <2>2. Behind(SubSeq(rx, received + 1, Len(rx)), mem)
            = SubSeq(Behind(rx, mem), received + 1, Len(rx))
        BY <1>1, <2>1, BehindSubSeq
    <2> QED BY <1>0, <1>2, <2>2 DEF Waiting
<1>5. Lent' = Lent \o SubSeq(Waiting, 1, received)
    BY <1>2, <1>3, ConcatEmptySeq
<1>6. InCall /\ Len(Lent) + received <= ArraySize /\ received \in 0..Len(Waiting)
    BY <1>0, <1>1, <1>2 DEF InCall, CallPcs
<1> QED BY <1>0, <1>4, <1>5, <1>6

\* A call that finds nothing hands out nothing.
LEMMA EmptyDelivery ==
  ASSUME NEW S, NEW s \in Seq(S), NEW T, NEW t \in Seq(T)
  PROVE  s \o SubSeq(t, 1, 0) = s /\ SubSeq(t, 0 + 1, Len(t)) = t
<1>1. SubSeq(t, 1, 0) = <<>>
    BY SubSeqEmpty
<1> QED BY <1>1, ConcatEmptySeq, SubSeqFull

\* Every step is a step of the contract, or changes nothing of it.
LEMMA XdpRefines ==
  ASSUME XdpInv, XdpInv', [Next]_vars
  PROVE  [IO!IONext]_(IO!iovars)
<1> USE DEF IO!iovars
<1>1. CASE UNCHANGED <<rx, mem, out, arrived, packets>> /\ InCall' = InCall
    BY <1>1 DEF InCall
<1>2. CASE Destroy
    <2>1. ~InCall /\ ~InCall' /\ Waiting' = <<>> /\ Lent' = <<>> /\ UNCHANGED <<arrived, packets>>
        BY <1>2, FrameSeqs DEF Destroy, InCall, CallPcs, XdpInv
    <2> QED BY <2>1 DEF IO!IONext, IO!Close, InCall, Lent, Waiting, Behind
<1>3. CASE Recycle
    <2>1. ~InCall /\ InCall' /\ Lent' = <<>> /\ Waiting' = Waiting /\ UNCHANGED <<arrived, packets>>
        BY <1>3, FrameSeqs DEF Recycle, InCall, CallPcs, XdpInv, Waiting
    <2> QED BY <2>1 DEF IO!IONext, IO!Call, InCall, Lent, Waiting, Behind
<1>4. CASE PollReturns
    <2>1. InCall /\ Lent' = Lent /\ Waiting' = Waiting /\ UNCHANGED <<arrived, packets>>
          /\ out = <<>>
        BY <1>4 DEF PollReturns, kernelVars, InCall, CallPcs, Lent, Waiting, XdpInv, CallOK
    <2>2. Lent \in Seq(0..MaxFrames) /\ Len(Lent) = 0 /\ Waiting \in Seq(0..MaxFrames)
          /\ Len(Waiting) \in Nat
        BY <2>1, FrameSeqs, EmptySeq, LenProperties DEF XdpInv
    <2>3. /\ InCall /\ Len(Lent) + 0 <= ArraySize
          /\ Lent' = Lent \o SubSeq(Waiting, 1, 0)
          /\ Waiting' = SubSeq(Waiting, 0 + 1, Len(Waiting))
          /\ packets' = packets + 0 /\ arrived' = arrived /\ InCall' \in BOOLEAN
          /\ 0 \in 0..Len(Waiting)
        BY <2>1, <2>2, EmptyDelivery, XdpAssumption DEF XdpInv, TypeOK, InCall
    <2>4. IO!Deliver(0)
        BY <2>3 DEF IO!Deliver, InCall, Lent, Waiting, Behind
    <2> QED BY <2>3, <2>4 DEF IO!IONext, Waiting, Behind
<1>5. CASE Read
    <2> PICK k \in 0..Len(Waiting) :
          /\ InCall /\ Len(Lent) + k <= ArraySize
          /\ Lent' = Lent \o SubSeq(Waiting, 1, k)
          /\ Waiting' = SubSeq(Waiting, k + 1, Len(Waiting))
          /\ packets' = packets + k /\ arrived' = arrived
        BY <1>5, ReadDelivers
    <2>1. InCall' \in BOOLEAN
        BY DEF InCall
    <2>2. IO!Deliver(k)
        BY <2>1 DEF IO!Deliver, InCall, Lent, Waiting, Behind
    <2> QED BY <2>2 DEF IO!IONext, Waiting, Behind
<1>6. CASE Receive
    <2>1. arrived < MaxFrames /\ arrived' = arrived + 1 /\ UNCHANGED <<pc, packets>>
        BY <1>6 DEF Receive
    <2>2. Waiting' \in {Waiting, Append(Waiting, arrived + 1)} /\ Lent' = Lent
        BY <1>6, ArriveStep
    <2> QED BY <2>1, <2>2 DEF IO!IONext, IO!Arrive, Lent, Waiting, Behind
<1>7. CASE Construct \/ Populate
    <2>1. UNCHANGED <<rx, mem, out, arrived, packets>>
        BY <1>7 DEF Construct, Populate, kernelVars
    <2>2. pc \in {"open", "load", "attach", "alloc", "umem", "socket", "xskmap", "populate"}
        BY <1>7 DEF Construct, Populate, Acquires
    <2>3. pc' \in {"load", "attach", "alloc", "umem", "socket", "xskmap", "populate", "thrown", "idle"}
        BY <1>7, <2>2 DEF Construct, Populate, Acquires, After
    <2>4. InCall' = InCall
        BY <2>2, <2>3 DEF InCall, CallPcs
    <2> QED BY <1>1, <2>1, <2>4
<1>8. CASE Peek \/ Poll \/ Stock \/ Park \/ UNCHANGED vars
    <2>1. UNCHANGED <<rx, mem, out, arrived, packets>>
        BY <1>8 DEF Peek, Poll, Stock, Park, vars, kernelVars
    <2>2. InCall' = InCall
        BY <1>8 DEF Peek, Poll, Stock, Park, vars, InCall, CallPcs
    <2> QED BY <1>1, <2>1, <2>2
<1> QED BY <1>2, <1>3, <1>4, <1>5, <1>6, <1>7, <1>8 DEF Next, recvImpl

\* recv keeps the PacketIO contract for any number of chunks, any rings that
\* have room for them and any array: the frames come in order, once, and the
\* driver does not write over them until the next call.
THEOREM XdpImplements == Spec => Implements
<1>1. Init => IO!IOInit
    <2> SUFFICES ASSUME Init PROVE IO!IOInit
        OBVIOUS
    <2>1. /\ out \in Seq(Chunks) /\ mem \in [Chunks -> 0..MaxFrames] /\ out = <<>>
          /\ rx \in Seq(Chunks) /\ rx = <<>>
        BY XdpInit DEF XdpInv, TypeOK, Init
    <2>2. Behind(out, mem) = <<>> /\ Behind(rx, mem) = <<>>
        BY <2>1, BehindSeq
    <2> QED BY <2>2 DEF Init, IO!IOInit, CallPcs, Behind
<1>2. XdpInv /\ XdpInv' /\ [Next]_vars => [IO!IONext]_(IO!iovars)
    BY XdpRefines
<1> QED BY <1>1, <1>2, XdpInit, XdpStep, PTL DEF Spec, Implements, IO!IOSpec
=============================================================================
