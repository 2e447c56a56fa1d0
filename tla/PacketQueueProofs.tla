------------------------- MODULE PacketQueueProofs --------------------------
(***************************************************************************)
(* Proofs about the packet queue, for every length of the ring and every   *)
(* number of packets: its invariants, and that it implements the queue     *)
(* that drops its oldest packet.                                           *)
(***************************************************************************)
EXTENDS PacketQueue, SequenceTheorems, TLAPS

-----------------------------------------------------------------------------
(* Index arithmetic.                                                       *)

LEMMA ModulusNat == Modulus \in Nat \ {0}
  BY DEF Modulus

LEMMA QueueLengthNat == QueueLength \in Nat \ {0} /\ QueueLength < Modulus
  BY ModulusNat, QueueLengthAssumption DEF U16

\* The place k slots after t, for k up to twice the length of the ring.
LEMMA AtCases ==
    ASSUME NEW t \in Index, NEW k \in 0 .. 2 * QueueLength
    PROVE  /\ At(t, k) \in Index
           /\ t + k < QueueLength => At(t, k) = t + k
           /\ t + k >= QueueLength /\ t + k < 2 * QueueLength => At(t, k) = t + k - QueueLength
           /\ t + k >= 2 * QueueLength => At(t, k) = t + k - 2 * QueueLength
<1> USE QueueLengthNat
<1>1. CASE t + k < QueueLength
  BY <1>1 DEF At, Index
<1>2. CASE t + k >= QueueLength /\ t + k < 2 * QueueLength
  BY <1>2 DEF At, Index
<1>3. CASE t + k >= 2 * QueueLength
  BY <1>3 DEF At, Index
<1>4. QED
  BY <1>1, <1>2, <1>3 DEF Index

LEMMA AtIsIndex ==
    ASSUME NEW t \in Index, NEW k \in Index
    PROVE  At(t, k) \in Index
  BY QueueLengthNat, AtCases DEF Index

\* The slot after i.
LEMMA SuccCases ==
    ASSUME NEW i \in Index
    PROVE  /\ Succ(i) \in Index
           /\ i + 1 < QueueLength => Succ(i) = i + 1
           /\ i + 1 = QueueLength => Succ(i) = 0
<1> USE QueueLengthNat
<1>1. CASE i + 1 < QueueLength
  BY <1>1 DEF Succ, Index
<1>2. CASE i + 1 = QueueLength
  BY <1>2 DEF Succ, Index
<1>3. QED
  BY <1>1, <1>2 DEF Index

\* The same facts in the form in which they are used.
LEMMA AtWithinLap ==
    ASSUME NEW t \in Index, NEW k \in 0 .. QueueLength
    PROVE  At(t, k) = IF t + k < QueueLength THEN t + k ELSE t + k - QueueLength
<1>1. k \in 0 .. 2 * QueueLength
  BY QueueLengthNat
<1>2. QED
  BY <1>1, AtCases, QueueLengthNat DEF Index

LEMMA SuccIs ==
    ASSUME NEW i \in Index
    PROVE  Succ(i) = IF i + 1 < QueueLength THEN i + 1 ELSE 0
  BY SuccCases, QueueLengthNat DEF Index

\* Moving head or tail on by one shifts the places counted from tail by one.
LEMMA SuccOfAt ==
    ASSUME NEW t \in Index, NEW k \in 0 .. QueueLength
    PROVE  Succ(At(t, k)) = At(t, k + 1)
<1>1. k + 1 \in 0 .. 2 * QueueLength /\ k \in 0 .. 2 * QueueLength
  BY QueueLengthNat
<1>2. At(t, k) \in Index /\ At(t, k + 1) \in Index
  BY <1>1, AtCases
<1>3. Succ(At(t, k)) = IF At(t, k) + 1 < QueueLength THEN At(t, k) + 1 ELSE 0
  BY <1>2, SuccIs
<1>4. At(t, k + 1) = IF t + k + 1 < QueueLength THEN t + k + 1
                     ELSE IF t + k + 1 < 2 * QueueLength THEN t + k + 1 - QueueLength
                     ELSE t + k + 1 - 2 * QueueLength
  BY <1>1, AtCases, QueueLengthNat DEF Index
<1>5. QED
  BY <1>3, <1>4, AtWithinLap, QueueLengthNat DEF Index

LEMMA AtOfSucc ==
    ASSUME NEW t \in Index, NEW k \in 0 .. QueueLength
    PROVE  At(Succ(t), k) = At(t, k + 1)
<1>1. k + 1 \in 0 .. 2 * QueueLength /\ Succ(t) \in Index
  BY QueueLengthNat, SuccCases
<1>2. At(Succ(t), k) = IF Succ(t) + k < QueueLength THEN Succ(t) + k
                       ELSE Succ(t) + k - QueueLength
  BY <1>1, AtWithinLap
<1>3. At(t, k + 1) = IF t + k + 1 < QueueLength THEN t + k + 1
                     ELSE IF t + k + 1 < 2 * QueueLength THEN t + k + 1 - QueueLength
                     ELSE t + k + 1 - 2 * QueueLength
  BY <1>1, AtCases, QueueLengthNat DEF Index
<1>4. QED
  BY <1>2, <1>3, SuccIs, QueueLengthNat DEF Index

\* A lap leads back to t, and no two places of a lap are the same slot.
LEMMA AtLap ==
    ASSUME NEW t \in Index
    PROVE  At(t, 0) = t /\ At(t, QueueLength) = t
<1>1. 0 \in 0 .. 2 * QueueLength /\ QueueLength \in 0 .. 2 * QueueLength
  BY QueueLengthNat
<1>2. QED
  BY <1>1, AtCases, QueueLengthNat DEF Index

LEMMA AtDistinct ==
    ASSUME NEW t \in Index, NEW j \in Index, NEW k \in Index, j # k
    PROVE  At(t, j) # At(t, k)
<1>1. j \in 0 .. QueueLength /\ k \in 0 .. QueueLength
  BY QueueLengthNat DEF Index
<1>2. /\ At(t, j) = IF t + j < QueueLength THEN t + j ELSE t + j - QueueLength
      /\ At(t, k) = IF t + k < QueueLength THEN t + k ELSE t + k - QueueLength
  BY <1>1, AtWithinLap
<1>3. QED
  BY <1>2, QueueLengthNat DEF Index

\* fetch_add and fetch_sub do not wrap in the middle of the range.
LEMMA NoWrap ==
    ASSUME NEW c \in U16
    PROVE  /\ (c + 1) % Modulus \in U16 /\ (c + Modulus - 1) % Modulus \in U16
           /\ c < Modulus - 1 => (c + 1) % Modulus = c + 1
           /\ c > 0 => (c + Modulus - 1) % Modulus = c - 1
<1>1. Modulus \in Nat \ {0}
  BY ModulusNat
<1>2. CASE c < Modulus - 1 /\ c > 0
  BY <1>1, <1>2 DEF U16
<1>3. CASE c = Modulus - 1 /\ c > 0
  BY <1>1, <1>3 DEF U16
<1>4. CASE c = 0
  BY <1>1, <1>4 DEF U16
<1>5. QED
  BY <1>1, <1>2, <1>3, <1>4 DEF U16

-----------------------------------------------------------------------------
(* Types and the range of count.                                           *)

\* The type invariant and the half of the invariant that needs no discipline.
BasicInv == TypeOK /\ CountInv

LEMMA PacketIsSlot == ASSUME NEW n \in 0 .. MaxPackets PROVE Packet(n) \in Slot
  BY DEF Packet, Slot

LEMMA BasicInvInit == Init => BasicInv
<1> SUFFICES ASSUME Init PROVE BasicInv
  OBVIOUS
<1>1. 0 \in Index /\ 0 \in U16 /\ 0 \in 0 .. MaxPackets
  BY QueueLengthNat, ModulusNat, MaxPacketsAssumption DEF Index, U16
<1>2. Packet(0) \in Slot
  BY <1>1, PacketIsSlot
<1>3. RingTypeOK
  BY <1>1, <1>2 DEF Init, RingInit, RingTypeOK
<1>4. popped \in Seq(Slot)
  BY DEF Init
<1>4a. full \in BOOLEAN /\ clash \in BOOLEAN
  BY Zenon DEF Init
<1>5. apc \in AppPc /\ rpc \in RecvPc /\ aop \in Ops
  BY DEF Init, RecvPc, AppPc, Ops
<1>6. last \in Slot /\ out \in Slot /\ sent \in 0 .. MaxPackets /\ taken \in Nat /\ lost \in Nat
  BY <1>1, <1>2 DEF Init
<1>7. TypeOK
  BY <1>1, <1>3, <1>4, <1>4a, <1>5, <1>6 DEF Init, TypeOK
<1>8. CountInv
  BY QueueLengthNat DEF Init, RingInit, CountInv, PopPc
<1>9. QED
  BY <1>7, <1>8 DEF BasicInv

LEMMA BasicInvStep == BasicInv /\ [Next]_vars => BasicInv'
<1> SUFFICES ASSUME BasicInv, [Next]_vars PROVE BasicInv'
  OBVIOUS
<1> USE DEF BasicInv, TypeOK, RingTypeOK, CountInv, ring, recvVars, appVars, history
<1>1. CASE PushLoadHead
  BY <1>1 DEF PushLoadHead, RecvPc, PopPc
<1>2. CASE PushWriteLo
  <2>1. sent < MaxPackets /\ sent + 1 \in 0 .. MaxPackets
    BY <1>2, MaxPacketsAssumption DEF PushWriteLo
  <2>2. slots' \in [Index -> Slot]
    BY <1>2, <2>1 DEF PushWriteLo, WriteSlotLo, Slot
  <2>3. full' \in BOOLEAN /\ clash' \in BOOLEAN
    BY <1>2 DEF PushWriteLo
  <2>4. QED
    BY <1>2, <2>1, <2>2, <2>3 DEF PushWriteLo, WriteSlotLo, RecvPc
<1>3. CASE PushWriteHi
  <2>1. sent < MaxPackets /\ sent + 1 \in 0 .. MaxPackets
    BY <1>3, MaxPacketsAssumption DEF PushWriteHi
  <2>2. slots' \in [Index -> Slot]
    BY <1>3, <2>1 DEF PushWriteHi, WriteSlotHi, Slot
  <2>3. full' \in BOOLEAN /\ clash' \in BOOLEAN
    BY <1>3 DEF PushWriteHi
  <2>4. QED
    BY <1>3, <2>1, <2>2, <2>3 DEF PushWriteHi, WriteSlotHi, RecvPc
<1>4. CASE PushStoreHead
  <2>1. sent < MaxPackets /\ sent + 1 \in 0 .. MaxPackets
    BY <1>4, MaxPacketsAssumption DEF PushStoreHead
  <2>2. head' \in Index
    BY <1>4, SuccCases DEF PushStoreHead, StoreHead
  <2>3. QED
    BY <1>4, <2>1, <2>2 DEF PushStoreHead, StoreHead, RecvPc
<1>5. CASE PushLoadCount
  BY <1>5 DEF PushLoadCount, RecvPc, PopPc
<1>6. CASE PushAdd
  <2>1. count \in Nat /\ count < QueueLength /\ rpc = "add"
    BY <1>6 DEF PushAdd, U16
  <2>2. count' = count + 1 /\ count' \in U16
    BY <1>6, <2>1, NoWrap, ModulusNat, QueueLengthNat DEF PushAdd, IncCount
  <2>3. QED
    BY <1>6, <2>1, <2>2, QueueLengthNat DEF PushAdd, IncCount, RecvPc
<1>7. CASE PushLoadTail
  BY <1>7 DEF PushLoadTail, RecvPc, PopPc
<1>8. CASE PushStoreTail
  BY <1>8, SuccCases DEF PushStoreTail, StoreTail, RecvPc, PopPc
<1>9. CASE LastWriteLo
  BY <1>9 DEF LastWriteLo, Slot, RecvPc, PopPc
<1>10. CASE LastWriteHi
  BY <1>10 DEF LastWriteHi, Slot, RecvPc, PopPc
<1>11. CASE CallPop
  BY <1>11 DEF CallPop, Call, AppPc, PopPc, PeekPc, Ops
<1>12. CASE PopLoadCount
  BY <1>12 DEF PopLoadCount, AppPc, PopPc, PeekPc, Ops
<1>13. CASE PopLoadTail
  BY <1>13 DEF PopLoadTail, Goto, AppPc, PopPc, PeekPc, Ops
<1>14. CASE PopCopyLo
  BY <1>14 DEF PopCopyLo, Goto, Slot, AppPc, PopPc, PeekPc, Ops
<1>15. CASE PopCopyHi
  BY <1>15 DEF PopCopyHi, Goto, Slot, AppPc, PopPc, PeekPc, Ops
<1>16. CASE PopStoreTail
  BY <1>16, SuccCases DEF PopStoreTail, Goto, StoreTail, AppPc, PopPc, PeekPc, Ops
<1>17. CASE PopSub
  <2>1. count \in Nat /\ count > 0 /\ apc = "popSub"
    BY <1>17 DEF PopSub, Goto, U16, PopPc
  <2>2. count' = count - 1 /\ count' \in U16
    BY <1>17, <2>1, NoWrap, ModulusNat DEF PopSub, DecCount
  <2>3. QED
    BY <1>17, <2>1, <2>2, QueueLengthNat DEF PopSub, Goto, DecCount, AppPc, PopPc
<1>18. ASSUME NEW pos \in Index, CallGetFromQueue(pos) PROVE BasicInv'
  BY <1>18 DEF CallGetFromQueue, Call, AppPc, PopPc, PeekPc, Ops
<1>19. ASSUME NEW pos \in Index, CallGetAtIndex(pos) PROVE BasicInv'
  BY <1>19 DEF CallGetAtIndex, Call, AppPc, PopPc, PeekPc, Ops
<1>20. CASE PeekLoadCount
  BY <1>20 DEF PeekLoadCount, AppPc, PopPc, PeekPc, Ops
<1>21. CASE PeekLoadTail
  BY <1>21 DEF PeekLoadTail, Goto, AppPc, PopPc, PeekPc, Ops
<1>22. CASE PeekCopyLo
  BY <1>22, AtIsIndex DEF PeekCopyLo, Goto, Slot, AppPc, PopPc, PeekPc, Ops
<1>23. CASE PeekCopyHi
  BY <1>23, AtIsIndex DEF PeekCopyHi, Goto, Slot, AppPc, PopPc, PeekPc, Ops
<1>24. CASE CallGetLatest
  BY <1>24 DEF CallGetLatest, Goto, AppPc, PopPc, PeekPc, Ops
<1>25. CASE LatestCopyLo
  BY <1>25 DEF LatestCopyLo, Goto, Slot, AppPc, PopPc, PeekPc, Ops
<1>26. CASE LatestCopyHi
  BY <1>26 DEF LatestCopyHi, Goto, Slot, AppPc, PopPc, PeekPc, Ops
<1>27. CASE UNCHANGED vars
  BY <1>27 DEF vars
<1>28. QED
  BY <1>1, <1>2, <1>3, <1>4, <1>5, <1>6, <1>7, <1>8, <1>9, <1>10, <1>11, <1>12, <1>13,
     <1>14, <1>15, <1>16, <1>17, <1>18, <1>19, <1>20, <1>21, <1>22, <1>23, <1>24, <1>25,
     <1>26, <1>27
  DEF Next, BackgroundTask, Application

LEMMA BasicInvariance == Spec => []BasicInv
  BY BasicInvInit, BasicInvStep, PTL DEF Spec

\* Every variable keeps its type; in particular no index leaves the array.
THEOREM TypeCorrect == Spec => []TypeOK
<1>1. BasicInv => TypeOK
  BY DEF BasicInv
<1>2. QED
  BY <1>1, BasicInvariance, PTL

\* However a push and an accessor interleave, count stays in 0 .. QueueLength
\* and fetch_sub never wraps.
THEOREM CountStaysInRange == Spec => []CountInRange
<1>1. BasicInv => CountInRange
  BY DEF BasicInv, CountInv, CountInRange, PopPc
<1>2. QED
  BY <1>1, BasicInvariance, PTL

-----------------------------------------------------------------------------
(* The half of the invariant that holds until a push that found the ring   *)
(* full overlaps an accessor.                                              *)

Matched == CountMatches /\ PushInv /\ SlotsInv /\ AccessorInv /\ HistoryInv

\* clash is never taken back.
LEMMA ClashIsSticky == [Next]_vars /\ clash => clash'
<1> SUFFICES ASSUME [Next]_vars, clash PROVE clash'
  OBVIOUS
<1>1. CASE BackgroundTask
  BY <1>1 DEF BackgroundTask, PushLoadHead, PushWriteLo, PushWriteHi, PushStoreHead, PushLoadCount,
    PushAdd, PushLoadTail, PushStoreTail, LastWriteLo, LastWriteHi, history
<1>2. CASE Application
  <2>1. CASE CallPop \/ (\E pos \in Index : CallGetFromQueue(pos) \/ CallGetAtIndex(pos))
    BY <2>1 DEF CallPop, CallGetFromQueue, CallGetAtIndex, Call
  <2>2. CASE PopLoadCount \/ PopLoadTail \/ PopCopyLo \/ PopCopyHi \/ PopStoreTail \/ PopSub
    BY <2>2 DEF PopLoadCount, PopLoadTail, PopCopyLo, PopCopyHi, PopStoreTail, PopSub, history
  <2>3. CASE PeekLoadCount \/ PeekLoadTail \/ PeekCopyLo \/ PeekCopyHi
             \/ CallGetLatest \/ LatestCopyLo \/ LatestCopyHi
    BY <2>3 DEF PeekLoadCount, PeekLoadTail, PeekCopyLo, PeekCopyHi, CallGetLatest,
      LatestCopyLo, LatestCopyHi, history
  <2>4. QED
    BY <1>2, <2>1, <2>2, <2>3 DEF Application
<1>3. CASE UNCHANGED vars
  BY <1>3 DEF vars, history
<1>4. QED
  BY <1>1, <1>2, <1>3 DEF Next

\* The numbers the invariant is about, and their range.
LEMMA Ranges ==
    ASSUME BasicInv, CountMatches
    PROVE  /\ sent \in Nat /\ taken \in Nat /\ lost \in Nat /\ count \in Nat
           /\ count <= QueueLength
           /\ Occupancy \in Nat /\ Occupancy <= QueueLength + 1
           /\ Occupancy = sent - taken
           /\ head \in Index /\ tail \in Index /\ atail \in Index /\ apos \in Index
<1>1. sent \in Nat /\ taken \in Nat /\ lost \in Nat /\ count \in Nat /\ count <= QueueLength
  BY ModulusNat, MaxPacketsAssumption DEF BasicInv, TypeOK, RingTypeOK, CountInv, U16
<1>2. Pending \in 0 .. 1 /\ Removing \in 0 .. 1
  BY DEF Pending, Removing
<1>3. Occupancy \in Nat /\ Occupancy <= QueueLength + 1
  BY <1>1, <1>2, QueueLengthNat DEF CountMatches, Occupancy
<1>4. QED
  BY <1>1, <1>3 DEF BasicInv, TypeOK, RingTypeOK, Occupancy

\* A step of an accessor that leaves the ring alone has only AccessorInv to
\* re-establish.
LEMMA AccessorFrame ==
    ASSUME CountMatches, PushInv, SlotsInv, HistoryInv,
           UNCHANGED <<ring, recvVars, sent, taken, lost, popped, full>>,
           apc # "popSub", apc' # "popSub",
           Overwriting => ~InQueueOp'
    PROVE  CountMatches' /\ PushInv' /\ SlotsInv' /\ HistoryInv'
<1> USE DEF ring, recvVars
<1>1. Occupancy' = Occupancy /\ Pending' = Pending /\ Removing' = Removing
  BY DEF Occupancy, Pending, Removing
<1>2. Overwriting' = Overwriting
  BY DEF Overwriting
<1>3. CountMatches'
  BY <1>1 DEF CountMatches
<1>4. PushInv'
  BY <1>2 DEF PushInv
<1>5. SlotsInv'
  BY <1>1, <1>2 DEF SlotsInv
<1>6. HistoryInv'
  BY <1>1 DEF HistoryInv, PopReturnsOldest
<1>7. QED
  BY <1>3, <1>4, <1>5, <1>6

\* A step of the background task that leaves head, tail, count and the history
\* of pops alone.
LEMMA PushFrame ==
    ASSUME CountMatches, AccessorInv, HistoryInv,
           UNCHANGED <<head, tail, count, appVars, sent, taken, lost, popped>>,
           Pending' = Pending
    PROVE  CountMatches' /\ AccessorInv' /\ HistoryInv'
<1> USE DEF appVars
<1>1. Occupancy' = Occupancy /\ Removing' = Removing
  BY DEF Occupancy, Removing
<1>2. CountMatches'
  BY <1>1 DEF CountMatches
<1>3. AccessorInv'
  BY DEF AccessorInv
<1>4. HistoryInv'
  BY <1>1 DEF HistoryInv, PopReturnsOldest
<1>5. QED
  BY <1>2, <1>3, <1>4

\* Each step of the background task keeps the invariant.
LEMMA MatchedPush ==
    ASSUME BasicInv, Matched, ~clash, ~clash', BackgroundTask
    PROVE  Matched'
<1> USE DEF Matched
<1>r. /\ sent \in Nat /\ taken \in Nat /\ lost \in Nat /\ count \in Nat
      /\ count <= QueueLength
      /\ Occupancy \in Nat /\ Occupancy <= QueueLength + 1
      /\ Occupancy = sent - taken
      /\ head \in Index /\ tail \in Index /\ atail \in Index /\ apos \in Index
  BY Ranges
<1>s. slots \in [Index -> Slot] /\ QueueLength \in Nat /\ QueueLength > 0
  BY QueueLengthNat DEF BasicInv, TypeOK, RingTypeOK
<1>1. CASE PushLoadHead
  <2>1. /\ UNCHANGED <<ring, appVars, history>>
        /\ rpc = "idle" /\ rpc' = "writeLo" /\ rhead' = head
    BY <1>1 DEF PushLoadHead
  <2>2. CountMatches' /\ AccessorInv' /\ HistoryInv'
    BY <2>1, PushFrame DEF Pending, ring, history
  <2>3. ~Overwriting /\ ~Overwriting' /\ Occupancy' = Occupancy
    BY <2>1 DEF Overwriting, Occupancy, history
  <2>4. PushInv'
    BY <2>1, <2>3 DEF PushInv, ring
  <2>5. SlotsInv'
    BY <2>1, <2>3 DEF SlotsInv, ring, history
  <2>6. QED
    BY <2>2, <2>4, <2>5
<1>2. CASE PushWriteLo
  <2>1. /\ UNCHANGED <<head, tail, count, rhead, rtail, appVars, sent, taken, lost, popped>>
        /\ rpc = "writeLo" /\ rpc' = "writeHi"
        /\ full' <=> count = QueueLength
        /\ count = QueueLength => ~InQueueOp
        /\ rhead = head
        /\ slots' = [slots EXCEPT ![head] = [lo |-> sent + 1, hi |-> slots[head].hi]]
    BY <1>2 DEF PushWriteLo, WriteSlotLo, PushInv
  <2>2. CountMatches' /\ AccessorInv' /\ HistoryInv'
    BY <2>1, PushFrame DEF Pending
  <2>3. ~Overwriting /\ (Overwriting' <=> count = QueueLength) /\ Occupancy' = Occupancy
    BY <2>1 DEF Overwriting, Occupancy
  <2>4. InQueueOp' = InQueueOp /\ apc' = apc
    BY <2>1 DEF InQueueOp, appVars
  <2>5. count = QueueLength => apc # "popSub"
    BY <2>1 DEF InQueueOp, PopPc
  <2>6. PushInv'
    BY <1>r, <1>s, <2>1, <2>3, <2>4, <2>5 DEF PushInv
  <2>7. count = Occupancy + Removing /\ Removing \in 0 .. 1
    BY <1>r, <2>1 DEF CountMatches, Pending, Removing
  <2>8. Occupancy <= QueueLength
    BY <1>r, <1>s, <2>7
  <2>9. slots'[head].lo = sent + 1
    BY <1>r, <1>s, <2>1
  <2>10. ASSUME NEW k \in 0 .. Occupancy - 1, ~(k = 0 /\ Overwriting')
         PROVE  slots'[At(tail, k)] = Packet(taken + k + 1)
    <3>1. slots[At(tail, k)] = Packet(taken + k + 1)
      BY <2>3, <2>10 DEF SlotsInv
    <3>2. At(tail, k) # head
      <4>1. CASE Occupancy < QueueLength
        <5>1. k \in Index /\ Occupancy \in Index /\ k # Occupancy
          BY <1>r, <1>s, <4>1 DEF Index
        <5>2. QED
          BY <1>r, <5>1, AtDistinct DEF CountMatches
      <4>2. CASE Occupancy = QueueLength
        <5>1. k \in Index /\ 0 \in Index /\ k # 0
          BY <1>r, <1>s, <2>3, <2>7, <2>10, <4>2 DEF Index
        <5>2. head = At(tail, 0)
          BY <1>r, <4>2, AtLap DEF CountMatches
        <5>3. QED
          BY <1>r, <5>1, <5>2, AtDistinct
      <4>3. QED
        BY <1>r, <1>s, <2>8, <4>1, <4>2
    <3>3. QED
      BY <1>r, <1>s, <2>1, <3>1, <3>2
  <2>11. SlotsInv'
    BY <2>1, <2>3, <2>9, <2>10 DEF SlotsInv
  <2>12. QED
    BY <2>2, <2>6, <2>11
<1>3. CASE PushWriteHi
  <2>1. /\ UNCHANGED <<head, tail, count, rhead, rtail, appVars, sent, taken, lost, popped, full>>
        /\ rpc = "writeHi" /\ rpc' = "storeHead" /\ rhead = head
        /\ slots' = [slots EXCEPT ![head] = [lo |-> slots[head].lo, hi |-> sent + 1]]
    BY <1>3 DEF PushWriteHi, WriteSlotHi, PushInv, history
  <2>2. CountMatches' /\ AccessorInv' /\ HistoryInv'
    BY <2>1, PushFrame DEF Pending
  <2>3. (Overwriting' <=> Overwriting) /\ (Overwriting <=> full) /\ Occupancy' = Occupancy
    BY <2>1 DEF Overwriting, Occupancy, BasicInv, TypeOK
  <2>4. InQueueOp' = InQueueOp /\ apc' = apc
    BY <2>1 DEF InQueueOp, appVars
  <2>5. PushInv'
    BY <1>r, <2>1, <2>3, <2>4 DEF PushInv
  <2>6. slots[head].lo = sent + 1
    BY <2>1 DEF SlotsInv
  <2>7. slots'[head] = Packet(sent + 1)
    BY <1>r, <1>s, <2>1, <2>6 DEF Packet
  <2>8. ~full => count < QueueLength
    BY <2>1 DEF PushInv
  <2>9. full => count = QueueLength /\ apc # "popSub"
    BY <2>1, <2>3 DEF PushInv
  <2>10. count = Occupancy + Removing /\ Removing \in 0 .. 1 /\ (full => Removing = 0)
    BY <1>r, <2>1, <2>9 DEF CountMatches, Pending, Removing
  <2>11. ASSUME NEW k \in 0 .. Occupancy - 1, ~(k = 0 /\ Overwriting)
         PROVE  slots'[At(tail, k)] = Packet(taken + k + 1)
    <3>1. slots[At(tail, k)] = Packet(taken + k + 1)
      BY <2>11 DEF SlotsInv
    <3>2. At(tail, k) # head
      <4>1. CASE full
        <5>1. k \in Index /\ 0 \in Index /\ k # 0 /\ Occupancy = QueueLength
          BY <1>r, <1>s, <2>3, <2>9, <2>10, <2>11, <4>1 DEF Index
        <5>2. head = At(tail, 0)
          BY <1>r, <5>1, AtLap DEF CountMatches
        <5>3. QED
          BY <1>r, <5>1, <5>2, AtDistinct
      <4>2. CASE ~full
        <5>1. k \in Index /\ Occupancy \in Index /\ k # Occupancy
          BY <1>r, <1>s, <2>8, <2>10, <4>2 DEF Index
        <5>2. QED
          BY <1>r, <5>1, AtDistinct DEF CountMatches
      <4>3. QED
        BY <4>1, <4>2
    <3>3. QED
      BY <1>r, <1>s, <2>1, <3>1, <3>2
  <2>12. SlotsInv'
    BY <2>1, <2>3, <2>7, <2>11 DEF SlotsInv
  <2>13. QED
    BY <2>2, <2>5, <2>12
<1>4. CASE PushStoreHead
  <2>1. /\ UNCHANGED <<tail, count, slots, rhead, rtail, appVars, taken, lost, popped, full>>
        /\ rpc = "storeHead" /\ rpc' = "loadCount" /\ rhead = head
        /\ head' = Succ(head) /\ sent' = sent + 1
    BY <1>4 DEF PushStoreHead, StoreHead, PushInv
  <2>2. /\ Pending = 0 /\ Pending' = 1 /\ Removing' = Removing /\ Removing \in 0 .. 1
        /\ Occupancy' = Occupancy + 1
    BY <1>r, <2>1 DEF Pending, Removing, Occupancy, appVars
  <2>3. count = Occupancy + Removing /\ Occupancy \in 0 .. QueueLength
    BY <1>r, <1>s, <2>2 DEF CountMatches
  <2>4. head = At(tail, Occupancy) /\ head' = At(tail, Occupancy + 1)
    BY <1>r, <2>1, <2>3, SuccOfAt DEF CountMatches
  <2>5. CountMatches'
    BY <1>r, <2>1, <2>2, <2>3, <2>4 DEF CountMatches
  <2>6. Overwriting' = Overwriting
    BY <2>1 DEF Overwriting
  <2>7. InQueueOp' = InQueueOp /\ apc' = apc
    BY <2>1 DEF InQueueOp, appVars
  <2>8. PushInv'
    BY <1>r, <2>1, <2>6, <2>7 DEF PushInv
  <2>9. slots[At(tail, Occupancy)] = Packet(taken + Occupancy + 1)
    BY <1>r, <2>1, <2>4 DEF SlotsInv
  <2>10. SlotsInv'
    BY <1>r, <2>1, <2>2, <2>6, <2>9 DEF SlotsInv
  <2>11. AccessorInv'
    BY <2>1 DEF AccessorInv, appVars
  <2>12. HistoryInv'
    BY <2>1, <2>2 DEF HistoryInv, PopReturnsOldest
  <2>13. QED
    BY <2>5, <2>8, <2>10, <2>11, <2>12
<1>5. CASE PushLoadCount
  <2>1. /\ UNCHANGED <<ring, rhead, rtail, appVars, history>>
        /\ rpc = "loadCount" /\ rpc' = IF count < QueueLength THEN "add" ELSE "loadTail"
    BY <1>5 DEF PushLoadCount
  <2>2. CountMatches' /\ AccessorInv' /\ HistoryInv'
    BY <2>1, PushFrame DEF Pending, ring, history
  <2>3. full = (rpc' = "loadTail")
    BY <1>r, <1>s, <2>1 DEF PushInv, Overwriting, BasicInv, TypeOK
  <2>4. Overwriting' = Overwriting /\ Occupancy' = Occupancy
    BY <2>1, <2>3 DEF Overwriting, Occupancy, history
  <2>5. PushInv'
    BY <1>r, <2>1, <2>3, <2>4 DEF PushInv, ring, history, appVars, InQueueOp
  <2>6. SlotsInv'
    BY <2>1, <2>4 DEF SlotsInv, ring, history
  <2>7. QED
    BY <2>2, <2>5, <2>6
<1>6. CASE PushAdd
  <2>1. /\ UNCHANGED <<head, tail, slots, rhead, rtail, appVars, history>>
        /\ rpc = "add" /\ rpc' = "lastLo" /\ count' = (count + 1) % Modulus
    BY <1>6 DEF PushAdd, IncCount
  <2>2. count < QueueLength /\ ~full
    BY <2>1 DEF BasicInv, CountInv, PushInv
  <2>3. count' = count + 1
    BY <1>r, <2>1, <2>2, NoWrap, ModulusNat, QueueLengthNat DEF BasicInv, TypeOK, RingTypeOK
  <2>4. ~Overwriting' /\ ~Overwriting /\ Occupancy' = Occupancy /\ Removing' = Removing
        /\ Pending = 1 /\ Pending' = 0
    BY <2>1, <2>2 DEF Overwriting, Occupancy, Removing, Pending, history, appVars
  <2>5. CountMatches'
    BY <1>r, <2>1, <2>3, <2>4 DEF CountMatches, history
  <2>6. PushInv'
    BY <2>1, <2>4 DEF PushInv
  <2>7. SlotsInv'
    BY <2>1, <2>4 DEF SlotsInv, history
  <2>8. AccessorInv'
    BY <1>r, <2>1, <2>3 DEF AccessorInv, appVars, history, Index
  <2>9. HistoryInv'
    BY <2>1, <2>4 DEF HistoryInv, PopReturnsOldest, history
  <2>10. QED
    BY <2>5, <2>6, <2>7, <2>8, <2>9
<1>7. CASE PushLoadTail
  <2>1. /\ UNCHANGED <<ring, rhead, appVars, history>>
        /\ rpc = "loadTail" /\ rpc' = "storeTail" /\ rtail' = tail
    BY <1>7 DEF PushLoadTail
  <2>2. CountMatches' /\ AccessorInv' /\ HistoryInv'
    BY <2>1, PushFrame DEF Pending, ring, history
  <2>3. Overwriting' = Overwriting /\ Occupancy' = Occupancy
    BY <2>1 DEF Overwriting, Occupancy, history
  <2>4. PushInv'
    BY <2>1, <2>3 DEF PushInv, ring, history, appVars, InQueueOp
  <2>5. SlotsInv'
    BY <2>1, <2>3 DEF SlotsInv, ring, history
  <2>6. QED
    BY <2>2, <2>4, <2>5
<1>8. CASE PushStoreTail
  <2>1. /\ UNCHANGED <<head, count, slots, rhead, rtail, appVars, sent, popped, full>>
        /\ rpc = "storeTail" /\ rpc' = "lastLo"
        /\ tail' = Succ(tail) /\ taken' = taken + 1 /\ lost' = lost + 1
    BY <1>8 DEF PushStoreTail, StoreTail, PushInv
  <2>2. Overwriting /\ ~Overwriting'
    BY <2>1 DEF Overwriting, PushInv
  <2>3. count = QueueLength /\ ~InQueueOp /\ apc # "popSub"
    BY <2>2 DEF PushInv
  <2>4. Removing = 0 /\ Removing' = 0 /\ Pending = 1 /\ Pending' = 0
    BY <2>1, <2>3 DEF Removing, Pending, appVars
  <2>5. Occupancy = QueueLength + 1 /\ Occupancy' = Occupancy - 1
    BY <1>r, <1>s, <2>1, <2>3, <2>4 DEF CountMatches, Occupancy
  <2>6. head = At(tail', QueueLength)
    BY <1>r, <1>s, <2>1, <2>5, AtOfSucc DEF CountMatches
  <2>7. CountMatches'
    BY <1>r, <1>s, <2>1, <2>3, <2>4, <2>5, <2>6 DEF CountMatches
  <2>8. PushInv'
    BY <2>1, <2>2 DEF PushInv
  <2>9. ASSUME NEW k \in 0 .. QueueLength - 1
        PROVE  slots[At(tail', k)] = Packet(taken' + k + 1)
    <3>1. At(tail', k) = At(tail, k + 1)
      BY <1>r, <1>s, <2>1, AtOfSucc
    <3>2. k + 1 \in 0 .. Occupancy - 1 /\ k + 1 # 0
      BY <1>s, <2>5
    <3>3. slots[At(tail, k + 1)] = Packet(taken + (k + 1) + 1)
      BY <3>2 DEF SlotsInv
    <3>4. taken + (k + 1) + 1 = taken' + k + 1
      BY <1>r, <1>s, <2>1
    <3>5. QED
      BY <3>1, <3>3, <3>4
  <2>10. SlotsInv'
    BY <1>s, <2>1, <2>5, <2>9 DEF SlotsInv
  <2>11. AccessorInv'
    BY <2>1, <2>3 DEF AccessorInv, appVars, InQueueOp, PopPc, PeekPc
  <2>12. HistoryInv'
    <3>1. taken' = Len(popped') + lost' + Removing'
      BY <1>r, <2>1, <2>4 DEF HistoryInv, BasicInv, TypeOK
    <3>2. ASSUME NEW i \in 1 .. Len(popped)
          PROVE  popped[i] = Packet(popped[i].lo) /\ popped[i].lo <= taken' - Removing'
      <4>1. popped[i] = Packet(popped[i].lo) /\ popped[i].lo <= taken - Removing
        BY DEF HistoryInv
      <4>2. popped[i] \in Slot
        BY DEF BasicInv, TypeOK
      <4>3. popped[i].lo \in Int
        BY <4>2, MaxPacketsAssumption DEF Slot
      <4>4. QED
        BY <1>r, <2>1, <2>4, <4>1, <4>3
    <3>3. QED
      BY <2>1, <3>1, <3>2 DEF HistoryInv, PopReturnsOldest
  <2>13. QED
    BY <2>7, <2>8, <2>10, <2>11, <2>12
<1>9. CASE LastWriteLo \/ LastWriteHi
  <2>1. /\ UNCHANGED <<ring, rhead, rtail, appVars, history>>
        /\ rpc \in {"lastLo", "lastHi"} /\ rpc' \in {"lastHi", "idle"}
    BY <1>9 DEF LastWriteLo, LastWriteHi
  <2>2. CountMatches' /\ AccessorInv' /\ HistoryInv'
    BY <2>1, PushFrame DEF Pending, ring, history
  <2>3. ~Overwriting /\ ~Overwriting' /\ Occupancy' = Occupancy
    BY <2>1 DEF Overwriting, Occupancy, history
  <2>4. PushInv'
    BY <2>1, <2>3 DEF PushInv
  <2>5. SlotsInv'
    BY <2>1, <2>3 DEF SlotsInv, ring, history
  <2>6. QED
    BY <2>2, <2>4, <2>5
<1>10. QED
  BY <1>1, <1>2, <1>3, <1>4, <1>5, <1>6, <1>7, <1>8, <1>9 DEF BackgroundTask

\* Each step of an accessor keeps the invariant.
LEMMA MatchedAccessor ==
    ASSUME BasicInv, Matched, ~clash, ~clash', Application
    PROVE  Matched'
<1> USE DEF Matched
<1>r. /\ sent \in Nat /\ taken \in Nat /\ lost \in Nat /\ count \in Nat
      /\ count <= QueueLength
      /\ Occupancy \in Nat /\ Occupancy <= QueueLength + 1
      /\ Occupancy = sent - taken
      /\ head \in Index /\ tail \in Index /\ atail \in Index /\ apos \in Index
  BY Ranges
<1>s. QueueLength \in Nat /\ QueueLength > 0 /\ slots \in [Index -> Slot]
  BY QueueLengthNat DEF BasicInv, TypeOK, RingTypeOK
<1>o. InQueueOp => ~Overwriting
  BY DEF PushInv
\* A pop and a peek look at a slot that holds its packet.
<1>p. ASSUME NEW k \in 0 .. Occupancy - 1, InQueueOp
      PROVE  slots[At(tail, k)] = Packet(taken + k + 1)
  BY <1>p, <1>o DEF SlotsInv
<1>q. ASSUME InQueueOp, apc # "popSub" PROVE count <= Occupancy
  <2>1. count + Pending = Occupancy /\ Pending \in 0 .. 1
    BY <1>r, <1>q DEF CountMatches, Removing, Pending
  <2>2. QED
    BY <1>r, <2>1
<1>1. CASE CallPop \/ (\E pos \in Index : CallGetFromQueue(pos) \/ CallGetAtIndex(pos))
  <2>1. /\ UNCHANGED <<ring, recvVars, sent, taken, lost, popped, full>>
        /\ apc = "idle" /\ apc' \in {"idle", "popCount", "peekCount", "peekTail"}
        /\ apc' # "idle" => ~Overwriting
        /\ apc' = "peekTail" => apos' < count
    BY <1>1, Zenon DEF CallPop, CallGetFromQueue, CallGetAtIndex, Call
  <2>2. Overwriting => ~InQueueOp'
    BY <2>1 DEF InQueueOp, PopPc, PeekPc
  <2>3. CountMatches' /\ PushInv' /\ SlotsInv' /\ HistoryInv'
    BY <2>1, <2>2, AccessorFrame
  <2>4. AccessorInv'
    BY <2>1 DEF AccessorInv, ring
  <2>5. QED
    BY <2>3, <2>4
<1>2. CASE PopLoadCount \/ PopLoadTail \/ PeekLoadCount \/ PeekLoadTail
  <2>1. /\ UNCHANGED <<ring, recvVars, apos, out, sent, taken, lost, popped, full>>
        /\ apc \in {"popCount", "popTail", "peekCount", "peekTail"}
        /\ apc' \in {"idle", "popTail", "popLo", "peekTail", "peekLo"}
        /\ apc' = "peekTail" => apos < count
        /\ apc' = "peekLo" => apc = "peekTail"
        /\ apc' \in {"popLo", "peekLo"} => atail' = tail
    BY <1>2 DEF PopLoadCount, PopLoadTail, PeekLoadCount, PeekLoadTail, Goto, history
  <2>2. Overwriting => ~InQueueOp'
    BY <1>o, <2>1 DEF InQueueOp, PopPc, PeekPc
  <2>3. CountMatches' /\ PushInv' /\ SlotsInv' /\ HistoryInv'
    BY <2>1, <2>2, AccessorFrame
  <2>4. AccessorInv'
    BY <2>1 DEF AccessorInv, ring
  <2>5. QED
    BY <2>3, <2>4
<1>3. CASE PopCopyLo \/ PopCopyHi
  <2>1. /\ UNCHANGED <<ring, recvVars, apos, atail, sent, taken, lost, popped, full>>
        /\ apc \in {"popLo", "popHi"} /\ apc' \in {"popHi", "popStore"}
        /\ apc = "popLo" => apc' = "popHi" /\ out'.lo = slots[atail].lo
        /\ apc = "popHi" => apc' = "popStore" /\ out' = [lo |-> out.lo, hi |-> slots[atail].hi]
    BY <1>3 DEF PopCopyLo, PopCopyHi, Goto, history
  <2>2. InQueueOp /\ apc # "popSub"
    BY <2>1 DEF InQueueOp, PopPc
  <2>3. CountMatches' /\ PushInv' /\ SlotsInv' /\ HistoryInv'
    BY <1>o, <2>1, <2>2, AccessorFrame
  <2>4. 0 \in 0 .. Occupancy - 1
    BY <1>r, <1>q, <2>1, <2>2 DEF BasicInv, CountInv, PopPc
  <2>5. slots[tail] = Packet(taken + 1)
    <3>1. slots[At(tail, 0)] = Packet(taken + 0 + 1)
      BY <1>p, <2>2, <2>4
    <3>2. taken + 0 + 1 = taken + 1
      BY <1>r
    <3>3. QED
      BY <1>r, <3>1, <3>2, AtLap
  <2>6. atail = tail
    BY <2>1 DEF AccessorInv
  <2>7. AccessorInv'
    BY <2>1, <2>5, <2>6 DEF AccessorInv, Packet, ring
  <2>8. QED
    BY <2>3, <2>7
<1>4. CASE PopStoreTail
  <2>1. /\ UNCHANGED <<head, count, slots, recvVars, apos, out, sent, lost, popped, full>>
        /\ apc = "popStore" /\ apc' = "popSub"
        /\ tail' = Succ(tail) /\ taken' = taken + 1
    BY <1>4 DEF PopStoreTail, StoreTail, Goto, AccessorInv
  <2>2. InQueueOp /\ ~Overwriting
    BY <1>o, <2>1 DEF InQueueOp, PopPc
  <2>3. ~Overwriting'
    BY <2>1, <2>2 DEF Overwriting, recvVars
  <2>4. Removing = 0 /\ Removing' = 1 /\ Pending' = Pending
    BY <2>1 DEF Removing, Pending, recvVars
  <2>5. Occupancy > 0 /\ Occupancy' = Occupancy - 1
    BY <1>r, <1>q, <2>1, <2>2 DEF Occupancy, BasicInv, CountInv, PopPc
  <2>6. CountMatches'
    <3>1. head = At(tail', Occupancy - 1)
      BY <1>r, <1>s, <2>1, <2>5, AtOfSucc DEF CountMatches
    <3>2. count + Pending = Occupancy
      BY <1>r, <2>4 DEF CountMatches, Pending
    <3>3. QED
      BY <1>r, <2>1, <2>4, <2>5, <3>1, <3>2 DEF CountMatches, Pending
  <2>7. PushInv'
    <3>1. rpc # "storeTail"
      BY <2>2 DEF PushInv, Overwriting
    <3>2. QED
      BY <2>1, <2>3, <3>1 DEF PushInv, recvVars
  <2>8. ASSUME NEW k \in 0 .. Occupancy - 2
        PROVE  slots[At(tail', k)] = Packet(taken' + k + 1)
    <3>1. At(tail', k) = At(tail, k + 1)
      BY <1>r, <1>s, <2>1, AtOfSucc
    <3>2. k + 1 \in 0 .. Occupancy - 1
      BY <1>r
    <3>3. slots[At(tail, k + 1)] = Packet(taken + (k + 1) + 1)
      BY <1>p, <2>2, <3>2
    <3>4. taken + (k + 1) + 1 = taken' + k + 1
      BY <1>r, <2>1
    <3>5. QED
      BY <3>1, <3>3, <3>4
  <2>9. SlotsInv'
    <3>1. Occupancy' - 1 = Occupancy - 2
      BY <1>r, <2>5
    <3>2. QED
      BY <2>1, <2>8, <3>1 DEF SlotsInv, recvVars
  <2>10. AccessorInv'
    BY <2>1 DEF AccessorInv
  <2>11. HistoryInv'
    <3>1. Len(popped) \in Nat
      BY DEF BasicInv, TypeOK
    <3>2. taken' = Len(popped') + lost' + Removing'
      BY <1>r, <2>1, <2>4, <3>1 DEF HistoryInv
    <3>3. taken' - Removing' = taken - Removing
      BY <1>r, <2>1, <2>4
    <3>4. QED
      BY <2>1, <3>2, <3>3 DEF HistoryInv, PopReturnsOldest
  <2>12. QED
    BY <2>6, <2>7, <2>9, <2>10, <2>11
<1>5. CASE PopSub
  <2>1. /\ UNCHANGED <<head, tail, slots, recvVars, apos, atail, out, sent, taken, lost, full>>
        /\ apc = "popSub" /\ apc' = "idle"
        /\ count' = (count + Modulus - 1) % Modulus
        /\ popped' = Append(popped, out)
    BY <1>5 DEF PopSub, DecCount, Goto
  <2>2. count > 0 /\ count \in U16
    BY <2>1 DEF BasicInv, TypeOK, RingTypeOK, CountInv, PopPc
  <2>3. count' = count - 1
    BY <2>1, <2>2, NoWrap
  <2>4. ~Overwriting /\ ~Overwriting'
    BY <1>o, <2>1 DEF InQueueOp, PopPc, Overwriting, recvVars
  <2>5. Removing = 1 /\ Removing' = 0 /\ Pending' = Pending /\ Occupancy' = Occupancy
    BY <2>1 DEF Removing, Pending, Occupancy, recvVars
  <2>6. CountMatches'
    BY <1>r, <2>1, <2>3, <2>5 DEF CountMatches, Pending
  <2>7. PushInv'
    BY <1>r, <1>s, <2>1, <2>3, <2>4 DEF PushInv, recvVars
  <2>8. SlotsInv'
    BY <2>1, <2>4, <2>5 DEF SlotsInv, recvVars
  <2>9. AccessorInv'
    BY <2>1 DEF AccessorInv
  <2>10. HistoryInv'
    <3>1. Len(popped) \in Nat /\ popped \in Seq(Slot) /\ out \in Slot
      BY DEF BasicInv, TypeOK
    <3>2. /\ Len(popped') = Len(popped) + 1
          /\ \A i \in 1 .. Len(popped) : popped'[i] = popped[i]
          /\ popped'[Len(popped) + 1] = out
      BY <2>1, <3>1
    <3>3. out = Packet(taken) /\ out.lo = taken
      BY <2>1 DEF AccessorInv, Packet
    <3>4. taken' = Len(popped') + lost' + Removing'
      BY <1>r, <2>1, <2>5, <3>1, <3>2 DEF HistoryInv
    <3>5. ASSUME NEW i \in 1 .. Len(popped)
          PROVE  popped'[i] = Packet(popped'[i].lo) /\ popped'[i].lo < taken
      <4>1. popped[i] = Packet(popped[i].lo) /\ popped[i].lo <= taken - 1
        BY <2>5 DEF HistoryInv
      <4>2. popped[i] \in Slot
        BY <3>1
      <4>3. popped[i].lo \in Int
        BY <4>2, MaxPacketsAssumption DEF Slot
      <4>4. QED
        BY <1>r, <3>2, <4>1, <4>3
    <3>6. ASSUME NEW i \in 1 .. Len(popped')
          PROVE  popped'[i] = Packet(popped'[i].lo) /\ popped'[i].lo <= taken
      <4>1. CASE i \in 1 .. Len(popped)
        <5>1. popped'[i] = Packet(popped'[i].lo) /\ popped'[i].lo < taken
          BY <3>5, <4>1
        <5>2. popped'[i] \in Slot
          BY <3>1, <3>2, <4>1
        <5>3. popped'[i].lo \in Int
          BY <5>2, MaxPacketsAssumption DEF Slot
        <5>4. QED
          BY <1>r, <5>1, <5>3
      <4>2. CASE i = Len(popped) + 1
        BY <1>r, <3>2, <3>3, <4>2
      <4>3. QED
        BY <3>1, <3>2, <4>1, <4>2
    <3>7. ASSUME NEW i \in 1 .. Len(popped'), NEW j \in 1 .. Len(popped'), i < j
          PROVE  popped'[i].lo < popped'[j].lo
      <4>1. i \in 1 .. Len(popped)
        BY <3>1, <3>2, <3>7
      <4>2. CASE j \in 1 .. Len(popped)
        <5>1. popped[i].lo < popped[j].lo
          BY <3>7, <4>1, <4>2 DEF HistoryInv, PopReturnsOldest
        <5>2. QED
          BY <3>2, <4>1, <4>2, <5>1
      <4>3. CASE j = Len(popped) + 1
        <5>1. popped'[i].lo < taken
          BY <3>5, <4>1
        <5>2. QED
          BY <3>2, <3>3, <4>3, <5>1
      <4>4. QED
        BY <3>1, <3>2, <4>2, <4>3
    <3>8. taken' - Removing' = taken
      BY <1>r, <2>1, <2>5
    <3>9. QED
      BY <3>4, <3>6, <3>7, <3>8 DEF HistoryInv, PopReturnsOldest
  <2>11. QED
    BY <2>6, <2>7, <2>8, <2>9, <2>10
<1>6. CASE PeekCopyLo \/ PeekCopyHi
  <2>1. /\ UNCHANGED <<ring, recvVars, apos, atail, sent, taken, lost, popped, full>>
        /\ apc \in {"peekLo", "peekHi"} /\ apc' \in {"peekHi", "idle"}
        /\ apc = "peekLo" => apc' = "peekHi" /\ out'.lo = slots[At(atail, apos)].lo
        /\ apc = "peekHi" => apc' = "idle"
    BY <1>6 DEF PeekCopyLo, PeekCopyHi, Goto, history
  <2>2. InQueueOp /\ apc # "popSub"
    BY <2>1 DEF InQueueOp, PeekPc
  <2>3. CountMatches' /\ PushInv' /\ SlotsInv' /\ HistoryInv'
    BY <1>o, <2>1, <2>2, AccessorFrame
  <2>4. apos < count /\ atail = tail
    BY <2>1 DEF AccessorInv
  <2>5. apos \in 0 .. Occupancy - 1
    BY <1>r, <1>q, <2>2, <2>4 DEF Index
  <2>6. slots[At(tail, apos)] = Packet(taken + apos + 1)
    BY <1>p, <2>2, <2>5
  <2>7. AccessorInv'
    BY <2>1, <2>4, <2>6 DEF AccessorInv, Packet, ring
  <2>8. QED
    BY <2>3, <2>7
<1>7. CASE CallGetLatest \/ LatestCopyLo \/ LatestCopyHi
  <2>1. /\ UNCHANGED <<ring, recvVars, sent, taken, lost, popped, full>>
        /\ apc \in {"idle", "latestLo", "latestHi"} /\ apc' \in {"idle", "latestLo", "latestHi"}
    BY <1>7 DEF CallGetLatest, LatestCopyLo, LatestCopyHi, Goto, history
  <2>2. ~InQueueOp'
    BY <2>1 DEF InQueueOp, PopPc, PeekPc
  <2>3. CountMatches' /\ PushInv' /\ SlotsInv' /\ HistoryInv'
    BY <2>1, <2>2, AccessorFrame
  <2>4. AccessorInv'
    BY <2>1 DEF AccessorInv
  <2>5. QED
    BY <2>3, <2>4
<1>8. QED
  BY <1>1, <1>2, <1>3, <1>4, <1>5, <1>6, <1>7 DEF Application

-----------------------------------------------------------------------------
(* Slots that can be read have been written.                               *)

LEMMA WrittenPush ==
    ASSUME BasicInv, WrittenInv, BackgroundTask
    PROVE  WrittenInv'
<1>r. /\ sent \in Nat /\ count \in Nat /\ count <= QueueLength /\ QueueLength \in Nat \ {0}
      /\ head \in Index /\ slots \in [Index -> Slot] /\ 0 \in Index
  BY ModulusNat, QueueLengthNat, MaxPacketsAssumption
  DEF BasicInv, TypeOK, RingTypeOK, CountInv, U16, Index
<1>t. \A i \in Index : slots[i].lo \in Int /\ slots[i].hi \in Int
  BY <1>r, MaxPacketsAssumption DEF Slot
<1>1. CASE PushLoadHead
  BY <1>1 DEF PushLoadHead, WrittenInv, Pending, ring, history
<1>2. CASE PushWriteLo
  <2>1. /\ UNCHANGED <<head, tail, count, rhead, sent>> /\ rpc = "writeLo" /\ rpc' = "writeHi"
        /\ full' <=> count = QueueLength
        /\ clash' => clash \/ count = QueueLength
        /\ rhead = head
        /\ slots' = [slots EXCEPT ![head] = [lo |-> sent + 1, hi |-> slots[head].hi]]
    BY <1>2 DEF PushWriteLo, WriteSlotLo, WrittenInv
  <2>2. Pending' = Pending
    BY <2>1 DEF Pending
  <2>3. slots'[head].lo = sent + 1 /\ slots'[head].hi = slots[head].hi
    BY <1>r, <2>1
  <2>4. \A i \in Index : i # head => slots'[i] = slots[i]
    BY <1>r, <2>1
  <2>5. \A i \in Index : i < sent => Filled(slots'[i])
    BY <1>r, <2>3, <2>4 DEF WrittenInv, Filled
  <2>6. full' \/ clash' => sent >= QueueLength
    BY <1>r, <2>1 DEF WrittenInv, Pending
  <2>7. QED
    BY <1>r, <2>1, <2>2, <2>3, <2>5, <2>6 DEF WrittenInv
<1>3. CASE PushWriteHi
  <2>1. /\ UNCHANGED <<head, tail, count, rhead, sent, full, clash>>
        /\ rpc = "writeHi" /\ rpc' = "storeHead" /\ rhead = head
        /\ slots' = [slots EXCEPT ![head] = [lo |-> slots[head].lo, hi |-> sent + 1]]
    BY <1>3 DEF PushWriteHi, WriteSlotHi, WrittenInv, history
  <2>2. Pending' = Pending
    BY <2>1 DEF Pending
  <2>3. slots'[head].lo = slots[head].lo /\ slots'[head].hi = sent + 1
    BY <1>r, <2>1
  <2>4. \A i \in Index : i # head => slots'[i] = slots[i]
    BY <1>r, <2>1
  <2>5. Filled(slots'[head])
    BY <1>r, <2>1, <2>3 DEF WrittenInv, Filled
  <2>6. \A i \in Index : i < sent => Filled(slots'[i])
    BY <2>4, <2>5 DEF WrittenInv
  <2>7. QED
    BY <2>1, <2>2, <2>5, <2>6 DEF WrittenInv
<1>4. CASE PushStoreHead
  <2>1. /\ UNCHANGED <<tail, count, slots, rhead, full, clash>>
        /\ rpc = "storeHead" /\ rpc' = "loadCount" /\ rhead = head
        /\ head' = Succ(head) /\ sent' = sent + 1
    BY <1>4 DEF PushStoreHead, StoreHead, WrittenInv
  <2>2. Pending = 0 /\ Pending' = 1
    BY <2>1 DEF Pending
  <2>3. sent' < QueueLength => head' = sent'
    BY <1>r, <2>1, SuccIs DEF WrittenInv
  <2>4. \A i \in Index : i < sent' => Filled(slots'[i])
    <3>1. ASSUME NEW i \in Index, i < sent + 1 PROVE Filled(slots[i])
      <4>1. CASE i < sent
        BY <4>1 DEF WrittenInv
      <4>2. CASE i = sent
        BY <1>r, <2>1, <4>2 DEF WrittenInv, Index
      <4>3. QED
        BY <1>r, <3>1, <4>1, <4>2 DEF Index
    <3>2. QED
      BY <2>1, <3>1
  <2>5. count' + Pending' <= sent'
    BY <1>r, <2>1, <2>2 DEF WrittenInv
  <2>6. full' \/ clash' => sent' >= QueueLength
    BY <1>r, <2>1 DEF WrittenInv
  <2>7. QED
    BY <2>1, <2>3, <2>4, <2>5, <2>6 DEF WrittenInv
<1>5. CASE PushAdd
  <2>1. /\ UNCHANGED <<head, tail, slots, rhead, sent, full, clash>>
        /\ rpc = "add" /\ rpc' = "lastLo" /\ count' = (count + 1) % Modulus
    BY <1>5 DEF PushAdd, IncCount, history
  <2>2. count' = count + 1
    BY <1>r, <2>1, NoWrap, ModulusNat, QueueLengthNat DEF BasicInv, CountInv, TypeOK, RingTypeOK
  <2>3. count' + Pending' <= sent'
    BY <1>r, <2>1, <2>2 DEF WrittenInv, Pending
  <2>4. QED
    BY <2>1, <2>3 DEF WrittenInv
<1>6. CASE PushLoadCount \/ PushLoadTail \/ LastWriteLo \/ LastWriteHi
  <2>1. /\ UNCHANGED <<ring, rhead, sent, full, clash>>
        /\ rpc' \in {"add", "loadTail", "storeTail", "lastHi", "idle"}
        /\ Pending' = Pending
    BY <1>6 DEF PushLoadCount, PushLoadTail, LastWriteLo, LastWriteHi, history, Pending
  <2>2. QED
    BY <2>1 DEF WrittenInv, ring
<1>7. CASE PushStoreTail
  <2>1. /\ UNCHANGED <<head, count, slots, rhead, sent, full, clash>>
        /\ rpc = "storeTail" /\ rpc' = "lastLo"
    BY <1>7 DEF PushStoreTail, StoreTail
  <2>2. count' + Pending' <= sent'
    BY <1>r, <2>1 DEF WrittenInv, Pending
  <2>3. QED
    BY <2>1, <2>2 DEF WrittenInv
<1>8. QED
  BY <1>1, <1>2, <1>3, <1>4, <1>5, <1>6, <1>7 DEF BackgroundTask

LEMMA WrittenAccessor ==
    ASSUME BasicInv, WrittenInv, Application
    PROVE  WrittenInv'
<1>r. sent \in Nat /\ count \in Nat /\ count <= QueueLength
  BY ModulusNat, MaxPacketsAssumption DEF BasicInv, TypeOK, RingTypeOK, CountInv, U16
<1>1. /\ UNCHANGED <<head, slots, rhead, rpc, sent, full>>
      /\ clash' => clash \/ full
      /\ UNCHANGED count \/ PopSub
  <2>1. CASE CallPop \/ (\E pos \in Index : CallGetFromQueue(pos) \/ CallGetAtIndex(pos))
    BY <2>1 DEF CallPop, CallGetFromQueue, CallGetAtIndex, Call, ring, recvVars, Overwriting
  <2>2. CASE PopLoadCount \/ PopLoadTail \/ PopCopyLo \/ PopCopyHi
    BY <2>2 DEF PopLoadCount, PopLoadTail, PopCopyLo, PopCopyHi, ring, recvVars, history
  <2>3. CASE PopStoreTail \/ PopSub
    BY <2>3 DEF PopStoreTail, PopSub, StoreTail, DecCount, recvVars
  <2>4. CASE PeekLoadCount \/ PeekLoadTail \/ PeekCopyLo \/ PeekCopyHi
             \/ CallGetLatest \/ LatestCopyLo \/ LatestCopyHi
    BY <2>4 DEF PeekLoadCount, PeekLoadTail, PeekCopyLo, PeekCopyHi, CallGetLatest,
      LatestCopyLo, LatestCopyHi, ring, recvVars, history
  <2>5. QED
    BY <2>1, <2>2, <2>3, <2>4 DEF Application
<1>2. count' <= count /\ count' \in Nat
  <2>1. CASE PopSub
    <3>1. count > 0 /\ count \in U16
      BY <2>1 DEF PopSub, Goto, BasicInv, TypeOK, RingTypeOK, CountInv, PopPc
    <3>2. count' = count - 1
      BY <2>1, <3>1, NoWrap DEF PopSub, DecCount
    <3>3. QED
      BY <1>r, <3>1, <3>2
  <2>2. QED
    BY <1>r, <1>1, <2>1
<1>3. (Pending = 0 /\ Pending' = 0) \/ (Pending = 1 /\ Pending' = 1)
  BY <1>1 DEF Pending
<1>4. count' + Pending' <= sent'
  <2>1. count + Pending <= sent /\ sent' = sent
    BY <1>1 DEF WrittenInv
  <2>2. QED
    BY <1>r, <1>2, <1>3, <2>1
<1>5. QED
  BY <1>1, <1>4 DEF WrittenInv

LEMMA WrittenInvStep == BasicInv /\ WrittenInv /\ [Next]_vars => WrittenInv'
<1> SUFFICES ASSUME BasicInv, WrittenInv, [Next]_vars PROVE WrittenInv'
  OBVIOUS
<1>1. CASE UNCHANGED vars
  BY <1>1 DEF vars, WrittenInv, Pending, ring, recvVars, history
<1>2. QED
  BY <1>1, WrittenPush, WrittenAccessor DEF Next

\* The slot an accessor reads.
LEMMA ReadSlotIsFilled ==
    ASSUME BasicInv, WrittenInv, QueueInv, apc \in {"popLo", "popHi", "peekLo", "peekHi"},
           NEW k \in Index, ~clash => k < count
    PROVE  Filled(slots[At(atail, k)])
<1>r. /\ sent \in Nat /\ taken \in Nat /\ count \in Nat /\ QueueLength \in Nat \ {0}
      /\ tail \in Index /\ atail \in Index
  BY ModulusNat, QueueLengthNat, MaxPacketsAssumption DEF BasicInv, TypeOK, RingTypeOK, U16
<1>1. CASE clash
  <2>1. At(atail, k) \in Index
    BY <1>r, AtIsIndex
  <2>2. sent >= QueueLength
    BY <1>1 DEF WrittenInv
  <2>3. At(atail, k) < sent
    BY <1>r, <2>1, <2>2 DEF Index
  <2>4. QED
    BY <2>1, <2>3 DEF WrittenInv
<1>2. CASE ~clash
  <2>1. CountMatches /\ PushInv /\ SlotsInv /\ AccessorInv
    BY <1>2 DEF QueueInv
  <2>2. InQueueOp /\ ~Overwriting /\ atail = tail
    BY <2>1 DEF InQueueOp, PopPc, PeekPc, PushInv, AccessorInv
  <2>3. count <= Occupancy /\ Occupancy \in Int
    BY <1>r, <2>1 DEF CountMatches, Pending, Removing, Occupancy
  <2>4. k \in 0 .. Occupancy - 1
    BY <1>r, <1>2, <2>3 DEF Index
  <2>5. slots[At(tail, k)] = Packet(taken + k + 1)
    BY <2>1, <2>2, <2>4 DEF SlotsInv
  <2>6. QED
    BY <1>r, <2>2, <2>5 DEF Packet, Filled, Index
<1>3. QED
  BY <1>1, <1>2

LEMMA CopiedInvStep == BasicInv /\ WrittenInv /\ QueueInv /\ CopiedInv /\ [Next]_vars => CopiedInv'
<1> SUFFICES ASSUME BasicInv, WrittenInv, QueueInv, CopiedInv, [Next]_vars PROVE CopiedInv'
  OBVIOUS
<1>1. CASE BackgroundTask \/ UNCHANGED vars
  <2>1. UNCHANGED appVars
    BY <1>1 DEF BackgroundTask, PushLoadHead, PushWriteLo, PushWriteHi, PushStoreHead, PushLoadCount,
      PushAdd, PushLoadTail, PushStoreTail, LastWriteLo, LastWriteHi, vars
  <2>2. QED
    BY <2>1 DEF CopiedInv, appVars
<1>2. CASE CallPop \/ (\E pos \in Index : CallGetFromQueue(pos) \/ CallGetAtIndex(pos))
  BY <1>2 DEF CallPop, CallGetFromQueue, CallGetAtIndex, Call, CopiedInv
<1>3. CASE PopLoadCount \/ PopLoadTail \/ PeekLoadCount \/ PeekLoadTail
  BY <1>3 DEF PopLoadCount, PopLoadTail, PeekLoadCount, PeekLoadTail, Goto, CopiedInv
<1>4. CASE PopCopyLo \/ PopCopyHi
  <2>1. apc \in {"popLo", "popHi"}
    BY <1>4 DEF PopCopyLo, PopCopyHi, Goto
  <2>2. 0 \in Index /\ atail \in Index /\ count > 0
    BY <2>1, QueueLengthNat DEF Index, BasicInv, TypeOK, CountInv, PopPc
  <2>3. Filled(slots[atail])
    BY <2>1, <2>2, ReadSlotIsFilled, AtLap
  <2>4. QED
    BY <1>4, <2>3 DEF PopCopyLo, PopCopyHi, Goto, CopiedInv, Filled
<1>5. CASE PopStoreTail \/ PopSub
  BY <1>5 DEF PopStoreTail, PopSub, Goto, CopiedInv
<1>6. CASE PeekCopyLo \/ PeekCopyHi
  <2>1. apc \in {"peekLo", "peekHi"} /\ apos \in Index
    BY <1>6 DEF PeekCopyLo, PeekCopyHi, Goto, BasicInv, TypeOK
  <2>2. ~clash => apos < count
    BY <2>1 DEF QueueInv, AccessorInv
  <2>3. Filled(slots[At(atail, apos)])
    BY <2>1, <2>2, ReadSlotIsFilled
  <2>4. QED
    BY <1>6, <2>3 DEF PeekCopyLo, PeekCopyHi, Goto, CopiedInv, Filled
<1>7. CASE CallGetLatest \/ LatestCopyLo \/ LatestCopyHi
  BY <1>7 DEF CallGetLatest, LatestCopyLo, LatestCopyHi, Goto, CopiedInv
<1>8. QED
  BY <1>1, <1>2, <1>3, <1>4, <1>5, <1>6, <1>7 DEF Next, Application

-----------------------------------------------------------------------------
(* The theorems.                                                           *)

LEMMA QueueInvInit == Init => QueueInv
<1> SUFFICES ASSUME Init PROVE QueueInv
  OBVIOUS
<1> USE DEF Init, RingInit
<1>0. Occupancy = 0 /\ Pending = 0 /\ Removing = 0
  BY DEF Occupancy, Pending, Removing
<1>a. ~Overwriting
  BY Zenon DEF Overwriting
<1>1. Occupancy = 0 /\ Pending = 0 /\ Removing = 0 /\ ~Overwriting
  BY <1>0, <1>a
<1>2. QueueLength \in Nat \ {0} /\ 0 \in Index
  BY QueueLengthNat DEF Index
<1>3. CountMatches
  BY <1>1, <1>2, AtLap DEF CountMatches
<1>4. PushInv
  BY <1>1 DEF PushInv
<1>5. SlotsInv
  BY <1>1 DEF SlotsInv
<1>6. AccessorInv
  BY DEF AccessorInv
<1>7. HistoryInv
  BY <1>1 DEF HistoryInv, PopReturnsOldest
<1>8. QED
  BY <1>3, <1>4, <1>5, <1>6, <1>7 DEF QueueInv

LEMMA QueueInvStep == BasicInv /\ QueueInv /\ [Next]_vars => QueueInv'
<1> SUFFICES ASSUME BasicInv, QueueInv, [Next]_vars, ~clash' PROVE Matched'
  BY DEF QueueInv, Matched
<1>1. ~clash
  BY ClashIsSticky
<1>2. Matched
  BY <1>1 DEF QueueInv, Matched
<1>3. CASE BackgroundTask
  BY <1>1, <1>2, <1>3, MatchedPush
<1>4. CASE Application
  BY <1>1, <1>2, <1>4, MatchedAccessor
<1>5. CASE UNCHANGED vars
  <2>1. /\ UNCHANGED <<ring, recvVars, appVars, history>>
    BY <1>5 DEF vars
  <2>2. (Overwriting' <=> Overwriting) /\ (InQueueOp' <=> InQueueOp)
    BY <2>1 DEF Overwriting, InQueueOp, recvVars, appVars, history
  <2>3. Occupancy' = Occupancy /\ Pending' = Pending /\ Removing' = Removing
    BY <2>1 DEF Occupancy, Pending, Removing, recvVars, appVars, history
  <2>4. CountMatches'
    BY <1>2, <2>1, <2>3 DEF Matched, CountMatches, ring, history
  <2>5. PushInv'
    BY <1>2, <2>1, <2>2 DEF Matched, PushInv, ring, recvVars, appVars, history
  <2>6. SlotsInv'
    BY <1>2, <2>1, <2>2, <2>3 DEF Matched, SlotsInv, ring, recvVars, history
  <2>7. AccessorInv'
    BY <1>2, <2>1 DEF Matched, AccessorInv, ring, appVars, history
  <2>8. HistoryInv'
    BY <1>2, <2>1, <2>3 DEF Matched, HistoryInv, PopReturnsOldest, history
  <2>9. QED
    BY <2>4, <2>5, <2>6, <2>7, <2>8 DEF Matched
<1>6. QED
  BY <1>3, <1>4, <1>5 DEF Next

\* Between any two steps of the two threads the ring is what PUSH_FORCE and POP
\* make of it: the inductive invariant all the other results follow from.
THEOREM Inductive == Spec => [](TypeOK /\ IndInv)
<1> DEFINE Inv == BasicInv /\ WrittenInv /\ CopiedInv /\ QueueInv
<1>1. Init => Inv
  <2>1. Init => WrittenInv /\ CopiedInv
    BY QueueLengthNat DEF Init, RingInit, WrittenInv, CopiedInv, Pending, Index
  <2>2. QED
    BY <2>1, BasicInvInit, QueueInvInit
<1>2. Inv /\ [Next]_vars => Inv'
  BY BasicInvStep, WrittenInvStep, CopiedInvStep, QueueInvStep
<1>3. Inv => TypeOK /\ IndInv
  BY DEF BasicInv, IndInv
<1> HIDE DEF Inv
<1>4. QED
  BY <1>1, <1>2, <1>3, PTL DEF Spec

\* Pops return whole packets in the order of arrival, none twice, as long as no
\* push that found the ring full has overlapped an accessor.
THEOREM PopsStayInOrder == Spec => []PopsInOrder
<1>1. TypeOK /\ IndInv => PopsInOrder
  BY DEF IndInv, QueueInv, HistoryInv, PopsInOrder, PopReturnsOldest
<1>2. QED
  BY <1>1, Inductive, PTL

\* Under the same condition a packet that arrived has been popped, has been
\* overwritten at a full ring, or is counted.
THEOREM NothingIsLost == Spec => []NothingLost
<1>1. TypeOK /\ IndInv => NothingLost
  <2> SUFFICES ASSUME TypeOK, IndInv, ~clash, AtRest
               PROVE  sent = Len(popped) + lost + count
    BY DEF NothingLost
  <2>1. sent \in Nat /\ taken \in Nat /\ lost \in Nat /\ count \in Nat /\ Len(popped) \in Nat
    BY ModulusNat, MaxPacketsAssumption DEF TypeOK, RingTypeOK, U16
  <2>2. count = sent - taken /\ taken = Len(popped) + lost
    BY <2>1 DEF IndInv, QueueInv, CountMatches, HistoryInv, AtRest, Pending, Removing, Occupancy
  <2>3. QED
    BY <2>1, <2>2
<1>2. QED
  BY <1>1, Inductive, PTL

\* Under the same condition the ring holds the newest count packets, oldest at
\* tail.
THEOREM QueueHoldsTheNewest == Spec => []QueueHoldsNewest
<1>1. TypeOK /\ IndInv => QueueHoldsNewest
  <2> SUFFICES ASSUME TypeOK, IndInv, ~clash, AtRest
               PROVE  /\ count <= sent
                      /\ ~Overwriting => \A k \in 0 .. count - 1 :
                           slots[At(tail, k)] = Packet(sent - count + 1 + k)
    BY DEF QueueHoldsNewest
  <2>1. sent \in Nat /\ taken \in Nat /\ count \in Nat
    BY ModulusNat, MaxPacketsAssumption DEF TypeOK, RingTypeOK, U16
  <2>2. Occupancy = count /\ count = sent - taken
    BY <2>1 DEF IndInv, QueueInv, CountMatches, AtRest, Pending, Removing, Occupancy
  <2>3. ASSUME ~Overwriting, NEW k \in 0 .. count - 1
        PROVE  slots[At(tail, k)] = Packet(sent - count + 1 + k)
    <3>1. slots[At(tail, k)] = Packet(taken + k + 1)
      BY <2>2, <2>3 DEF IndInv, QueueInv, SlotsInv
    <3>2. taken + k + 1 = sent - count + 1 + k
      BY <2>1, <2>2
    <3>3. QED
      BY <3>1, <3>2
  <2>4. QED
    BY <2>1, <2>2, <2>3
<1>2. QED
  BY <1>1, Inductive, PTL

\* Under the same condition a peek at pos returns the packet pos places after
\* the oldest one.
THEOREM PeeksAreExact == Spec => PeekExact
<1>1. TypeOK /\ IndInv /\ [Next]_vars =>
        [(apc = "peekHi" /\ apc' = "idle" /\ ~clash) => out' = Packet(taken + apos + 1)]_vars
  <2> SUFFICES ASSUME TypeOK, IndInv, [Next]_vars, apc = "peekHi", apc' = "idle", ~clash
               PROVE  out' = Packet(taken + apos + 1)
    OBVIOUS
  <2>1. BasicInv /\ CountMatches /\ PushInv /\ SlotsInv /\ AccessorInv
    BY DEF IndInv, QueueInv, BasicInv
  <2>2. ~BackgroundTask
    BY DEF BackgroundTask, PushLoadHead, PushWriteLo, PushWriteHi, PushStoreHead, PushLoadCount,
      PushAdd, PushLoadTail, PushStoreTail, LastWriteLo, LastWriteHi, appVars
  <2>3. PeekCopyHi
    BY <2>2, Zenon DEF Next, Application, CallPop, CallGetFromQueue, CallGetAtIndex, Call, PopLoadCount,
      PopLoadTail, PopCopyLo, PopCopyHi, PopStoreTail, PopSub, PeekLoadCount, PeekLoadTail,
      PeekCopyLo, CallGetLatest, LatestCopyLo, LatestCopyHi, Goto, vars, appVars
  <2>4. out' = [lo |-> out.lo, hi |-> slots[At(tail, apos)].hi]
    BY <2>1, <2>3 DEF PeekCopyHi, AccessorInv
  <2>5. out.lo = taken + apos + 1 /\ apos < count
    BY <2>1 DEF AccessorInv
  <2>6. apos \in 0 .. Occupancy - 1
    <3>1. count + Pending = Occupancy /\ Pending \in 0 .. 1
      BY <2>1, Ranges DEF CountMatches, Removing, Pending
    <3>2. QED
      BY <2>1, <2>5, <3>1, Ranges DEF Index
  <2>7. ~Overwriting
    BY <2>1 DEF PushInv, InQueueOp, PeekPc
  <2>8. slots[At(tail, apos)] = Packet(taken + apos + 1)
    BY <2>1, <2>6, <2>7 DEF SlotsInv
  <2>9. QED
    BY <2>4, <2>5, <2>8 DEF Packet
<1>2. QED
  BY <1>1, Inductive, PTL DEF Spec, PeekExact

\* Whatever the two threads do, no accessor hands out memory that was never
\* written.
THEOREM OnlyReceivedAreReturned == Spec => []OnlyReceivedPackets
<1>1. TypeOK /\ IndInv => OnlyReceivedPackets
  BY DEF IndInv, CopiedInv, Filled, OnlyReceivedPackets
<1>2. QED
  BY <1>1, Inductive, PTL

-----------------------------------------------------------------------------
(* The sequences the abstract queue goes through: n consecutive numbers.   *)

Counting(g, n) == [k \in 1 .. n |-> g + k]

\* Such a sequence has n numbers, the kth of them g + k.
LEMMA CountingIsSeq ==
    ASSUME NEW g \in Nat, NEW n \in Nat
    PROVE  /\ Counting(g, n) \in Seq(Nat)
           /\ Len(Counting(g, n)) = n
           /\ \A k \in 1 .. n : Counting(g, n)[k] = g + k
           /\ n > 0 <=> Counting(g, n) # <<>>
<1>1. \A k \in 1 .. n : g + k \in Nat
  OBVIOUS
<1>2. Counting(g, n) \in Seq(Nat) /\ Len(Counting(g, n)) = n
  BY <1>1 DEF Counting
<1>3. \A k \in 1 .. n : Counting(g, n)[k] = g + k
  BY DEF Counting
<1>4. n > 0 <=> Counting(g, n) # <<>>
  BY <1>2, EmptySeq
<1>5. QED
  BY <1>2, <1>3, <1>4

\* The next packet joins at the end.
LEMMA CountingAppend ==
    ASSUME NEW g \in Nat, NEW n \in Nat
    PROVE  Append(Counting(g, n), g + n + 1) = Counting(g, n + 1)
<1> DEFINE s == Append(Counting(g, n), g + n + 1)
           t == Counting(g, n + 1)
<1>1. /\ s \in Seq(Nat) /\ Len(s) = n + 1
      /\ \A k \in 1 .. n : s[k] = g + k
      /\ s[n + 1] = g + n + 1
  <2>1. /\ Counting(g, n) \in Seq(Nat) /\ Len(Counting(g, n)) = n /\ g + n + 1 \in Nat
        /\ \A k \in 1 .. n : Counting(g, n)[k] = g + k
    BY CountingIsSeq
  <2>2. QED
    BY <2>1, AppendProperties
<1>2. t \in Seq(Nat) /\ Len(t) = n + 1 /\ \A k \in 1 .. n + 1 : t[k] = g + k
  BY CountingIsSeq
<1> HIDE DEF s, t
<1>3. ASSUME NEW k \in 1 .. n + 1 PROVE s[k] = t[k]
  BY <1>1, <1>2
<1>4. s = t
  BY <1>1, <1>2, <1>3, SeqEqual
<1>5. QED
  BY <1>4 DEF s, t

\* The oldest packet leaves at the front.
LEMMA CountingTail ==
    ASSUME NEW g \in Nat, NEW n \in Nat, n > 0
    PROVE  /\ Head(Counting(g, n)) = g + 1
           /\ Tail(Counting(g, n)) = Counting(g + 1, n - 1)
<1> DEFINE c == Counting(g, n)
           t == Counting(g + 1, n - 1)
<1>1. c \in Seq(Nat) /\ Len(c) = n /\ c # <<>> /\ \A k \in 1 .. n : c[k] = g + k
  BY CountingIsSeq
<1>2. t \in Seq(Nat) /\ Len(t) = n - 1 /\ \A k \in 1 .. n - 1 : t[k] = g + 1 + k
  BY CountingIsSeq, SMTT(30)
<1> HIDE DEF c, t
<1>3. /\ Tail(c) \in Seq(Nat) /\ Len(Tail(c)) = n - 1
      /\ \A k \in 1 .. n - 1 : Tail(c)[k] = c[k + 1]
  BY <1>1, HeadTailProperties
<1>4. ASSUME NEW k \in 1 .. n - 1 PROVE Tail(c)[k] = t[k]
  BY <1>1, <1>2, <1>3
<1>5. Tail(c) = t
  BY <1>2, <1>3, <1>4, SeqEqual
<1>6. Head(c) = c[1]
  BY <1>1
<1>7. Head(c) = g + 1
  BY <1>1, <1>6
<1>8. QED
  BY <1>5, <1>7 DEF c, t

-----------------------------------------------------------------------------
(* What the refinement mapping sees in a state.                            *)

AbsArrived ==
    IF PushPending THEN sent - 1
    ELSE IF full /\ rpc \in {"writeHi", "storeHead"} THEN sent + 1
    ELSE sent
AbsQueue == [k \in 1 .. QueuedCount |-> slots[At(QueuedFrom, k - 1)].lo]
AbsDelivered ==
    [k \in 1 .. Len(popped) + (IF apc = "popSub" THEN 1 ELSE 0) |->
        IF k <= Len(popped) THEN popped[k].lo ELSE out.lo]

\* The steps and the start of the abstract queue, in these terms.
LEMMA AbstractIs ==
    /\ Abstract!Init <=> AbsArrived = 0 /\ AbsQueue = <<>> /\ AbsDelivered = <<>>
    /\ Abstract!Arrive <=>
         /\ AbsArrived < MaxPackets
         /\ AbsArrived' = AbsArrived + 1
         /\ AbsQueue' = Append(IF Len(AbsQueue) < QueueLength THEN AbsQueue
                               ELSE Tail(AbsQueue), AbsArrived')
         /\ UNCHANGED AbsDelivered
    /\ Abstract!Pop <=>
         /\ AbsQueue # <<>>
         /\ AbsDelivered' = Append(AbsDelivered, Head(AbsQueue))
         /\ AbsQueue' = Tail(AbsQueue)
         /\ UNCHANGED AbsArrived
    /\ UNCHANGED <<AbsArrived, AbsQueue, AbsDelivered>> <=> UNCHANGED Abstract!queueVars
<1>1. Abstract!Init <=> AbsArrived = 0 /\ AbsQueue = <<>> /\ AbsDelivered = <<>>
  BY DEF Abstract!Init, AbsArrived, AbsQueue, AbsDelivered
<1>2. Abstract!Arrive <=>
         /\ AbsArrived < MaxPackets
         /\ AbsArrived' = AbsArrived + 1
         /\ AbsQueue' = Append(IF Len(AbsQueue) < QueueLength THEN AbsQueue
                               ELSE Tail(AbsQueue), AbsArrived')
         /\ UNCHANGED AbsDelivered
  BY DEF Abstract!Arrive, AbsArrived, AbsQueue, AbsDelivered
<1>3. Abstract!Pop <=>
         /\ AbsQueue # <<>>
         /\ AbsDelivered' = Append(AbsDelivered, Head(AbsQueue))
         /\ AbsQueue' = Tail(AbsQueue)
         /\ UNCHANGED AbsArrived
  BY DEF Abstract!Pop, AbsArrived, AbsQueue, AbsDelivered
<1>4. UNCHANGED <<AbsArrived, AbsQueue, AbsDelivered>> <=> UNCHANGED Abstract!queueVars
  BY DEF Abstract!queueVars, AbsArrived, AbsQueue, AbsDelivered
<1>5. QED
  BY <1>1, <1>2, <1>3, <1>4

\* Packets the abstract queue no longer holds: a push that overwrites the
\* oldest slot has dropped its packet before it moves tail.
Gone == IF Overwriting THEN taken + 1 ELSE taken

\* The numbers of the packets queued follow on from those gone, and end with
\* the last one that arrived.
Numbered ==
    /\ Gone \in Nat /\ QueuedCount \in Nat /\ QueuedCount <= QueueLength
    /\ AbsQueue = Counting(Gone, QueuedCount)
    /\ AbsArrived = Gone + QueuedCount

\* An invariant of the ring, whose proof is among those of the packet queue, says so.
LEMMA Abstraction == BasicInv /\ Matched => Numbered
<1> SUFFICES ASSUME BasicInv, Matched PROVE Numbered
  OBVIOUS
<1>r. /\ sent \in Nat /\ taken \in Nat /\ count \in Nat /\ count <= QueueLength
      /\ Occupancy \in Nat /\ Occupancy = sent - taken
      /\ head \in Index /\ tail \in Index /\ QueueLength \in Nat \ {0}
  BY Ranges, QueueLengthNat DEF Matched
<1>m. /\ count + Pending = Occupancy + Removing /\ head = At(tail, Occupancy)
      /\ Overwriting => count = QueueLength /\ apc # "popSub"
      /\ rpc \in {"loadTail", "storeTail"} => full
      /\ rpc = "add" => ~full
      /\ rpc = "writeHi" => slots[head].lo = sent + 1
      /\ rpc = "storeHead" => slots[head] = Packet(sent + 1)
      /\ \A k \in 0 .. Occupancy - 1 :
           (k = 0 /\ Overwriting) \/ slots[At(tail, k)] = Packet(taken + k + 1)
  BY DEF Matched, CountMatches, PushInv, SlotsInv
<1>1. CASE Overwriting
  <2>1. QueuedCount = QueueLength /\ Gone = taken + 1 /\ QueuedFrom = Succ(tail)
        /\ count = QueueLength /\ Removing = 0
    BY <1>1, <1>m DEF QueuedCount, Gone, QueuedFrom, Removing
  <2>2. full /\ rpc \in {"writeHi", "storeHead", "loadCount", "loadTail", "storeTail"}
    BY <1>1 DEF Overwriting
  <2>3. /\ rpc \in {"writeHi", "storeHead"} => Occupancy = QueueLength
        /\ rpc \notin {"writeHi", "storeHead"} => Occupancy = QueueLength + 1
    BY <1>r, <1>m, <2>1, <2>2 DEF Pending
  <2>4. ~PushPending
    BY <2>2 DEF PushPending
  <2>5. AbsArrived = Gone + QueuedCount
    BY <1>r, <2>1, <2>2, <2>3, <2>4 DEF AbsArrived
  <2>6. ASSUME NEW k \in 1 .. QueueLength
        PROVE  slots[At(QueuedFrom, k - 1)].lo = Gone + k
    <3>1. At(QueuedFrom, k - 1) = At(tail, k)
      <4>1. k - 1 \in 0 .. QueueLength /\ k - 1 + 1 = k
        BY <1>r
      <4>2. QED
        BY <1>r, <2>1, <4>1, AtOfSucc
    <3>2. CASE k < Occupancy
      <4>1. slots[At(tail, k)] = Packet(taken + k + 1)
        BY <1>r, <1>m, <3>2
      <4>2. QED
        BY <1>r, <2>1, <3>1, <4>1 DEF Packet
    <3>3. CASE k >= Occupancy
      <4>1. k = QueueLength /\ Occupancy = QueueLength /\ rpc \in {"writeHi", "storeHead"}
        BY <1>r, <2>3, <3>3
      <4>2. slots[head].lo = sent + 1
        BY <1>m, <4>1 DEF Packet
      <4>3. head = At(tail, k)
        BY <1>m, <4>1
      <4>4. QED
        BY <1>r, <2>1, <3>1, <4>1, <4>2, <4>3
    <3>4. QED
      BY <1>r, <3>2, <3>3
  <2>7. AbsQueue = Counting(Gone, QueuedCount)
    BY <2>1, <2>6 DEF AbsQueue, Counting
  <2>8. QED
    BY <1>r, <2>1, <2>5, <2>7 DEF Numbered
<1>2. CASE ~Overwriting
  <2>1. Gone = taken /\ QueuedFrom = tail
    BY <1>2 DEF Gone, QueuedFrom
  <2>2. QueuedCount = count - Removing /\ Removing \in 0 .. 1 /\ Pending \in 0 .. 1
    BY <1>r DEF QueuedCount, Removing, Pending
  <2>3. apc = "popSub" => count > 0
    BY DEF BasicInv, CountInv, PopPc
  <2>4. QueuedCount \in Nat /\ QueuedCount <= QueueLength /\ QueuedCount = Occupancy - Pending
    BY <1>r, <1>m, <2>2, <2>3 DEF Removing
  <2>5. Pending = 1 <=> PushPending
    BY <1>2, <1>m DEF Pending, PushPending, Overwriting
  <2>6. ~(full /\ rpc \in {"writeHi", "storeHead"})
    BY <1>2 DEF Overwriting
  <2>7. AbsArrived = Gone + QueuedCount
    BY <1>r, <2>1, <2>2, <2>4, <2>5, <2>6 DEF AbsArrived
  <2>8. ASSUME NEW k \in 1 .. QueuedCount
        PROVE  slots[At(QueuedFrom, k - 1)].lo = Gone + k
    <3>1. k - 1 \in 0 .. Occupancy - 1
      BY <1>r, <2>2, <2>4
    <3>2. slots[At(tail, k - 1)] = Packet(taken + (k - 1) + 1)
      BY <1>2, <1>m, <3>1
    <3>3. QED
      BY <1>r, <2>1, <3>1, <3>2 DEF Packet
  <2>9. AbsQueue = Counting(Gone, QueuedCount)
    BY <2>8 DEF AbsQueue, Counting
  <2>10. QED
    BY <2>1, <1>r, <2>4, <2>7, <2>9 DEF Numbered
<1>3. QED
  BY <1>1, <1>2

\* The same of the next state.
LEMMA AbstractionNext == (BasicInv /\ Matched)' => Numbered'
  BY Abstraction, PTL

-----------------------------------------------------------------------------
(* The steps.  All a step of the abstract queue changes is how many packets *)
(* are gone, how many are queued, and what was delivered.                  *)

\* The queue and the packets popped stay as they are.
Stutters == UNCHANGED <<Gone, QueuedCount, AbsDelivered>>

\* One packet more is queued; at a full ring the oldest one goes.
Arrives ==
    /\ AbsArrived < MaxPackets
    /\ IF QueuedCount < QueueLength
       THEN Gone' = Gone /\ QueuedCount' = QueuedCount + 1
       ELSE Gone' = Gone + 1 /\ QueuedCount' = QueuedCount
    /\ UNCHANGED AbsDelivered

\* The oldest packet is popped.
Pops ==
    /\ QueuedCount > 0
    /\ Gone' = Gone + 1 /\ QueuedCount' = QueuedCount - 1
    /\ AbsDelivered' = Append(AbsDelivered, Gone + 1)

\* Steps of these three kinds are steps of the abstract queue, or none.
LEMMA KindsRefine ==
    ASSUME Numbered, Numbered', Stutters \/ Arrives \/ Pops
    PROVE  [Abstract!Next]_(Abstract!queueVars)
<1>1. /\ Gone \in Nat /\ QueuedCount \in Nat /\ QueuedCount <= QueueLength
      /\ AbsQueue = Counting(Gone, QueuedCount)
      /\ AbsArrived = Gone + QueuedCount
  BY DEF Numbered
<1>2. /\ Gone' \in Nat /\ QueuedCount' \in Nat
      /\ AbsQueue' = Counting(Gone', QueuedCount')
      /\ AbsArrived' = Gone' + QueuedCount'
  BY DEF Numbered
<1>3. CASE Stutters
  <2>1. UNCHANGED <<AbsArrived, AbsQueue, AbsDelivered>>
    BY <1>1, <1>2, <1>3 DEF Stutters
  <2>2. QED
    BY <2>1, AbstractIs
<1>4. CASE Arrives
  <2>a. /\ QueuedCount < QueueLength => Gone' = Gone /\ QueuedCount' = QueuedCount + 1
        /\ ~(QueuedCount < QueueLength) => Gone' = Gone + 1 /\ QueuedCount' = QueuedCount
    BY <1>4 DEF Arrives
  <2>1. AbsArrived' = AbsArrived + 1
    <3>1. Gone' + QueuedCount' = Gone + QueuedCount + 1
      <4>1. Gone \in Nat /\ QueuedCount \in Nat
        BY <1>1
      <4>2. CASE QueuedCount < QueueLength
        BY <2>a, <4>1, <4>2
      <4>3. CASE ~(QueuedCount < QueueLength)
        BY <2>a, <4>1, <4>3
      <4>4. QED
        BY <4>2, <4>3
    <3>2. QED
      BY <1>1, <1>2, <3>1
  <2>2. Len(AbsQueue) = QueuedCount
    BY <1>1, CountingIsSeq
  <2>3. CASE QueuedCount < QueueLength
    <3>1. AbsQueue' = Append(AbsQueue, AbsArrived')
      <4>1. Append(Counting(Gone, QueuedCount), Gone + QueuedCount + 1)
              = Counting(Gone, QueuedCount + 1)
        BY <1>1, CountingAppend
      <4>2. AbsQueue' = Counting(Gone, QueuedCount + 1)
        BY <1>2, <2>3, <2>a
      <4>3. AbsArrived' = Gone + QueuedCount + 1
        BY <1>1, <2>1
      <4>4. QED
        BY <1>1, <4>1, <4>2, <4>3
    <3>2. QED
      BY <1>4, <2>1, <2>2, <2>3, <3>1, AbstractIs DEF Arrives, Abstract!Next
  <2>4. CASE ~(QueuedCount < QueueLength)
    <3>1. QueuedCount > 0
      BY <1>1, <2>4, QueueLengthNat
    <3>2. Tail(AbsQueue) = Counting(Gone + 1, QueuedCount - 1)
      BY <1>1, <3>1, CountingTail
    <3>3. Append(Counting(Gone + 1, QueuedCount - 1), Gone + 1 + (QueuedCount - 1) + 1)
            = Counting(Gone + 1, QueuedCount - 1 + 1)
      <4>1. Gone + 1 \in Nat /\ QueuedCount - 1 \in Nat
        BY <1>1, <3>1
      <4>2. QED
        BY <4>1, CountingAppend
    <3>4. /\ Gone + 1 + (QueuedCount - 1) + 1 = AbsArrived' /\ QueuedCount - 1 + 1 = QueuedCount'
          /\ Gone + 1 = Gone'
      BY <1>1, <1>2, <2>a, <2>1, <2>4
    <3>5. AbsQueue' = Append(Tail(AbsQueue), AbsArrived')
      BY <1>2, <3>2, <3>3, <3>4
    <3>6. QED
      BY <1>4, <2>1, <2>2, <2>4, <3>5, AbstractIs DEF Arrives, Abstract!Next
  <2>5. QED
    BY <2>3, <2>4
<1>5. CASE Pops
  <2>1. AbsArrived' = AbsArrived
    BY <1>1, <1>2, <1>5 DEF Pops
  <2>2. Head(AbsQueue) = Gone + 1 /\ Tail(AbsQueue) = AbsQueue'
    BY <1>1, <1>2, <1>5, CountingTail DEF Pops
  <2>3. AbsQueue # <<>>
    BY <1>1, <1>5, CountingIsSeq DEF Pops
  <2>4. QED
    BY <1>5, <2>1, <2>2, <2>3, AbstractIs DEF Pops, Abstract!Next
<1>6. QED
  BY <1>3, <1>4, <1>5

\* Steps that leave the packets popped alone, outside the two steps of a pop
\* that move tail and count, deliver nothing.
LEMMA DeliversNothing ==
    ASSUME UNCHANGED popped, apc # "popSub", apc' # "popSub"
    PROVE  AbsDelivered' = AbsDelivered
  BY DEF AbsDelivered

\* Each step of the background task is of the first two kinds.
LEMMA PushKinds ==
    ASSUME BasicInv, Matched, Numbered, ~clash, ~clash', BackgroundTask
    PROVE  Stutters \/ Arrives
<1>r. /\ sent \in Nat /\ taken \in Nat /\ count \in Nat /\ count <= QueueLength
      /\ QueueLength \in Nat \ {0} /\ QueuedCount \in Nat
  BY Ranges, QueueLengthNat DEF Matched, Numbered
<1>m. PushInv
  BY DEF Matched
<1>a. UNCHANGED appVars /\ UNCHANGED popped
  BY DEF BackgroundTask, PushLoadHead, PushWriteLo, PushWriteHi, PushStoreHead, PushLoadCount,
    PushAdd, PushLoadTail, PushStoreTail, LastWriteLo, LastWriteHi, history
<1>b. UNCHANGED AbsDelivered /\ apc' = apc
  BY <1>a DEF AbsDelivered, appVars
<1>1. CASE PushLoadHead \/ PushWriteHi \/ PushStoreHead \/ PushLoadCount \/ PushLoadTail
           \/ LastWriteLo \/ LastWriteHi
  <2>1. UNCHANGED <<taken, count, full>>
    BY <1>1 DEF PushLoadHead, PushWriteHi, PushStoreHead, PushLoadCount, PushLoadTail,
      LastWriteLo, LastWriteHi, WriteSlotHi, StoreHead, ring, history
  <2>2. CASE PushLoadCount
    <3>1. rpc = "loadCount" /\ (rpc' = IF count < QueueLength THEN "add" ELSE "loadTail")
      BY <2>2 DEF PushLoadCount
    <3>2. (full => count = QueueLength) /\ (~full => count < QueueLength)
      BY <1>m, <3>1 DEF PushInv, Overwriting
    <3>3. Overwriting' <=> Overwriting
      BY <1>r, <2>1, <3>1, <3>2 DEF Overwriting
    <3>4. QED
      BY <1>b, <2>1, <3>3 DEF Stutters, Gone, QueuedCount
  <2>3. CASE ~PushLoadCount
    <3>1. Overwriting' <=> Overwriting
      BY <1>1, <2>1, <2>3 DEF PushLoadHead, PushWriteHi, PushStoreHead, PushLoadTail,
        LastWriteLo, LastWriteHi, Overwriting
    <3>2. QED
      BY <1>b, <2>1, <3>1 DEF Stutters, Gone, QueuedCount
  <2>4. QED
    BY <2>2, <2>3
<1>2. CASE PushWriteLo
  <2>1. /\ UNCHANGED <<taken, count, sent>> /\ rpc = "writeLo" /\ rpc' = "writeHi"
        /\ full' <=> count = QueueLength
        /\ count = QueueLength => ~InQueueOp
    BY <1>2 DEF PushWriteLo, WriteSlotLo
  <2>2. ~Overwriting /\ (Overwriting' <=> count = QueueLength)
    BY <2>1 DEF Overwriting
  <2>3. QueuedCount' = QueuedCount /\ Gone = taken
    BY <1>b, <2>1, <2>2 DEF QueuedCount, Gone
  <2>4. CASE count = QueueLength
    <3>1. Gone' = Gone + 1
      BY <2>1, <2>2, <2>3, <2>4 DEF Gone
    <3>2. QueuedCount = QueueLength
      BY <2>1, <2>4 DEF QueuedCount, InQueueOp, PopPc
    <3>3. AbsArrived = sent /\ sent < MaxPackets
      BY <2>1 DEF AbsArrived, PushPending, BasicInv, CountInv
    <3>4. Arrives
      BY <1>b, <1>r, <2>3, <3>1, <3>2, <3>3 DEF Arrives
    <3>5. QED
      BY <3>4
  <2>5. CASE count # QueueLength
    <3>1. Gone' = Gone
      BY <2>1, <2>2, <2>5 DEF Gone
    <3>2. QED
      BY <1>b, <2>3, <3>1 DEF Stutters
  <2>6. QED
    BY <2>4, <2>5
<1>3. CASE PushAdd
  <2>1. /\ UNCHANGED <<taken, sent, full>> /\ rpc = "add" /\ rpc' = "lastLo"
        /\ count' = (count + 1) % Modulus
    BY <1>3 DEF PushAdd, IncCount, history
  <2>2. ~full /\ count < QueueLength /\ count \in U16
    BY <1>m, <2>1 DEF PushInv, BasicInv, CountInv, TypeOK, RingTypeOK
  <2>3. count' = count + 1
    BY <1>r, <2>1, <2>2, NoWrap, ModulusNat, QueueLengthNat
  <2>4. ~Overwriting /\ ~Overwriting'
    BY <2>1 DEF Overwriting
  <2>5. Gone' = Gone
    BY <2>1, <2>4 DEF Gone
  <2>6. QueuedCount' = QueuedCount + 1 /\ QueuedCount < QueueLength
    BY <1>b, <1>r, <2>2, <2>3 DEF QueuedCount
  <2>7. AbsArrived < MaxPackets
    <3>1. AbsArrived = sent - 1 /\ sent \in 0 .. MaxPackets
      BY <2>1, <2>2 DEF AbsArrived, PushPending, BasicInv, TypeOK
    <3>2. QED
      BY <3>1, MaxPacketsAssumption
  <2>8. Arrives
    BY <1>b, <2>5, <2>6, <2>7 DEF Arrives
  <2>9. QED
    BY <2>8
<1>4. CASE PushStoreTail
  <2>1. /\ UNCHANGED <<count, full>> /\ taken' = taken + 1
        /\ rpc = "storeTail" /\ rpc' = "lastLo"
    BY <1>4 DEF PushStoreTail, StoreTail
  <2>2. Overwriting /\ ~Overwriting'
    BY <1>m, <2>1 DEF PushInv, Overwriting
  <2>3. QED
    BY <1>b, <2>1, <2>2 DEF Stutters, Gone, QueuedCount
<1>5. QED
  BY <1>1, <1>2, <1>3, <1>4 DEF BackgroundTask

\* A pop delivers when it stores tail ...
LEMMA StoreTailPops ==
    ASSUME BasicInv, Matched, Numbered, ~clash, PopStoreTail
    PROVE  Pops
<1>r. taken \in Nat /\ count \in Nat /\ QueuedCount \in Nat /\ popped \in Seq(Slot)
  BY Ranges DEF Matched, Numbered, BasicInv, TypeOK
<1>1. /\ UNCHANGED <<count, out, popped, rpc, full>> /\ taken' = taken + 1
      /\ apc = "popStore" /\ apc' = "popSub"
  BY DEF PopStoreTail, StoreTail, Goto, recvVars
<1>2. ~Overwriting /\ ~Overwriting'
  BY <1>1 DEF Matched, PushInv, InQueueOp, PopPc, Overwriting
<1>3. Gone = taken /\ Gone' = Gone + 1
  BY <1>1, <1>2 DEF Gone
<1>4. QueuedCount = count /\ QueuedCount' = count - 1 /\ count > 0
  BY <1>1 DEF QueuedCount, BasicInv, CountInv, PopPc
<1>5. out = Packet(Gone + 1)
  BY <1>1, <1>3 DEF Matched, AccessorInv
<1>6. PICK n \in Nat : n = Len(popped)
  BY <1>r, LenProperties
<1>7. AbsDelivered = [k \in 1 .. n |-> popped[k].lo]
  BY <1>1, <1>6 DEF AbsDelivered
<1>8. AbsDelivered' = [k \in 1 .. n + 1 |-> IF k <= n THEN popped[k].lo ELSE Gone + 1]
  BY <1>1, <1>5, <1>6 DEF AbsDelivered, Packet
<1>9. AbsDelivered' = Append(AbsDelivered, Gone + 1)
  <2>1. \A k \in 1 .. n : popped[k].lo \in Nat
    <3>1. ASSUME NEW k \in 1 .. n PROVE popped[k] \in Slot
      BY <1>r, <1>6, ElementOfSeq
    <3>2. \A p \in Slot : p.lo \in Nat
      BY MaxPacketsAssumption DEF Slot
    <3>3. QED
      BY <3>1, <3>2
  <2>2. /\ AbsDelivered \in Seq(Nat) /\ Len(AbsDelivered) = n
        /\ \A k \in 1 .. n : AbsDelivered[k] = popped[k].lo
    BY <1>6, <1>7, <2>1
  <2>3. Gone + 1 \in Nat
    BY <1>r, <1>3
  <2>4. /\ AbsDelivered' \in Seq(Nat) /\ Len(AbsDelivered') = n + 1
        /\ \A k \in 1 .. n : AbsDelivered'[k] = popped[k].lo
        /\ AbsDelivered'[n + 1] = Gone + 1
    BY <1>6, <1>8, <2>1, <2>3
  <2>5. /\ Append(AbsDelivered, Gone + 1) \in Seq(Nat)
        /\ Len(Append(AbsDelivered, Gone + 1)) = n + 1
        /\ \A k \in 1 .. n : Append(AbsDelivered, Gone + 1)[k] = AbsDelivered[k]
        /\ Append(AbsDelivered, Gone + 1)[n + 1] = Gone + 1
    BY <2>2, <2>3, AppendProperties
  <2>6. ASSUME NEW k \in 1 .. n + 1
        PROVE  AbsDelivered'[k] = Append(AbsDelivered, Gone + 1)[k]
    BY <1>6, <2>2, <2>4, <2>5
  <2>7. QED
    BY <2>4, <2>5, <2>6, SeqEqual
<1>10. QED
  BY <1>3, <1>4, <1>9 DEF Pops

\* ... and its last step, which counts the packet out, changes nothing more.
LEMMA SubStutters ==
    ASSUME BasicInv, PopSub
    PROVE  Stutters
<1>1. /\ UNCHANGED <<out, taken, rpc, full>> /\ popped' = Append(popped, out)
      /\ apc = "popSub" /\ apc' = "idle" /\ count' = (count + Modulus - 1) % Modulus
  BY DEF PopSub, DecCount, Goto, recvVars
<1>2. count \in U16 /\ count > 0 /\ popped \in Seq(Slot) /\ out \in Slot
  BY <1>1 DEF BasicInv, TypeOK, RingTypeOK, CountInv, PopPc
<1>3. count' = count - 1
  BY <1>1, <1>2, NoWrap
<1>4. QueuedCount' = QueuedCount
  BY <1>1, <1>3 DEF QueuedCount
<1>5. Gone' = Gone
  BY <1>1 DEF Gone, Overwriting
<1>6. PICK n \in Nat : n = Len(popped)
  BY <1>2, LenProperties
<1>7. /\ Len(popped') = n + 1 /\ popped'[n + 1] = out
      /\ \A k \in 1 .. n : popped'[k] = popped[k]
  BY <1>1, <1>2, <1>6, AppendProperties
<1>8. AbsDelivered' = [k \in 1 .. n + 1 |-> popped'[k].lo]
  BY <1>1, <1>6, <1>7 DEF AbsDelivered
<1>9. AbsDelivered = [k \in 1 .. n + 1 |-> IF k <= n THEN popped[k].lo ELSE out.lo]
  BY <1>1, <1>6 DEF AbsDelivered
<1>10. ASSUME NEW k \in 1 .. n + 1
       PROVE  popped'[k].lo = IF k <= n THEN popped[k].lo ELSE out.lo
  BY <1>6, <1>7
<1>11. AbsDelivered' = AbsDelivered
  BY <1>8, <1>9, <1>10
<1>12. QED
  BY <1>4, <1>5, <1>11 DEF Stutters

\* Each step of the application is of the first or the third kind.
LEMMA AccessorKinds ==
    ASSUME BasicInv, Matched, Numbered, ~clash, Application
    PROVE  Stutters \/ Pops
<1>1. CASE CallPop \/ (\E pos \in Index : CallGetFromQueue(pos) \/ CallGetAtIndex(pos))
  <2>1. /\ UNCHANGED <<ring, recvVars, taken, popped, full>>
        /\ apc = "idle" /\ apc' # "popSub"
    BY <1>1 DEF CallPop, CallGetFromQueue, CallGetAtIndex, Call
  <2>2. QED
    BY <2>1, DeliversNothing DEF Stutters, Gone, QueuedCount, Overwriting, ring, recvVars
<1>2. CASE PopLoadCount \/ PopLoadTail \/ PopCopyLo \/ PopCopyHi
  <2>1. /\ UNCHANGED <<ring, recvVars, history>>
        /\ apc # "popSub" /\ apc' # "popSub"
    BY <1>2 DEF PopLoadCount, PopLoadTail, PopCopyLo, PopCopyHi, Goto
  <2>2. QED
    BY <2>1, DeliversNothing
    DEF Stutters, Gone, QueuedCount, Overwriting, ring, recvVars, history
<1>3. CASE PeekLoadCount \/ PeekLoadTail \/ PeekCopyLo \/ PeekCopyHi
           \/ CallGetLatest \/ LatestCopyLo \/ LatestCopyHi
  <2>1. /\ UNCHANGED <<ring, recvVars, history>>
        /\ apc # "popSub" /\ apc' # "popSub"
    BY <1>3 DEF PeekLoadCount, PeekLoadTail, PeekCopyLo, PeekCopyHi, CallGetLatest,
      LatestCopyLo, LatestCopyHi, Goto
  <2>2. QED
    BY <2>1, DeliversNothing
    DEF Stutters, Gone, QueuedCount, Overwriting, ring, recvVars, history
<1>4. QED
  BY <1>1, <1>2, <1>3, StoreTailPops, SubStutters DEF Application

-----------------------------------------------------------------------------
(* The theorem.                                                            *)

\* The empty ring is the empty queue.
LEMMA InitRefines == Init => Abstract!Init
<1> SUFFICES ASSUME Init PROVE Abstract!Init
  OBVIOUS
<1>1. count = 0 /\ rpc = "idle" /\ apc = "idle" /\ sent = 0 /\ popped = <<>>
  BY DEF Init, RingInit
<1>2. AbsArrived = 0
  BY <1>1 DEF AbsArrived, PushPending
<1>3. AbsQueue = <<>>
  BY <1>1 DEF AbsQueue, QueuedCount
<1>4. AbsDelivered = <<>>
  BY <1>1 DEF AbsDelivered
<1>5. QED
  BY <1>2, <1>3, <1>4, AbstractIs

\* Every step up to the first clash is a step of the abstract queue, or none.
LEMMA StepRefines ==
    TypeOK /\ IndInv /\ (TypeOK /\ IndInv)' /\ [Next]_vars =>
        [~clash' => [Abstract!Next]_(Abstract!queueVars)]_vars
<1> SUFFICES ASSUME TypeOK, IndInv, TypeOK', IndInv', Next, ~clash'
             PROVE  [Abstract!Next]_(Abstract!queueVars)
  OBVIOUS
<1>1. ~clash
  BY ClashIsSticky
<1>2. BasicInv /\ Matched
  BY <1>1 DEF BasicInv, IndInv, QueueInv, Matched
<1>3. BasicInv' /\ Matched'
  BY DEF BasicInv, IndInv, QueueInv, Matched
<1>4. Numbered
  BY <1>2, Abstraction
<1>5. Numbered'
  <2>1. (BasicInv /\ Matched)' => Numbered'
    BY AbstractionNext
  <2>2. QED
    BY <1>3, <2>1
<1>6. Stutters \/ Arrives \/ Pops
  BY <1>1, <1>2, <1>4, PushKinds, AccessorKinds DEF Next
<1>7. QED
  BY <1>4, <1>5, <1>6, KindsRefine

\* PUSH_FORCE and POP, taken apart into their atomic steps, implement the queue
\* that drops its oldest packet, up to the first overwriting push that overlaps
\* an accessor.
THEOREM RefinesDropOldest == Spec => ImplementsDropOldest
<1>1. TypeOK /\ IndInv /\ (TypeOK /\ IndInv)' /\ [Next]_vars =>
        [~clash' => [Abstract!Next]_(Abstract!queueVars)]_vars
  BY StepRefines
<1>2. QED
  BY <1>1, Inductive, InitRefines, PTL DEF Spec, ImplementsDropOldest
=============================================================================
