----------------------------- MODULE RingBuffer -----------------------------
(***************************************************************************)
(* The ring of include/FS_Trifecta_Defs_Ringbuffer.h: an array of          *)
(* QueueLength slots and three atomic 16-bit words, head, tail and count.  *)
(* Every atomic access of the macros is one step here, and a slot is       *)
(* copied in two halves: the element is a struct of many words and nothing *)
(* makes its assignment atomic.  The modules that use a ring give each     *)
(* thread a program counter and string these steps together.               *)
(***************************************************************************)
EXTENDS Integers

CONSTANTS QueueLength,  \* FS_MAX_PACKET_QUEUE_LENGTH, slots in the ring
          MaxPackets    \* bound: packets that arrive; packets are numbered 1..MaxPackets

\* uint16_t, the type of head, tail and count.
Modulus == 65536
U16 == 0 .. Modulus - 1

\* A full ring's count must fit its word.
ASSUME QueueLengthAssumption == QueueLength \in U16 \ {0}
ASSUME MaxPacketsAssumption  == MaxPackets \in Nat

VARIABLES head, tail, count, slots

ring == <<head, tail, count, slots>>

Index == 0 .. QueueLength - 1

\* A stored element.  Packet(n) is the nth packet that arrived; Packet(0) is
\* the zeroed memory a fresh handle is made of.
Slot == [lo : 0 .. MaxPackets, hi : 0 .. MaxPackets]
Packet(n) == [lo |-> n, hi |-> n]

\* Bug: an index is not wrapped around.
SuccNoWrap(i) == i + 1

Succ(i) == (i + 1) % QueueLength
At(t, k) == (t + k) % QueueLength

RingTypeOK ==
    /\ head \in Index
    /\ tail \in Index
    /\ count \in U16
    /\ slots \in [Index -> Slot]

RingInit ==
    /\ head = 0
    /\ tail = 0
    /\ count = 0
    /\ slots = [i \in Index |-> Packet(0)]

\* The steps that change the ring.
WriteSlotLo(i, n) ==
    slots' = [slots EXCEPT ![i] = [lo |-> n, hi |-> slots[i].hi]] /\ UNCHANGED <<head, tail, count>>
WriteSlotHi(i, n) ==
    slots' = [slots EXCEPT ![i] = [lo |-> slots[i].lo, hi |-> n]] /\ UNCHANGED <<head, tail, count>>
StoreHead(i) == head' = i /\ UNCHANGED <<tail, count, slots>>
StoreTail(i) == tail' = i /\ UNCHANGED <<head, count, slots>>
IncCount == count' = (count + 1) % Modulus /\ UNCHANGED <<head, tail, slots>>
DecCount == count' = (count + Modulus - 1) % Modulus /\ UNCHANGED <<head, tail, slots>>
=============================================================================
