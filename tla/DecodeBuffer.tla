---------------------------- MODULE DecodeBuffer ----------------------------
(***************************************************************************)
(* Where the bytes of a packet live between the wire and the queue, in a   *)
(* process that drives several devices, each with a thread of its own.     *)
(*                                                                         *)
(* base64_to_packet, which the serial threads run, decodes into the one    *)
(* static current_decode_buffer of FS_Trifecta_Device_Utils.c;             *)
(* segment_packets, which the network threads run, copies into a local.    *)
(* fs_enqueue_into_packet_queue then reads that buffer twice, for the slot *)
(* of the queue and for last_received_packet.  No lock is taken.  A packet *)
(* is written and read in two halves, and the queue is its newest slot.    *)
(***************************************************************************)
EXTENDS Naturals

CONSTANTS Devices,      \* the device handles
          Serial,       \* the ones in mode UART or USB_CDC; they send Base64 frames
          MaxFrames     \* bound: frames a device sends

ASSUME DevicesAssumption == Serial \subseteq Devices /\ MaxFrames \in Nat

VARIABLES
    shared,     \* current_decode_buffer
    pkt,        \* the local pkt of segment_packets, by device
    slot,       \* the newest slot of packet_buf_queue, by device
    received,   \* last_received_packet, by device
    at,         \* where the device's thread is
    frames,     \* the number of the frame it handles or has handled
    \* History:
    kept,       \* the number of the last frame it queued, 0 if none
    disturbed   \* the frames during whose handling another thread wrote the same buffer

decodeVars == <<shared, pkt, slot, received, at, frames, kept, disturbed>>

\* Half of the nth frame of d; frame 0 is zeroed memory.
Half(d, n)  == <<d, n>>
Whole(d, n) == [lo |-> Half(d, n), hi |-> Half(d, n)]
Halves == Devices \X (0 .. MaxFrames)
Packets == [lo : Halves, hi : Halves]

Pcs == {"idle", "decodeHi", "checkType", "slotLo", "slotHi", "lastLo", "lastHi"}

\* Bug: the network threads decode into the static buffer as well.
BufferShared(d) == shared

\* The buffer that d's thread passes to fs_enqueue_into_packet_queue.
Buffer(d) == IF d \in Serial THEN shared ELSE pkt[d]

\* Whoever handles a frame in the same buffer is disturbed.
Write(d, p) ==
    IF d \in Serial
    THEN /\ shared' = p
         /\ disturbed' = disturbed \cup
                {Half(e, frames[e]) : e \in {s \in Serial \ {d} : at[s] # "idle"}}
         /\ UNCHANGED pkt
    ELSE pkt' = [pkt EXCEPT ![d] = p] /\ UNCHANGED <<shared, disturbed>>

Advance(d, from, to) == at[d] = from /\ at' = [at EXCEPT ![d] = to]

DecodeInit ==
    /\ shared \in {Whole(d, 0) : d \in Devices}
    /\ pkt = [d \in Devices |-> Whole(d, 0)]
    /\ slot = [d \in Devices |-> Whole(d, 0)]
    /\ received = [d \in Devices |-> Whole(d, 0)]
    /\ at = [d \in Devices |-> "idle"]
    /\ frames = [d \in Devices |-> 0]
    /\ kept = [d \in Devices |-> 0] /\ disturbed = {}

-----------------------------------------------------------------------------

\* A frame has arrived; its first half is decoded or copied.
DecodeLo(d) ==
    /\ frames[d] < MaxFrames
    /\ Advance(d, "idle", "decodeHi")
    /\ frames' = [frames EXCEPT ![d] = frames[d] + 1]
    /\ Write(d, [lo |-> Half(d, frames[d] + 1), hi |-> Buffer(d).hi])
    /\ UNCHANGED <<slot, received, kept>>

DecodeHi(d) ==
    /\ Advance(d, "decodeHi", "checkType")
    /\ Write(d, [lo |-> Buffer(d).lo, hi |-> Half(d, frames[d])])
    /\ UNCHANGED <<slot, received, frames, kept>>

\* A character that is not Base64 ends the decoding half-way.
DecodeFails(d) ==
    /\ d \in Serial
    /\ Advance(d, "decodeHi", "idle")
    /\ UNCHANGED <<shared, pkt, slot, received, frames, kept, disturbed>>

\* obtain_packet_length does not know the type.
RejectType(d) ==
    /\ Advance(d, "checkType", "idle")
    /\ UNCHANGED <<shared, pkt, slot, received, frames, kept, disturbed>>

AcceptType(d) ==
    /\ Advance(d, "checkType", "slotLo")
    /\ UNCHANGED <<shared, pkt, slot, received, frames, kept, disturbed>>

\* fs_enqueue_into_packet_queue: FS_RINGBUFFER_PUSH_FORCE assigns a slot ...
SlotLo(d) ==
    /\ Advance(d, "slotLo", "slotHi")
    /\ slot' = [slot EXCEPT ![d] = [lo |-> Buffer(d).lo, hi |-> slot[d].hi]]
    /\ UNCHANGED <<shared, pkt, received, frames, kept, disturbed>>

SlotHi(d) ==
    /\ Advance(d, "slotHi", "lastLo")
    /\ slot' = [slot EXCEPT ![d] = [lo |-> slot[d].lo, hi |-> Buffer(d).hi]]
    /\ UNCHANGED <<shared, pkt, received, frames, kept, disturbed>>

\* ... and the memcpy reads the packet a second time.
LastLo(d) ==
    /\ Advance(d, "lastLo", "lastHi")
    /\ received' = [received EXCEPT ![d] = [lo |-> Buffer(d).lo, hi |-> received[d].hi]]
    /\ UNCHANGED <<shared, pkt, slot, frames, kept, disturbed>>

LastHi(d) ==
    /\ Advance(d, "lastHi", "idle")
    /\ received' = [received EXCEPT ![d] = [lo |-> received[d].lo, hi |-> Buffer(d).hi]]
    /\ kept' = [kept EXCEPT ![d] = frames[d]]
    /\ UNCHANGED <<shared, pkt, slot, frames, disturbed>>

DecodeNext ==
    \E d \in Devices :
        \/ DecodeLo(d) \/ DecodeHi(d) \/ DecodeFails(d)
        \/ RejectType(d) \/ AcceptType(d)
        \/ SlotLo(d) \/ SlotHi(d) \/ LastLo(d) \/ LastHi(d)

DecodeSpec == DecodeInit /\ [][DecodeNext]_decodeVars

-----------------------------------------------------------------------------
(* Properties.                                                             *)

DecodeTypeOK ==
    /\ shared \in Packets
    /\ pkt \in [Devices -> Packets]
    /\ slot \in [Devices -> Packets]
    /\ received \in [Devices -> Packets]
    /\ at \in [Devices -> Pcs]
    /\ frames \in [Devices -> 0 .. MaxFrames]
    /\ kept \in [Devices -> 0 .. MaxFrames]
    /\ disturbed \subseteq Halves

Undisturbed(d) == Half(d, frames[d]) \notin disturbed

\* Whose frames may get into the packets of d.
Sources(d) == IF d \in Serial THEN Serial ELSE {d}
From(p, S) == p.lo[1] \in S /\ p.hi[1] \in S

\* However the threads of any number of serial and network devices interleave: between
\* two frames, a device's queue and its last_received_packet hold the frame it kept
\* last, whole, whatever frames have since been refused half-way, unless another serial
\* thread decoded while that frame was handled.  Even then what is mixed are frames of
\* serial devices; a network device never loses a packet nor gets another's.
OwnPackets ==
    \A d \in Devices :
        /\ at[d] = "idle" =>
             \/ slot[d] = Whole(d, kept[d]) /\ received[d] = Whole(d, kept[d])
             \/ Half(d, kept[d]) \in disturbed /\ d \in Serial /\ Serial # {d}
        /\ From(slot[d], Sources(d)) /\ From(received[d], Sources(d))

\* Violated by the code: last_received_packet is the most recent packet from the device
\* (FS_Trifecta_Defs.h:127), when no thread is writing it.
LastIsFromDevice == \A d \in Devices : at[d] # "lastHi" => From(received[d], {d})

\* What a thread relies on while it handles a frame: the inductive
\* invariant of which OwnPackets is a part.
BufferOwned ==
    \A d \in Devices : Undisturbed(d) =>
        /\ at[d] = "decodeHi" => Buffer(d).lo = Half(d, frames[d])
        /\ at[d] \in Pcs \ {"idle", "decodeHi"} => Buffer(d) = Whole(d, frames[d])
SlotOwned ==
    \A d \in Devices :
        /\ at[d] \in {"idle", "decodeHi", "checkType", "slotLo"} =>
             slot[d] = Whole(d, kept[d]) \/ Half(d, kept[d]) \in disturbed
        /\ Undisturbed(d) =>
             /\ at[d] = "slotHi" => slot[d].lo = Half(d, frames[d])
             /\ at[d] \in {"lastLo", "lastHi"} => slot[d] = Whole(d, frames[d])
LastOwned ==
    \A d \in Devices :
        /\ at[d] # "lastHi" => received[d] = Whole(d, kept[d]) \/ Half(d, kept[d]) \in disturbed
        /\ at[d] = "lastHi" /\ Undisturbed(d) => received[d].lo = Half(d, frames[d])
\* Where the halves come from, and which frames are disturbed.
FromSources ==
    /\ \A half \in disturbed : half[1] \in Serial /\ Serial # {half[1]}
    /\ \A d \in Devices :
         /\ at[d] # "idle" => Buffer(d).lo[1] \in Sources(d)
         /\ at[d] \notin {"idle", "decodeHi"} => Buffer(d).hi[1] \in Sources(d)
         /\ From(slot[d], Sources(d)) /\ From(received[d], Sources(d))
IInv == DecodeTypeOK /\ BufferOwned /\ SlotOwned /\ LastOwned /\ FromSources
=============================================================================
