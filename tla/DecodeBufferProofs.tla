------------------------- MODULE DecodeBufferProofs -------------------------
(***************************************************************************)
(* Proofs about DecodeBuffer: what a device's packets are made of, for     *)
(* any number of serial and network devices and of frames.                 *)
(***************************************************************************)
EXTENDS DecodeBuffer, TLAPS

\* The buffer that a device's thread uses, typed.
LEMMA BufferType ==
    ASSUME DecodeTypeOK, NEW d \in Devices
    PROVE  Buffer(d) \in Packets
  BY DEF DecodeTypeOK, Buffer

\* A step of Write changes the writer's buffer to p, and another device's only if both
\* are serial, which disturbs the frame that is being handled there, and no other.
LEMMA WriteEffect ==
    ASSUME DecodeTypeOK, NEW d \in Devices, NEW p \in Packets, Write(d, p)
    PROVE  /\ shared' \in Packets /\ pkt' \in [Devices -> Packets]
           /\ disturbed \subseteq disturbed' /\ disturbed' \subseteq Halves
           /\ Buffer(d)' = p
           /\ \A e \in Devices : e # d /\ Buffer(e)' # Buffer(e) =>
                /\ d \in Serial /\ e \in Serial /\ Buffer(e)' = p
                /\ at[e] # "idle" => Half(e, frames[e]) \in disturbed'
           /\ \A half \in disturbed' \ disturbed :
                d \in Serial /\ half[1] \in Serial \ {d}
<1>1. \A e \in Devices : Half(e, frames[e]) \in Halves /\ Half(e, frames[e])[1] = e
  BY DEF DecodeTypeOK, Half, Halves
<1>2. CASE d \in Serial
  BY <1>1, <1>2, DevicesAssumption DEF DecodeTypeOK, Buffer, Write
<1>3. CASE d \notin Serial
  BY <1>3, DevicesAssumption DEF DecodeTypeOK, Buffer, Write
<1> QED
  BY <1>2, <1>3

\* What a half and a packet are.
LEMMA Halved ==
    ASSUME NEW d \in Devices, NEW n \in 0 .. MaxFrames
    PROVE  Half(d, n) \in Halves /\ Whole(d, n) \in Packets
  BY DEF Half, Whole, Halves, Packets

\* The types hold of every step.
LEMMA TypeStep ==
    ASSUME DecodeTypeOK, [DecodeNext]_decodeVars
    PROVE  DecodeTypeOK'
<1>1. CASE UNCHANGED decodeVars
  BY <1>1 DEF DecodeTypeOK, decodeVars
<1>2. ASSUME NEW d \in Devices, DecodeLo(d)  PROVE DecodeTypeOK'
  <2>1. frames[d] + 1 \in 0 .. MaxFrames
    BY <1>2, DevicesAssumption DEF DecodeLo, DecodeTypeOK
  <2>2. [lo |-> Half(d, frames[d] + 1), hi |-> Buffer(d).hi] \in Packets
    BY <2>1, BufferType, Halved DEF Packets
  <2>3. shared' \in Packets /\ pkt' \in [Devices -> Packets] /\ disturbed' \subseteq Halves
    BY <1>2, <2>2, WriteEffect DEF DecodeLo
  <2>4. frames' \in [Devices -> 0 .. MaxFrames]
    BY <1>2, <2>1 DEF DecodeLo, DecodeTypeOK
  <2> QED
    BY <1>2, <2>3, <2>4 DEF DecodeLo, Advance, DecodeTypeOK, Pcs
<1>3. ASSUME NEW d \in Devices, DecodeHi(d)  PROVE DecodeTypeOK'
  <2>1. [lo |-> Buffer(d).lo, hi |-> Half(d, frames[d])] \in Packets
    BY BufferType, Halved DEF Packets, DecodeTypeOK
  <2>2. shared' \in Packets /\ pkt' \in [Devices -> Packets] /\ disturbed' \subseteq Halves
    BY <1>3, <2>1, WriteEffect DEF DecodeHi
  <2> QED
    BY <1>3, <2>2 DEF DecodeHi, Advance, DecodeTypeOK, Pcs
<1>4. ASSUME NEW d \in Devices, DecodeFails(d) \/ RejectType(d) \/ AcceptType(d)
      PROVE  DecodeTypeOK'
  BY <1>4 DEF DecodeFails, RejectType, AcceptType, Advance, DecodeTypeOK, Pcs
<1>5. ASSUME NEW d \in Devices, SlotLo(d)  PROVE DecodeTypeOK'
  <2>1. [lo |-> Buffer(d).lo, hi |-> slot[d].hi] \in Packets
    BY BufferType DEF Packets, DecodeTypeOK
  <2> QED
    BY <1>5, <2>1 DEF SlotLo, Advance, DecodeTypeOK, Pcs
<1>6. ASSUME NEW d \in Devices, SlotHi(d)  PROVE DecodeTypeOK'
  <2>1. [lo |-> slot[d].lo, hi |-> Buffer(d).hi] \in Packets
    BY BufferType DEF Packets, DecodeTypeOK
  <2> QED
    BY <1>6, <2>1 DEF SlotHi, Advance, DecodeTypeOK, Pcs
<1>7. ASSUME NEW d \in Devices, LastLo(d)  PROVE DecodeTypeOK'
  <2>1. [lo |-> Buffer(d).lo, hi |-> received[d].hi] \in Packets
    BY BufferType DEF Packets, DecodeTypeOK
  <2> QED
    BY <1>7, <2>1 DEF LastLo, Advance, DecodeTypeOK, Pcs
<1>8. ASSUME NEW d \in Devices, LastHi(d)  PROVE DecodeTypeOK'
  <2>1. [lo |-> received[d].lo, hi |-> Buffer(d).hi] \in Packets
    BY BufferType DEF Packets, DecodeTypeOK
  <2> QED
    BY <1>8, <2>1 DEF LastHi, Advance, DecodeTypeOK, Pcs
<1> QED
  BY <1>1, <1>2, <1>3, <1>4, <1>5, <1>6, <1>7, <1>8 DEF DecodeNext

\* BufferOwned, SlotOwned and LastOwned, for one device.
Owned(d) ==
    /\ Undisturbed(d) =>
         /\ at[d] = "decodeHi" => Buffer(d).lo = Half(d, frames[d])
         /\ at[d] \in Pcs \ {"idle", "decodeHi"} => Buffer(d) = Whole(d, frames[d])
         /\ at[d] = "slotHi" => slot[d].lo = Half(d, frames[d])
         /\ at[d] \in {"lastLo", "lastHi"} => slot[d] = Whole(d, frames[d])
         /\ at[d] = "lastHi" => received[d].lo = Half(d, frames[d])
    /\ at[d] \in {"idle", "decodeHi", "checkType", "slotLo"} =>
         slot[d] = Whole(d, kept[d]) \/ Half(d, kept[d]) \in disturbed
    /\ at[d] # "lastHi" => received[d] = Whole(d, kept[d]) \/ Half(d, kept[d]) \in disturbed

\* FromSources, for one device.
Sourced(d) ==
    /\ at[d] # "idle" => Buffer(d).lo[1] \in Sources(d)
    /\ at[d] \notin {"idle", "decodeHi"} => Buffer(d).hi[1] \in Sources(d)
    /\ From(slot[d], Sources(d)) /\ From(received[d], Sources(d))

\* The invariants are those of every device.
LEMMA OwnedEach ==
    /\ BufferOwned /\ SlotOwned /\ LastOwned <=> \A d \in Devices : Owned(d)
    /\ FromSources <=> /\ \A d \in Devices : Sourced(d)
                       /\ \A half \in disturbed : half[1] \in Serial /\ Serial # {half[1]}
  BY DEF BufferOwned, SlotOwned, LastOwned, Owned, FromSources, Sourced

\* One step of the thread of device d.
Step(d) == \/ DecodeLo(d) \/ DecodeHi(d) \/ DecodeFails(d)
           \/ RejectType(d) \/ AcceptType(d)
           \/ SlotLo(d) \/ SlotHi(d) \/ LastLo(d) \/ LastHi(d)

\* A device is a source of its own packets.
LEMMA OwnSource ==
    ASSUME NEW d \in Devices, NEW n
    PROVE  Half(d, n)[1] \in Sources(d)
  BY DEF Half, Sources

\* A step of one device's thread keeps what that thread relies on.
LEMMA OwnStep ==
    ASSUME DecodeTypeOK, NEW d \in Devices, Owned(d), Sourced(d), Step(d)
    PROVE  Owned(d)' /\ Sourced(d)'
<1> USE DEF Pcs
<1>0. Sources(d)' = Sources(d)
  BY DEF Sources
<1>1. CASE DecodeLo(d)
  <2>1. frames[d] + 1 \in 0 .. MaxFrames
    BY <1>1, DevicesAssumption DEF DecodeLo, DecodeTypeOK
  <2>2. [lo |-> Half(d, frames[d] + 1), hi |-> Buffer(d).hi] \in Packets
    BY <2>1, BufferType, Halved DEF Packets
  <2>3. /\ Buffer(d)' = [lo |-> Half(d, frames[d] + 1), hi |-> Buffer(d).hi]
        /\ disturbed \subseteq disturbed'
    BY <1>1, <2>2, WriteEffect DEF DecodeLo
  <2>4. /\ at[d] = "idle" /\ at'[d] = "decodeHi" /\ frames'[d] = frames[d] + 1
        /\ UNCHANGED <<slot, received, kept>>
    BY <1>1 DEF DecodeLo, Advance, DecodeTypeOK
  <2>5. Owned(d)'
    BY <2>3, <2>4 DEF Owned
  <2>6. Sourced(d)'
    BY <1>0, <2>3, <2>4, OwnSource DEF Sourced, From
  <2> QED
    BY <2>5, <2>6
<1>2. CASE DecodeHi(d)
  <2>1. [lo |-> Buffer(d).lo, hi |-> Half(d, frames[d])] \in Packets
    BY BufferType, Halved DEF Packets, DecodeTypeOK
  <2>2. /\ Buffer(d)' = [lo |-> Buffer(d).lo, hi |-> Half(d, frames[d])]
        /\ disturbed \subseteq disturbed'
    BY <1>2, <2>1, WriteEffect DEF DecodeHi
  <2>3. /\ at[d] = "decodeHi" /\ at'[d] = "checkType"
        /\ UNCHANGED <<slot, received, kept, frames>>
    BY <1>2 DEF DecodeHi, Advance, DecodeTypeOK
  <2>4. Undisturbed(d)' => Undisturbed(d)
    BY <2>2, <2>3 DEF Undisturbed
  <2>5. Undisturbed(d)' => Buffer(d)' = Whole(d, frames[d])
    BY <2>2, <2>3, <2>4 DEF Owned, Whole
  <2>6. Owned(d)'
    BY <2>2, <2>3, <2>5 DEF Owned
  <2>7. Sourced(d)'
    BY <1>0, <2>2, <2>3, OwnSource DEF Sourced, From
  <2> QED
    BY <2>6, <2>7
<1>3. CASE DecodeFails(d) \/ RejectType(d) \/ AcceptType(d)
  BY <1>0, <1>3 DEF DecodeFails, RejectType, AcceptType, Advance, DecodeTypeOK, Owned, Sourced,
                    Undisturbed, Buffer, From
<1>4. CASE SlotLo(d)
  BY <1>0, <1>4 DEF SlotLo, Advance, DecodeTypeOK, Owned, Sourced, Undisturbed, Buffer, Whole, From
<1>5. CASE SlotHi(d)
  BY <1>0, <1>5 DEF SlotHi, Advance, DecodeTypeOK, Owned, Sourced, Undisturbed, Buffer, Whole, From
<1>6. CASE LastLo(d)
  BY <1>0, <1>6 DEF LastLo, Advance, DecodeTypeOK, Owned, Sourced, Undisturbed, Buffer, Whole, From
<1>7. CASE LastHi(d)
  BY <1>0, <1>7 DEF LastHi, Advance, DecodeTypeOK, Owned, Sourced, Undisturbed, Buffer, Whole, From
<1> QED
  BY <1>1, <1>2, <1>3, <1>4, <1>5, <1>6, <1>7 DEF Step

\* What a step of one device's thread does to the buffer of another: nothing, or it
\* writes there a half of a serial device, and disturbs a frame that is being handled.
LEMMA OthersBuffer ==
    ASSUME DecodeTypeOK, NEW d \in Devices, NEW e \in Devices, e # d, Sourced(d), Step(d)
    PROVE  /\ disturbed \subseteq disturbed'
           /\ Buffer(e)' # Buffer(e) =>
                /\ e \in Serial
                /\ at[e] # "idle" => ~Undisturbed(e)' \/ frames'[e] # frames[e]
                /\ Buffer(e)'.lo[1] \in Serial
                /\ Buffer(e)'.hi = Buffer(e).hi \/ Buffer(e)'.hi[1] \in Serial
<1>1. CASE DecodeLo(d)
  <2> DEFINE p == [lo |-> Half(d, frames[d] + 1), hi |-> Buffer(d).hi]
  <2>1. frames[d] + 1 \in 0 .. MaxFrames
    BY <1>1, DevicesAssumption DEF DecodeLo, DecodeTypeOK
  <2>2. p \in Packets
    BY <2>1, BufferType, Halved DEF Packets
  <2>3. Write(d, p)
    BY <1>1 DEF DecodeLo
  <2> HIDE DEF p
  <2>4. /\ disturbed \subseteq disturbed'
        /\ Buffer(e)' # Buffer(e) =>
             /\ d \in Serial /\ e \in Serial /\ Buffer(e)' = p
             /\ at[e] # "idle" => Half(e, frames[e]) \in disturbed'
    BY <2>2, <2>3, WriteEffect
  <2>5. d \in Serial /\ e \in Serial => Buffer(d) = Buffer(e)
    BY DEF Buffer
  <2>6. p.lo[1] = d /\ p.hi = Buffer(d).hi
    BY DEF p, Half
  <2> QED
    BY <2>4, <2>5, <2>6 DEF Undisturbed
<1>2. CASE DecodeHi(d)
  <2> DEFINE p == [lo |-> Buffer(d).lo, hi |-> Half(d, frames[d])]
  <2>1. p \in Packets
    BY BufferType, Halved DEF Packets, DecodeTypeOK
  <2>2. Write(d, p)
    BY <1>2 DEF DecodeHi
  <2> HIDE DEF p
  <2>3. /\ disturbed \subseteq disturbed'
        /\ Buffer(e)' # Buffer(e) =>
             /\ d \in Serial /\ e \in Serial /\ Buffer(e)' = p
             /\ at[e] # "idle" => Half(e, frames[e]) \in disturbed'
    BY <2>1, <2>2, WriteEffect
  <2>4. d \in Serial => Buffer(d).lo[1] \in Serial
    BY <1>2 DEF DecodeHi, Advance, Sourced, Sources
  <2>5. p.lo = Buffer(d).lo /\ p.hi[1] = d
    BY DEF p, Half
  <2> QED
    BY <2>3, <2>4, <2>5 DEF Undisturbed
<1>3. CASE UNCHANGED <<shared, pkt, disturbed>>
  BY <1>3 DEF Buffer
<1> QED
  BY <1>1, <1>2, <1>3
     DEF Step, DecodeFails, RejectType, AcceptType, SlotLo, SlotHi, LastLo, LastHi

\* A step of one device's thread leaves alone what another thread relies on.
LEMMA OthersStep ==
    ASSUME DecodeTypeOK, NEW d \in Devices, NEW e \in Devices, e # d,
           Owned(e), Sourced(e), Sourced(d), Step(d)
    PROVE  Owned(e)' /\ Sourced(e)'
<1>1. /\ slot'[e] = slot[e] /\ received'[e] = received[e] /\ at'[e] = at[e]
      /\ frames'[e] = frames[e] /\ kept'[e] = kept[e]
  BY DEF DecodeTypeOK, Step, DecodeLo, DecodeHi, DecodeFails, RejectType, AcceptType,
         SlotLo, SlotHi, LastLo, LastHi, Advance
<1>2. disturbed \subseteq disturbed'
  BY OthersBuffer
<1>3. CASE Buffer(e)' = Buffer(e)
  <2>1. Undisturbed(e)' => Undisturbed(e)
    BY <1>1, <1>2 DEF Undisturbed
  <2>2. Owned(e)'
    BY <1>1, <1>2, <1>3, <2>1 DEF Owned
  <2>3. Sourced(e)'
    BY <1>1, <1>3 DEF Sourced, Sources, From
  <2> QED
    BY <2>2, <2>3
<1>4. CASE Buffer(e)' # Buffer(e)
  <2>1. /\ e \in Serial /\ at[e] # "idle" => ~Undisturbed(e)'
        /\ e \in Serial /\ Buffer(e)'.lo[1] \in Serial
        /\ Buffer(e)'.hi = Buffer(e).hi \/ Buffer(e)'.hi[1] \in Serial
    BY <1>1, <1>4, OthersBuffer
  <2>2. Owned(e)'
    BY <1>1, <1>2, <2>1 DEF Owned, Pcs
  <2>3. Sourced(e)'
    BY <1>1, <2>1 DEF Sourced, Sources, From
  <2> QED
    BY <2>2, <2>3
<1> QED
  BY <1>3, <1>4

\* Only frames of serial devices are disturbed, by another serial device.
LEMMA DisturbedStep ==
    ASSUME DecodeTypeOK, NEW d \in Devices, Step(d),
           \A half \in disturbed : half[1] \in Serial /\ Serial # {half[1]}
    PROVE  \A half \in disturbed' : half[1] \in Serial /\ Serial # {half[1]}
<1>1. CASE DecodeLo(d)
  <2>1. frames[d] + 1 \in 0 .. MaxFrames
    BY <1>1, DevicesAssumption DEF DecodeLo, DecodeTypeOK
  <2>2. [lo |-> Half(d, frames[d] + 1), hi |-> Buffer(d).hi] \in Packets
    BY <2>1, BufferType, Halved DEF Packets
  <2>3. \A half \in disturbed' \ disturbed : d \in Serial /\ half[1] \in Serial \ {d}
    BY <1>1, <2>2, WriteEffect DEF DecodeLo
  <2> QED
    BY <2>3
<1>2. CASE DecodeHi(d)
  <2>1. [lo |-> Buffer(d).lo, hi |-> Half(d, frames[d])] \in Packets
    BY BufferType, Halved DEF Packets, DecodeTypeOK
  <2>2. \A half \in disturbed' \ disturbed : d \in Serial /\ half[1] \in Serial \ {d}
    BY <1>2, <2>1, WriteEffect DEF DecodeHi
  <2> QED
    BY <2>2
<1>3. CASE UNCHANGED disturbed
  BY <1>3
<1> QED
  BY <1>1, <1>2, <1>3
     DEF Step, DecodeFails, RejectType, AcceptType, SlotLo, SlotHi, LastLo, LastHi

\* IInv is inductive: however the threads interleave, each finds in its decode buffer
\* what it wrote there, unless another serial thread wrote there meanwhile.
THEOREM Inductive == DecodeSpec => []IInv
<1>1. DecodeInit => IInv
  <2> SUFFICES ASSUME DecodeInit PROVE IInv
    OBVIOUS
  <2>1. \A d \in Devices : Whole(d, 0) \in Packets
    <3>1. 0 \in 0 .. MaxFrames
      BY DevicesAssumption
    <3> QED
      BY <3>1, Halved
  <2>2. DecodeTypeOK
    BY <2>1, DevicesAssumption DEF DecodeInit, DecodeTypeOK, Pcs
  <2>3. BufferOwned /\ SlotOwned /\ LastOwned
    BY DEF DecodeInit, BufferOwned, SlotOwned, LastOwned, Pcs
  <2>4. FromSources
    BY DEF DecodeInit, FromSources, Sources, From, Whole, Half
  <2> QED
    BY <2>2, <2>3, <2>4 DEF IInv
<1>2. IInv /\ [DecodeNext]_decodeVars => IInv'
  <2> SUFFICES ASSUME IInv, [DecodeNext]_decodeVars PROVE IInv'
    OBVIOUS
  <2>1. DecodeTypeOK /\ DecodeTypeOK'
    BY TypeStep DEF IInv
  <2>2. /\ \A e \in Devices : Owned(e) /\ Sourced(e)
        /\ \A half \in disturbed : half[1] \in Serial /\ Serial # {half[1]}
    BY OwnedEach DEF IInv
  <2>3. CASE UNCHANGED decodeVars
    BY <2>1, <2>3 DEF decodeVars, IInv, BufferOwned, SlotOwned, LastOwned, FromSources,
                      Undisturbed, Buffer, Sources, From
  <2>4. CASE DecodeNext
    <3>1. PICK d \in Devices : Step(d)
      BY <2>4 DEF DecodeNext, Step
    <3>2. \A e \in Devices : Owned(e)' /\ Sourced(e)'
      BY <2>1, <2>2, <3>1, OwnStep, OthersStep
    <3>3. \A half \in disturbed' : half[1] \in Serial /\ Serial # {half[1]}
      BY <2>1, <2>2, <3>1, DisturbedStep
    <3>4. BufferOwned' /\ SlotOwned' /\ LastOwned'
      BY <3>2 DEF BufferOwned, SlotOwned, LastOwned, Owned
    <3>5. FromSources'
      BY <3>2, <3>3 DEF FromSources, Sourced
    <3> QED
      BY <2>1, <3>4, <3>5 DEF IInv
  <2> QED
    BY <2>3, <2>4
<1> QED
  BY <1>1, <1>2, PTL DEF DecodeSpec

\* However many serial and network devices there are, the queue and last_received_packet
\* of a device hold, between two frames, the whole frame it kept last, unless another
\* serial thread decoded while that frame was handled; and never but its own halves on a
\* network, nor any but serial devices' on a serial line.
THEOREM DevicesKeepTheirOwn == DecodeSpec => []OwnPackets
<1>1. IInv => OwnPackets
  <2> SUFFICES ASSUME IInv, NEW d \in Devices
               PROVE  /\ at[d] = "idle" =>
                           \/ slot[d] = Whole(d, kept[d]) /\ received[d] = Whole(d, kept[d])
                           \/ Half(d, kept[d]) \in disturbed /\ d \in Serial /\ Serial # {d}
                      /\ From(slot[d], Sources(d)) /\ From(received[d], Sources(d))
    BY DEF OwnPackets
  <2>1. Half(d, kept[d])[1] = d
    BY DEF Half
  <2> QED
    BY <2>1 DEF IInv, SlotOwned, LastOwned, FromSources
<1> QED
  BY <1>1, Inductive, PTL
=============================================================================
