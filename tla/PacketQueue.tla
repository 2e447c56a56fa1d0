---------------------------- MODULE PacketQueue -----------------------------
(***************************************************************************)
(* packet_buf_queue and last_received_packet of one device handle that has *)
(* no saver attached: fs_enqueue_into_packet_queue saves nothing.          *)
(*                                                                         *)
(* Two threads share them and no lock is ever taken: the background task   *)
(* runs fs_enqueue_into_packet_queue, whose FS_RINGBUFFER_PUSH_FORCE       *)
(* advances tail itself when the ring is full, and the application runs    *)
(* the queue accessors of FS_Trifecta.h, whose FS_RINGBUFFER_POP advances  *)
(* tail too.                                                               *)
(***************************************************************************)
EXTENDS RingBuffer, Sequences

VARIABLES
    last,     \* device_handle->last_received_packet
    rpc,      \* where the background task is in fs_enqueue_into_packet_queue
    rhead,    \* its local "head"
    rtail,    \* its local "tail"
    apc,      \* where the application is in an accessor
    aop,      \* the accessor called last, or "failed" when it returned -1
    apos,     \* its argument "pos"
    atail,    \* its local "tail"
    out,      \* the packet_buffer the application passed
    \* History, read by no step of the code:
    sent,     \* packets whose slot head has passed
    taken,    \* packets tail has passed
    lost,     \* of these, the ones the background task passed over
    popped,   \* what successful pops returned, in order
    full,     \* the current push found the ring full when it wrote its slot
    clash     \* a push that found the ring full has overlapped an accessor

recvVars == <<last, rpc, rhead, rtail>>
appVars  == <<apc, aop, apos, atail, out>>
history  == <<sent, taken, lost, popped, full, clash>>
vars     == <<ring, recvVars, appVars, history>>

PopPc   == {"popCount", "popTail", "popLo", "popHi", "popStore", "popSub"}
PeekPc  == {"peekCount", "peekTail", "peekLo", "peekHi"}
RecvPc  == {"idle", "writeLo", "writeHi", "storeHead", "loadCount", "add",
            "loadTail", "storeTail", "lastLo", "lastHi"}
AppPc   == {"idle", "latestLo", "latestHi"} \cup PopPc \cup PeekPc
Ops     == {"none", "pop", "from_queue", "at_index", "latest", "failed"}

InQueueOp == apc \in PopPc \cup PeekPc

\* The background task is between the write of its slot and the store of tail
\* of a push that found the ring full.
Overwriting == full /\ rpc \in {"writeHi", "storeHead", "loadCount", "loadTail", "storeTail"}

TypeOK ==
    /\ RingTypeOK
    /\ last \in Slot
    /\ rpc \in RecvPc
    /\ rhead \in Index /\ rtail \in Index
    /\ apc \in AppPc
    /\ aop \in Ops
    /\ apos \in Index /\ atail \in Index
    /\ out \in Slot
    /\ sent \in 0 .. MaxPackets
    /\ taken \in Nat /\ lost \in Nat
    /\ popped \in Seq(Slot)
    /\ full \in BOOLEAN /\ clash \in BOOLEAN

Init ==
    /\ RingInit
    /\ last = Packet(0)
    /\ rpc = "idle" /\ rhead = 0 /\ rtail = 0
    /\ apc = "idle" /\ aop = "none" /\ apos = 0 /\ atail = 0
    /\ out = Packet(0)
    /\ sent = 0 /\ taken = 0 /\ lost = 0 /\ popped = <<>>
    /\ full = FALSE /\ clash = FALSE

-----------------------------------------------------------------------------
(* The background task: fs_enqueue_into_packet_queue of packet sent + 1.   *)

\* A packet was parsed; FS_RINGBUFFER_PUSH_FORCE loads head.
PushLoadHead ==
    /\ rpc = "idle" /\ sent < MaxPackets
    /\ rpc' = "writeLo" /\ rhead' = head
    /\ UNCHANGED <<ring, last, rtail, appVars, history>>

\* The slot is written before count is looked at.
PushWriteLo ==
    /\ rpc = "writeLo"
    /\ WriteSlotLo(rhead, sent + 1)
    /\ full' = (count = QueueLength)
    /\ clash' = (clash \/ (count = QueueLength /\ InQueueOp))
    /\ rpc' = "writeHi"
    /\ UNCHANGED <<last, rhead, rtail, appVars, sent, taken, lost, popped>>

PushWriteHi ==
    /\ rpc = "writeHi"
    /\ WriteSlotHi(rhead, sent + 1)
    /\ rpc' = "storeHead"
    /\ UNCHANGED <<last, rhead, rtail, appVars, history>>

PushStoreHead ==
    /\ rpc = "storeHead"
    /\ StoreHead(Succ(rhead))
    /\ sent' = sent + 1
    /\ rpc' = "loadCount"
    /\ UNCHANGED <<last, rhead, rtail, appVars, taken, lost, popped, full, clash>>

\* Bug: a ring that has room for one more packet is taken for a full one.
PushLoadCountEarlyFull ==
    /\ rpc = "loadCount"
    /\ rpc' = IF count < QueueLength - 1 THEN "add" ELSE "loadTail"
    /\ UNCHANGED <<ring, last, rhead, rtail, appVars, history>>

\* Bug: the comparison is off by one.
PushLoadCountOffByOne ==
    /\ rpc = "loadCount"
    /\ rpc' = IF count <= QueueLength THEN "add" ELSE "loadTail"
    /\ UNCHANGED <<ring, last, rhead, rtail, appVars, history>>

PushLoadCount ==
    /\ rpc = "loadCount"
    /\ rpc' = IF count < QueueLength THEN "add" ELSE "loadTail"
    /\ UNCHANGED <<ring, last, rhead, rtail, appVars, history>>

PushAdd ==
    /\ rpc = "add"
    /\ IncCount
    /\ rpc' = "lastLo"
    /\ UNCHANGED <<last, rhead, rtail, appVars, history>>

PushLoadTail ==
    /\ rpc = "loadTail"
    /\ rtail' = tail
    /\ rpc' = "storeTail"
    /\ UNCHANGED <<ring, last, rhead, appVars, history>>

\* Bug: the oldest packet is overwritten and tail stays where it is.
PushStoreTailStays ==
    /\ rpc = "storeTail"
    /\ StoreTail(rtail)
    /\ taken' = taken + 1 /\ lost' = lost + 1
    /\ rpc' = "lastLo"
    /\ UNCHANGED <<last, rhead, rtail, appVars, sent, popped, full, clash>>

PushStoreTail ==
    /\ rpc = "storeTail"
    /\ StoreTail(Succ(rtail))
    /\ taken' = taken + 1 /\ lost' = lost + 1
    /\ rpc' = "lastLo"
    /\ UNCHANGED <<last, rhead, rtail, appVars, sent, popped, full, clash>>

\* memcpy to last_received_packet, again in two halves.
LastWriteLo ==
    /\ rpc = "lastLo"
    /\ last' = [lo |-> sent, hi |-> last.hi]
    /\ rpc' = "lastHi"
    /\ UNCHANGED <<ring, rhead, rtail, appVars, history>>

LastWriteHi ==
    /\ rpc = "lastHi"
    /\ last' = [lo |-> last.lo, hi |-> sent]
    /\ rpc' = "idle"
    /\ UNCHANGED <<ring, rhead, rtail, appVars, history>>

BackgroundTask ==
    \/ PushLoadHead \/ PushWriteLo \/ PushWriteHi \/ PushStoreHead
    \/ PushLoadCount \/ PushAdd \/ PushLoadTail \/ PushStoreTail
    \/ LastWriteLo \/ LastWriteHi

-----------------------------------------------------------------------------
(* The application.                                                        *)

\* An accessor starts: its first load of count decides between going on at
\* pc and returning -1.
Call(op, pc, ok) ==
    /\ apc = "idle"
    /\ apc' = IF ok THEN pc ELSE "idle"
    /\ aop' = IF ok THEN op ELSE "failed"
    /\ clash' = (clash \/ (ok /\ Overwriting))
    /\ UNCHANGED <<ring, recvVars, atail, out, sent, taken, lost, popped, full>>

CallPop == Call("pop", "popCount", count # 0) /\ UNCHANGED apos

CallGetFromQueue(pos) == Call("from_queue", "peekCount", pos < count) /\ apos' = pos

\* Bug: the bound check lets pos = count through.
CallGetAtIndexOffByOne(pos) == Call("at_index", "peekTail", pos <= count) /\ apos' = pos

CallGetAtIndex(pos) == Call("at_index", "peekTail", pos < count) /\ apos' = pos

\* Move from pc "from" to pc "to".
Goto(from, to) == apc = from /\ apc' = to

\* FS_RINGBUFFER_POP loads count again.
PopLoadCount ==
    /\ apc = "popCount"
    /\ apc' = IF count > 0 THEN "popTail" ELSE "idle"
    /\ aop' = IF count > 0 THEN "pop" ELSE "failed"
    /\ UNCHANGED <<ring, recvVars, apos, atail, out, history>>

PopLoadTail ==
    /\ Goto("popTail", "popLo")
    /\ atail' = tail
    /\ UNCHANGED <<ring, recvVars, aop, apos, out, history>>

PopCopyLo ==
    /\ Goto("popLo", "popHi")
    /\ out' = [lo |-> slots[atail].lo, hi |-> out.hi]
    /\ UNCHANGED <<ring, recvVars, aop, apos, atail, history>>

PopCopyHi ==
    /\ Goto("popHi", "popStore")
    /\ out' = [lo |-> out.lo, hi |-> slots[atail].hi]
    /\ UNCHANGED <<ring, recvVars, aop, apos, atail, history>>

\* Bug: a pop leaves its packet in the queue.
PopStoreTailStays ==
    /\ Goto("popStore", "popSub")
    /\ StoreTail(atail)
    /\ taken' = taken + 1
    /\ UNCHANGED <<recvVars, aop, apos, atail, out, sent, lost, popped, full, clash>>

PopStoreTail ==
    /\ Goto("popStore", "popSub")
    /\ StoreTail(Succ(atail))
    /\ taken' = taken + 1
    /\ UNCHANGED <<recvVars, aop, apos, atail, out, sent, lost, popped, full, clash>>

\* Bug: a pop forgets to count its packet out.
PopSubForgets ==
    /\ Goto("popSub", "idle")
    /\ popped' = Append(popped, out)
    /\ UNCHANGED <<ring, recvVars, aop, apos, atail, out, sent, taken, lost, full, clash>>

PopSub ==
    /\ Goto("popSub", "idle")
    /\ DecCount
    /\ popped' = Append(popped, out)
    /\ UNCHANGED <<recvVars, aop, apos, atail, out, sent, taken, lost, full, clash>>

\* fs_device_get_packet_pointer_at_index checks the index once more.
PeekLoadCount ==
    /\ apc = "peekCount"
    /\ apc' = IF apos < count THEN "peekTail" ELSE "idle"
    /\ aop' = IF apos < count THEN "from_queue" ELSE "failed"
    /\ UNCHANGED <<ring, recvVars, apos, atail, out, history>>

\* Bug: positions are counted from head.
PeekLoadTailFromHead ==
    /\ Goto("peekTail", "peekLo")
    /\ atail' = head
    /\ UNCHANGED <<ring, recvVars, aop, apos, out, history>>

PeekLoadTail ==
    /\ Goto("peekTail", "peekLo")
    /\ atail' = tail
    /\ UNCHANGED <<ring, recvVars, aop, apos, out, history>>

PeekCopyLo ==
    /\ Goto("peekLo", "peekHi")
    /\ out' = [lo |-> slots[At(atail, apos)].lo, hi |-> out.hi]
    /\ UNCHANGED <<ring, recvVars, aop, apos, atail, history>>

PeekCopyHi ==
    /\ Goto("peekHi", "idle")
    /\ out' = [lo |-> out.lo, hi |-> slots[At(atail, apos)].hi]
    /\ UNCHANGED <<ring, recvVars, aop, apos, atail, history>>

\* fs_get_raw_packet: no check at all, a memcpy of last_received_packet.
CallGetLatest ==
    /\ Goto("idle", "latestLo")
    /\ aop' = "latest"
    /\ UNCHANGED <<ring, recvVars, apos, atail, out, history>>

LatestCopyLo ==
    /\ Goto("latestLo", "latestHi")
    /\ out' = [lo |-> last.lo, hi |-> out.hi]
    /\ UNCHANGED <<ring, recvVars, aop, apos, atail, history>>

LatestCopyHi ==
    /\ Goto("latestHi", "idle")
    /\ out' = [lo |-> out.lo, hi |-> last.hi]
    /\ UNCHANGED <<ring, recvVars, aop, apos, atail, history>>

Application ==
    \/ CallPop \/ PopLoadCount \/ PopLoadTail \/ PopCopyLo \/ PopCopyHi
    \/ PopStoreTail \/ PopSub
    \/ \E pos \in Index : CallGetFromQueue(pos) \/ CallGetAtIndex(pos)
    \/ PeekLoadCount \/ PeekLoadTail \/ PeekCopyLo \/ PeekCopyHi
    \/ CallGetLatest \/ LatestCopyLo \/ LatestCopyHi

Next == BackgroundTask \/ Application

Spec == Init /\ [][Next]_vars

-----------------------------------------------------------------------------
(* Properties.                                                             *)

\* No push and no pop is half done with head, tail and count.
AtRest == rpc \in {"idle", "writeLo", "lastLo", "lastHi"} /\ apc # "popSub"

\* However the two threads interleave, and even when both of them move tail,
\* count stays between 0 and the length of the ring (the range the comment
\* on fs_device_get_packet_count gives), so fetch_sub never wraps.
CountInRange == count <= QueueLength /\ (apc = "popSub" => count > 0)

\* Neither a pop nor a peek ever hands out memory that was never written: each
\* half of what it copied belongs to a packet that arrived, even when the
\* threads have driven head, tail and count apart.
OnlyReceivedPackets ==
    aop \in {"pop", "from_queue", "at_index"} /\ apc = "idle" =>
        out.lo > 0 /\ out.hi > 0

\* As long as no overwriting push has overlapped an accessor, pops return whole
\* packets in the order of arrival, none twice.
PopsInOrder ==
    ~clash =>
        /\ \A i \in 1 .. Len(popped) : popped[i] = Packet(popped[i].lo)
        /\ \A i, j \in 1 .. Len(popped) : i < j => popped[i].lo < popped[j].lo

\* ... every packet that arrived has been popped, has been overwritten by a push
\* that found the ring full, or is one of the count packets still queued.
NothingLost ==
    ~clash /\ AtRest => sent = Len(popped) + lost + count

\* ... and the queue holds exactly the newest count packets, oldest at tail.
QueueHoldsNewest ==
    ~clash /\ AtRest =>
        /\ count <= sent
        /\ ~Overwriting =>
             \A k \in 0 .. count - 1 : slots[At(tail, k)] = Packet(sent - count + 1 + k)

\* ... and a peek at pos returned the packet pos places after the oldest one, as
\* it was when the copy ended.
PeekExact ==
    [][ (apc = "peekHi" /\ apc' = "idle" /\ ~clash) => out' = Packet(taken + apos + 1) ]_vars

\* What the documentation says of fs_pop_raw_packet_from_queue (pop the oldest
\* packet): a pop never returns a packet that arrived before one popped already.
PopReturnsOldest ==
    \A i, j \in 1 .. Len(popped) : i < j => popped[i].lo < popped[j].lo

-----------------------------------------------------------------------------
(* The inductive invariant, TypeOK /\ IndInv.                              *)

\* The half that holds in every program: a thread that is about to move count
\* has seen it on the right side of its bound, and only its own steps could
\* have moved it back.
CountInv ==
    /\ count <= QueueLength
    /\ rpc = "add" => count < QueueLength
    /\ apc \in PopPc \ {"popCount"} => count > 0
    /\ rpc \in {"writeLo", "writeHi", "storeHead"} => sent < MaxPackets

\* One for a push that has moved head but has not counted its packet yet.
Pending   == IF rpc \in {"loadCount", "add", "loadTail", "storeTail"} THEN 1 ELSE 0
\* One for a pop that has moved tail but has not counted its packet out yet.
Removing  == IF apc = "popSub" THEN 1 ELSE 0
Occupancy == sent - taken

\* Slots fill in order, and whenever an accessor can read a slot it should not,
\* all of them have been written.
Filled(p) == p.lo > 0 /\ p.hi > 0

WrittenInv ==
    /\ count + Pending <= sent
    /\ rpc \in {"writeLo", "writeHi", "storeHead"} => rhead = head
    /\ sent < QueueLength => head = sent
    /\ \A i \in Index : i < sent => Filled(slots[i])
    /\ rpc = "writeHi" => slots[head].lo > 0
    /\ rpc = "storeHead" => Filled(slots[head])
    /\ full \/ clash => sent >= QueueLength

CopiedInv ==
    /\ apc \in {"latestLo", "latestHi"} => aop = "latest"
    /\ apc \in {"popHi", "peekHi"} => out.lo > 0
    /\ apc \in {"popStore", "popSub"} => Filled(out)
    /\ apc = "idle" /\ aop \in {"pop", "from_queue", "at_index"} => Filled(out)

\* The other half holds until an overwriting push overlaps an accessor.
\* count lags behind head by a push, and behind tail by a pop, in progress.
CountMatches ==
    /\ taken <= sent
    /\ count + Pending = Occupancy + Removing
    /\ head = At(tail, Occupancy)

PushInv ==
    /\ rpc \in {"writeLo", "writeHi", "storeHead"} => rhead = head
    /\ rpc \in {"writeHi", "storeHead", "loadCount", "add"} /\ ~full => count < QueueLength
    /\ rpc \in {"loadTail", "storeTail"} => full
    /\ rpc = "add" => ~full
    /\ rpc = "storeTail" => rtail = tail
    /\ Overwriting => count = QueueLength /\ ~InQueueOp /\ apc # "popSub"

SlotsInv ==
    /\ rpc = "writeHi" => slots[head].lo = sent + 1
    /\ rpc = "storeHead" => slots[head] = Packet(sent + 1)
    /\ \A k \in 0 .. Occupancy - 1 :
         (k = 0 /\ Overwriting) \/ slots[At(tail, k)] = Packet(taken + k + 1)

AccessorInv ==
    /\ apc \in {"popLo", "popHi", "popStore", "peekLo", "peekHi"} => atail = tail
    /\ apc = "popHi" => out.lo = taken + 1
    /\ apc = "popStore" => out = Packet(taken + 1)
    /\ apc = "popSub" => out = Packet(taken)
    /\ apc \in {"peekTail", "peekLo", "peekHi"} => apos < count
    /\ apc = "peekHi" => out.lo = taken + apos + 1

HistoryInv ==
    /\ taken = Len(popped) + lost + Removing
    /\ \A i \in 1 .. Len(popped) :
         popped[i] = Packet(popped[i].lo) /\ popped[i].lo <= taken - Removing
    /\ PopReturnsOldest

QueueInv ==
    ~clash => CountMatches /\ PushInv /\ SlotsInv /\ AccessorInv /\ HistoryInv

\* What the steps of PUSH_FORCE and POP keep true between any two of them.
IndInv == CountInv /\ WrittenInv /\ CopiedInv /\ QueueInv

-----------------------------------------------------------------------------
(* Refinement.                                                             *)

\* A push takes effect when it counts its packet, or, at a full ring, when it
\* starts to overwrite the oldest slot; a pop when it stores tail.
PushPending == rpc \in {"loadCount", "add"} /\ ~full
QueuedFrom  == IF Overwriting THEN Succ(tail) ELSE tail
QueuedCount == IF apc = "popSub" THEN count - 1 ELSE count

Abstract == INSTANCE DropOldestQueue WITH
    Capacity    <- QueueLength,
    MaxArrivals <- MaxPackets,
    arrived     <- IF PushPending THEN sent - 1
                   ELSE IF full /\ rpc \in {"writeHi", "storeHead"} THEN sent + 1
                   ELSE sent,
    queue       <- [k \in 1 .. QueuedCount |-> slots[At(QueuedFrom, k - 1)].lo],
    delivered   <- [k \in 1 .. Len(popped) + (IF apc = "popSub" THEN 1 ELSE 0) |->
                       IF k <= Len(popped) THEN popped[k].lo ELSE out.lo]

\* The atomic steps of PUSH_FORCE and POP implement the queue that drops its
\* oldest packet, up to the first overwriting push that overlaps an accessor:
\* every step before it is a step of that queue or none.  No such push ever
\* comes when one thread parses and reads, as in tests/test_parse_base64.c and
\* test_parse_binary.c, or when the queue is drained before it can fill up.
ImplementsDropOldest ==
    /\ Abstract!Init
    /\ [][~clash' => [Abstract!Next]_(Abstract!queueVars)]_vars
=============================================================================
