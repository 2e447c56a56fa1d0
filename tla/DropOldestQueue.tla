--------------------------- MODULE DropOldestQueue --------------------------
(***************************************************************************)
(* What the packet queue promises its user (documentation/streaming.rst    *)
(* and the comments of FS_Trifecta.h): packets queue in order of arrival,  *)
(* a packet that arrives at a full queue takes the place of the oldest     *)
(* one, and a pop removes and returns the oldest.                          *)
(***************************************************************************)
EXTENDS Naturals, Sequences

CONSTANTS Capacity, MaxArrivals

VARIABLES arrived,    \* packets that arrived; the nth one is n
          queue,      \* the packets queued, oldest first
          delivered   \* the packets popped

queueVars == <<arrived, queue, delivered>>

Init == arrived = 0 /\ queue = <<>> /\ delivered = <<>>

Arrive ==
    /\ arrived < MaxArrivals
    /\ arrived' = arrived + 1
    /\ queue' = Append(IF Len(queue) < Capacity THEN queue ELSE Tail(queue), arrived')
    /\ UNCHANGED delivered

Pop ==
    /\ queue # <<>>
    /\ delivered' = Append(delivered, Head(queue))
    /\ queue' = Tail(queue)
    /\ UNCHANGED arrived

Next == Arrive \/ Pop

Spec == Init /\ [][Next]_queueVars
=============================================================================
