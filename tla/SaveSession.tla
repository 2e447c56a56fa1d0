----------------------------- MODULE SaveSession ----------------------------
(***************************************************************************)
(* Saving the packets of devices to files (common/FS_Trifecta_Saver.c).    *)
(*                                                                         *)
(* The program calls fs_save_init, fs_save_begin_device, fs_save_end_device *)
(* and fs_save_destroy; the background task of every device hands each     *)
(* packet to the saver it finds in save_context; every session starts a    *)
(* detached thread that drains the saver's ring into its file and that     *)
(* nobody joins.  No lock is taken anywhere.                               *)
(*                                                                         *)
(* A call of the program is the sequence todo of the steps it has still to *)
(* make.  FS_RINGBUFFER_INIT, PUSH_FORCE and POP are the loads and stores  *)
(* they are made of; a packet is copied in one step (PacketQueue has its   *)
(* halves).                                                                *)
(***************************************************************************)
EXTENDS Integers, Sequences, Functions, FiniteSets

CONSTANTS
    Devices, Savers,
    Null,           \* NULL, as a save_context
    Calls,          \* the calls the program makes, of "init", "begin", "end", "destroy"
    QueueLength,    \* FS_MAX_PACKET_QUEUE_LENGTH, slots in the ring of a saver
    MaxPackets,     \* bound: packets that arrive while a device has a save_context
    MaxSessions,    \* bound: files that are opened
    FollowMixed     \* bound, FALSE: a program that is not Clean any more is left there

Modulus == 65536    \* of count, an atomic uint16_t

ASSUME SaveAssumption ==
    /\ Null \notin Savers /\ Savers # {} /\ Devices # {}
    /\ QueueLength \in 1 .. Modulus - 1
    /\ MaxPackets \in Nat /\ MaxSessions \in Nat /\ FollowMixed \in BOOLEAN

VARIABLES
    running,    \* saver->running is RUNNING
    file,       \* saver->file: the session that opened it, or 0 for NULL
    head, tail, count, slots,   \* saver->packets_to_save
    context,    \* dev->save_context
    todo, asaver, adev,   \* the steps left of the program's call, and its arguments
    at, savedTo, offered, \* the background task of each device: where it is in
                          \* fs_save_on_packet, the saver it loaded, the packet,
    pindex,               \* and the head, then the tail, that its push loaded
    tpc, tsaver, ttail, tpacket, tline,   \* the thread of each session
    fbuf,       \* the static field buffers of format_packet: whose fields they hold
    open,       \* the FILEs that are open
    rows,       \* what was printed to the file of each session
    \* History, read by no step of the code:
    from,       \* the device of each packet
    accepted,   \* the packets pushed into the ring since each session has it
    dropped,    \* of these, the ones a full ring overwrote
    confused,   \* a saver was given another device than the one it saves
    mixed       \* two threads or two devices have been at one ring, or a push or a
                \* pop at a ring that was being reset, or a pop at a full ring during a
                \* push, or two threads at the buffers of format_packet

ringVars   == <<head, tail, count, slots>>
saverVars  == <<running, file, ringVars>>
program    == <<todo, asaver, adev>>
background == <<at, savedTo, offered, pindex>>
threads    == <<tpc, tsaver, ttail, tpacket, tline, fbuf>>
disk       == <<open, rows>>
received   == <<from, accepted, dropped>>
history    == <<received, confused, mixed>>
vars == <<saverVars, context, program, background, threads, disk, history>>

Sessions == 1 .. MaxSessions
Packets  == 0 .. MaxPackets          \* 0 is the memory no packet was written to
Line     == [of : Packets, fields : Packets]
Slots    == 0 .. QueueLength - 1

Blank == [of |-> 0, fields |-> 0]
AnySaver == CHOOSE s \in Savers : TRUE     \* in a variable that holds nothing yet, or no more
AnyDevice == CHOOSE d \in Devices : TRUE

Alive(t) == tpc[t] \notin {"none", "opened", "ended"}
Draining(s) == \E t \in Sessions : Alive(t) /\ tsaver[t] = s

\* Places in FS_RINGBUFFER_PUSH_FORCE: head was loaded; then the slot was written, too.
Unwritten  == {"fill"}
Written    == {"bump", "count", "add", "oldest", "drop"}
PushPlaces == Unwritten \cup Written
TaskPlaces == {"idle", "load", "test", "push"} \cup PushPlaces

\* Places in FS_RINGBUFFER_POP, when count was not 0.
PopPlaces    == {"index", "copy", "commit", "uncount"}
ThreadPlaces == {"none", "opened", "begin", "loop", "take", "format", "print",
                 "test", "write", "ended"} \cup PopPlaces

Pushing(s, places) == \E d \in Devices : savedTo[d] = s /\ at[d] \in places
Popping(s, places) == \E t \in Sessions : tsaver[t] = s /\ tpc[t] \in places

Steps == {"stop", "unhook", "close", "forget", "zeroHead", "zeroTail", "zeroCount", "idle",
          "hook", "run", "start"}
AfterReset == {<<"run", "start">>, <<"start">>}

\* FS_RINGBUFFER_INIT of saver s has made some of its stores.
Resetting(s) == asaver = s /\ todo # <<>> /\ Head(todo) \in {"zeroTail", "zeroCount"}

\* The saver has a file, and the ring of the session that opened it has been reset.
Listening(s) ==
    /\ file[s] # 0
    /\ tpc[file[s]] # "opened" \/ (asaver = s /\ todo \in AfterReset)

TypeOK ==
    /\ running \in [Savers -> BOOLEAN]
    /\ file \in [Savers -> Sessions \cup {0}]
    /\ head \in [Savers -> Slots] /\ tail \in [Savers -> Slots]
    /\ count \in [Savers -> 0 .. Modulus - 1]
    /\ slots \in [Savers -> [Slots -> Packets]]
    /\ context \in [Devices -> Savers \cup {Null}]
    /\ todo \in Seq(Steps) /\ Len(todo) <= 7
    /\ asaver \in Savers /\ adev \in Devices
    /\ at \in [Devices -> TaskPlaces]
    /\ savedTo \in [Devices -> Savers] /\ offered \in [Devices -> Packets]
    /\ pindex \in [Devices -> Slots]
    /\ tpc \in [Sessions -> ThreadPlaces]
    /\ tsaver \in [Sessions -> Savers]
    /\ ttail \in [Sessions -> Slots]
    /\ tpacket \in [Sessions -> Packets] /\ tline \in [Sessions -> Line]
    /\ fbuf \in Packets
    /\ open \subseteq Sessions
    /\ rows \in [Sessions -> Seq(Line)]
    /\ from \in Seq(Devices) /\ Len(from) <= MaxPackets
    /\ accepted \in [Sessions -> SUBSET Packets]
    /\ dropped \in [Sessions -> SUBSET Packets]
    /\ confused \in BOOLEAN /\ mixed \in BOOLEAN

\* Savers in zeroed memory, devices that are not being saved.
Init ==
    /\ running = [s \in Savers |-> FALSE]
    /\ file = [s \in Savers |-> 0]
    /\ head = [s \in Savers |-> 0] /\ tail = [s \in Savers |-> 0]
    /\ count = [s \in Savers |-> 0]
    /\ slots = [s \in Savers |-> [i \in Slots |-> 0]]
    /\ context = [d \in Devices |-> Null]
    /\ todo = <<>>
    /\ asaver = AnySaver /\ adev = AnyDevice
    /\ at = [d \in Devices |-> "idle"]
    /\ savedTo = [d \in Devices |-> AnySaver]
    /\ offered = [d \in Devices |-> 0] /\ pindex = [d \in Devices |-> 0]
    /\ tpc = [t \in Sessions |-> "none"]
    /\ tsaver = [t \in Sessions |-> AnySaver]
    /\ ttail = [t \in Sessions |-> 0] /\ tpacket = [t \in Sessions |-> 0]
    /\ tline = [t \in Sessions |-> Blank]
    /\ fbuf = 0
    /\ open = {}
    /\ rows = [t \in Sessions |-> <<>>]
    /\ from = <<>>
    /\ accepted = [t \in Sessions |-> {}]
    /\ dropped = [t \in Sessions |-> {}]
    /\ confused = FALSE /\ mixed = FALSE

\* One device to a saver, one thread to a ring and to the field buffers.
Clean == ~confused /\ ~mixed
Followed == Clean \/ FollowMixed

\* Bug: an index is not wrapped around.
SuccNoWrap(i) == i + 1

Succ(i) == (i + 1) % QueueLength

-----------------------------------------------------------------------------
(* The program.                                                            *)

\* A session gets the next number when fopen returns its FILE.
Started == {t \in Sessions : tpc[t] # "none"}
NextSession == Cardinality(Started) + 1

Call(op, s, d, steps) ==
    /\ Followed /\ op \in Calls /\ todo = <<>>
    /\ todo' = steps /\ asaver' = s /\ adev' = d

\* fs_save_init closes what an earlier session left, then resets the ring.
CallInit(s) ==
    /\ Call("init", s, adev, <<"stop", "close", "forget",
                               "zeroHead", "zeroTail", "zeroCount", "idle">>)
    /\ UNCHANGED <<saverVars, context, background, threads, disk, history>>

\* fs_save_destroy leaves running, save_context and the thread as they are.
CallDestroy(s) ==
    /\ Call("destroy", s, adev, <<"close", "forget">>)
    /\ UNCHANGED <<saverVars, context, background, threads, disk, history>>

CallEnd(s, d) ==
    /\ Call("end", s, d, <<"stop", "unhook", "close", "forget">>)
    /\ confused' = (confused \/ context[d] \notin {Null, s})
    /\ UNCHANGED <<saverVars, context, background, threads, disk, received, mixed>>

\* Saver s still serves another device than d.
ServesAnother(s, d) == \E e \in Devices \ {d} : context[e] = s

\* fs_save_begin_device returns 0 at once when the device is being saved.
Saving(d) == context[d] # Null /\ file[context[d]] # 0

CallBegin(s, d) ==
    /\ ~Saving(d)
    /\ NextSession \in Sessions
    /\ Call("begin", s, d, <<"hook", "zeroHead", "zeroTail", "zeroCount", "run", "start">>)
    /\ file' = [file EXCEPT ![s] = NextSession]
    /\ open' = open \cup {NextSession}
    /\ tpc' = [tpc EXCEPT ![NextSession] = "opened"]
    /\ tsaver' = [tsaver EXCEPT ![NextSession] = s]
    /\ confused' = (confused \/ ServesAnother(s, d))
    /\ mixed' = (mixed \/ Draining(s))
    /\ UNCHANGED <<running, ringVars, context, background, ttail, tpacket, tline, fbuf,
                   rows, received>>

\* Its fopen fails.
CallBeginFails(s, d) ==
    /\ ~Saving(d)
    /\ Call("begin", s, d, <<>>)
    /\ file' = [file EXCEPT ![s] = 0]
    /\ confused' = (confused \/ ServesAnother(s, d))
    /\ UNCHANGED <<running, ringVars, context, background, threads, disk, received, mixed>>

\* The next step of the call in progress is one called step.
Doing(step) ==
    /\ Followed /\ todo # <<>> /\ Head(todo) = step
    /\ todo' = Tail(todo)
    /\ asaver' = IF Len(todo) = 1 THEN AnySaver ELSE asaver
    /\ adev' = IF Len(todo) = 1 THEN AnyDevice ELSE adev

Stop ==
    /\ Doing("stop") \/ Doing("idle")
    /\ running' = [running EXCEPT ![asaver] = FALSE]
    /\ UNCHANGED <<file, ringVars, context, background, threads, disk, history>>

Unhook ==
    /\ Doing("unhook")
    /\ context' = [context EXCEPT ![adev] = Null]
    /\ UNCHANGED <<saverVars, background, threads, disk, history>>

\* if (saver->file) fclose ...
Close ==
    /\ Doing("close")
    /\ open' = open \ {file[asaver]}
    /\ UNCHANGED <<saverVars, context, background, threads, rows, history>>

\* ... and the store of NULL, which the thread may read in between.
Forget ==
    /\ Doing("forget")
    /\ file' = [file EXCEPT ![asaver] = 0]
    /\ UNCHANGED <<running, ringVars, context, background, threads, disk, history>>

Hook ==
    /\ Doing("hook")
    /\ context' = [context EXCEPT ![adev] = asaver]
    /\ UNCHANGED <<saverVars, background, threads, disk, history>>

\* FS_RINGBUFFER_INIT is three stores; what the slots hold stays.
Zero(step) ==
    /\ Doing(step)
    /\ mixed' = (mixed \/ Draining(asaver) \/ Pushing(asaver, PushPlaces))
    /\ UNCHANGED <<running, file, slots, context, background, threads, disk, received, confused>>

ZeroHead ==
    /\ Zero("zeroHead")
    /\ head' = [head EXCEPT ![asaver] = 0] /\ UNCHANGED <<tail, count>>

ZeroTail ==
    /\ Zero("zeroTail")
    /\ tail' = [tail EXCEPT ![asaver] = 0] /\ UNCHANGED <<head, count>>

ZeroCount ==
    /\ Zero("zeroCount")
    /\ count' = [count EXCEPT ![asaver] = 0] /\ UNCHANGED <<head, tail>>

Run ==
    /\ Doing("run")
    /\ running' = [running EXCEPT ![asaver] = TRUE]
    /\ UNCHANGED <<file, ringVars, context, background, threads, disk, history>>

\* fs_thread_start stores RUNNING once more and creates the thread.
Start ==
    /\ Doing("start")
    /\ running' = [running EXCEPT ![asaver] = TRUE]
    /\ tpc' = [tpc EXCEPT ![file[asaver]] = "begin"]
    /\ mixed' = (mixed \/ \E t \in Sessions : Alive(t))
    /\ UNCHANGED <<file, ringVars, context, background, tsaver, ttail, tpacket, tline, fbuf,
                   disk, received, confused>>

\* Bug: a session whose thread cannot be created keeps its file open.
StartFailsKeepsFile ==
    /\ Doing("start")
    /\ tpc' = [tpc EXCEPT ![file[asaver]] = "ended"]
    /\ file' = [file EXCEPT ![asaver] = 0]
    /\ context' = [context EXCEPT ![adev] = Null]
    /\ running' = [running EXCEPT ![asaver] = FALSE]
    /\ UNCHANGED <<ringVars, background, tsaver, ttail, tpacket, tline, fbuf, disk, history>>

\* The thread cannot be created; the call takes its steps back.
StartFails ==
    /\ Doing("start")
    /\ tpc' = [tpc EXCEPT ![file[asaver]] = "ended"]
    /\ open' = open \ {file[asaver]}
    /\ file' = [file EXCEPT ![asaver] = 0]
    /\ context' = [context EXCEPT ![adev] = Null]
    /\ running' = [running EXCEPT ![asaver] = FALSE]
    /\ UNCHANGED <<ringVars, background, tsaver, ttail, tpacket, tline, fbuf, rows, history>>

\* What a call that has begun goes on with.
Continue == \/ Stop \/ Unhook \/ Close \/ Forget \/ Hook \/ ZeroHead \/ ZeroTail \/ ZeroCount
            \/ Run \/ Start \/ StartFails

Program ==
    \/ \E s \in Savers : CallInit(s) \/ CallDestroy(s)
    \/ \E s \in Savers, d \in Devices : CallBegin(s, d) \/ CallBeginFails(s, d) \/ CallEnd(s, d)
    \/ Continue

-----------------------------------------------------------------------------
(* The background task of device d: the end of                             *)
(* fs_enqueue_into_packet_queue, and fs_save_on_packet.                    *)

DeviceAt(d, pc) == Followed /\ at[d] = pc

Return(d) ==
    /\ at' = [at EXCEPT ![d] = "idle"]
    /\ savedTo' = [savedTo EXCEPT ![d] = AnySaver]
    /\ offered' = [offered EXCEPT ![d] = 0]
    /\ pindex' = [pindex EXCEPT ![d] = 0]

\* A packet arrived and save_context is not NULL; if it is, nothing happens.
TestContext(d) ==
    /\ DeviceAt(d, "idle") /\ Len(from) < MaxPackets
    /\ context[d] # Null
    /\ from' = Append(from, d)
    /\ offered' = [offered EXCEPT ![d] = Len(from')]
    /\ at' = [at EXCEPT ![d] = "load"]
    /\ UNCHANGED <<saverVars, context, program, savedTo, pindex, threads, disk,
                   accepted, dropped, confused, mixed>>

\* save_context is loaded again, as the argument of fs_save_on_packet, which
\* returns when it has become NULL.
LoadContext(d) ==
    /\ DeviceAt(d, "load")
    /\ IF context[d] = Null
         THEN Return(d)
         ELSE /\ at' = [at EXCEPT ![d] = "test"]
              /\ savedTo' = [savedTo EXCEPT ![d] = context[d]]
              /\ UNCHANGED <<offered, pindex>>
    /\ UNCHANGED <<saverVars, context, program, threads, disk, history>>

TestRunning(d) ==
    /\ DeviceAt(d, "test")
    /\ IF running[savedTo[d]]
         THEN at' = [at EXCEPT ![d] = "push"] /\ UNCHANGED <<savedTo, offered, pindex>>
         ELSE Return(d)
    /\ UNCHANGED <<saverVars, context, program, threads, disk, history>>

\* FS_RINGBUFFER_PUSH_FORCE: the load of head.
LoadHead(d) ==
    LET s == savedTo[d] IN
    /\ DeviceAt(d, "push")
    /\ at' = [at EXCEPT ![d] = "fill"]
    /\ pindex' = [pindex EXCEPT ![d] = head[s]]
    /\ mixed' = (mixed \/ Pushing(s, PushPlaces) \/ Resetting(s)
                       \/ (Listening(s) /\ context[d] # s))
    /\ UNCHANGED <<saverVars, context, program, savedTo, offered, threads, disk, received,
                   confused>>

\* History: the session that listens to saver s, if there is one, has these packets too.
Received(of, s, packets) ==
    [f \in Sessions |-> IF Listening(s) /\ f = file[s] THEN of[f] \cup packets ELSE of[f]]

\* The slot is written, whether or not it is free.
Fill(d) ==
    LET s == savedTo[d]
        full == count[s] >= QueueLength
    IN
    /\ DeviceAt(d, "fill")
    /\ at' = [at EXCEPT ![d] = "bump"]
    /\ slots' = [slots EXCEPT ![s][pindex[d]] = offered[d]]
    /\ accepted' = Received(accepted, s, {offered[d]})
    /\ dropped' = Received(dropped, s, IF full THEN {slots[s][pindex[d]]} ELSE {})
    /\ mixed' = (mixed \/ (full /\ Popping(s, PopPlaces)))
    /\ UNCHANGED <<running, file, head, tail, count, context, program, savedTo, offered, pindex,
                   threads, disk, from, confused>>

\* A step of the push that leaves the slots; pc is where it goes on.
PushStep(d, place, pc) ==
    /\ DeviceAt(d, place)
    /\ at' = [at EXCEPT ![d] = pc]
    /\ UNCHANGED <<running, file, slots, context, program, savedTo, offered, threads, disk,
                   history>>

StoreHead(d) ==
    LET s == savedTo[d] IN
    /\ PushStep(d, "bump", "count")
    /\ head' = [head EXCEPT ![s] = Succ(pindex[d])]
    /\ UNCHANGED <<tail, count, pindex>>

LoadCount(d) ==
    LET s == savedTo[d] IN
    /\ PushStep(d, "count", IF count[s] < QueueLength THEN "add" ELSE "oldest")
    /\ UNCHANGED <<ringVars, pindex>>

LoadTail(d) ==
    LET s == savedTo[d] IN
    /\ PushStep(d, "oldest", "drop")
    /\ pindex' = [pindex EXCEPT ![d] = tail[s]]
    /\ UNCHANGED ringVars

\* The last step of a push, after which fs_save_on_packet returns.
PushEnds(d, place) ==
    /\ DeviceAt(d, place)
    /\ Return(d)
    /\ UNCHANGED <<running, file, head, slots, context, program, threads, disk, history>>

\* atomic_fetch_add wraps around.
AddCount(d) ==
    LET s == savedTo[d] IN
    /\ PushEnds(d, "add")
    /\ count' = [count EXCEPT ![s] = (@ + 1) % Modulus]
    /\ UNCHANGED tail

\* Bug: tail stays at the packet that was overwritten.
StoreTailStays(d) == PushEnds(d, "drop") /\ UNCHANGED <<tail, count>>

StoreTail(d) ==
    LET s == savedTo[d] IN
    /\ PushEnds(d, "drop")
    /\ tail' = [tail EXCEPT ![s] = Succ(pindex[d])]
    /\ UNCHANGED count

\* What a task that has a packet goes on with.
Deliver(d) == \/ LoadContext(d) \/ TestRunning(d)
              \/ LoadHead(d) \/ Fill(d) \/ StoreHead(d) \/ LoadCount(d)
              \/ AddCount(d) \/ LoadTail(d) \/ StoreTail(d)

BackgroundTask(d) == TestContext(d) \/ Deliver(d)

-----------------------------------------------------------------------------
(* save_thread_func, the thread of session t.                              *)

Goto(t, pc) == tpc' = [tpc EXCEPT ![t] = pc]
ThreadAt(t, pc) ==
    /\ Followed /\ tpc[t] = pc
    /\ UNCHANGED <<running, file, head, slots, context, program, background,
                   tsaver, open, received, confused>>

Begin(t) ==
    /\ ThreadAt(t, "begin")
    /\ Goto(t, IF file[tsaver[t]] = 0 THEN "ended" ELSE "loop")
    /\ UNCHANGED <<tail, count, ttail, tpacket, tline, fbuf, rows, mixed>>

Loop(t) ==
    /\ ThreadAt(t, "loop")
    /\ Goto(t, IF running[tsaver[t]] THEN "take" ELSE "ended")
    /\ UNCHANGED <<tail, count, ttail, tpacket, tline, fbuf, rows, mixed>>

\* Bug: a thread that finds the ring empty has done its work.
TakeOnce(t) ==
    LET s == tsaver[t] IN
    /\ ThreadAt(t, "take")
    /\ Goto(t, IF count[s] = 0 THEN "ended" ELSE "index")
    /\ UNCHANGED <<tail, count, ttail, tpacket, tline, fbuf, rows, mixed>>

\* FS_RINGBUFFER_POP: the load of count.
Take(t) ==
    LET s == tsaver[t] IN
    /\ ThreadAt(t, "take")
    /\ Goto(t, IF count[s] = 0 THEN "loop" ELSE "index")
    /\ mixed' = (mixed \/ (count[s] = QueueLength /\ Pushing(s, Written)))
    /\ UNCHANGED <<tail, count, ttail, tpacket, tline, fbuf, rows>>

PopTail(t) ==
    /\ ThreadAt(t, "index")
    /\ Goto(t, "copy")
    /\ ttail' = [ttail EXCEPT ![t] = tail[tsaver[t]]]
    /\ UNCHANGED <<tail, count, tpacket, tline, fbuf, rows, mixed>>

Copy(t) ==
    /\ ThreadAt(t, "copy")
    /\ Goto(t, "commit")
    /\ tpacket' = [tpacket EXCEPT ![t] = slots[tsaver[t]][ttail[t]]]
    /\ UNCHANGED <<tail, count, ttail, tline, fbuf, rows, mixed>>

Commit(t) ==
    /\ ThreadAt(t, "commit")
    /\ Goto(t, "uncount")
    /\ tail' = [tail EXCEPT ![tsaver[t]] = Succ(ttail[t])]
    /\ ttail' = [ttail EXCEPT ![t] = 0]
    /\ UNCHANGED <<count, tpacket, tline, fbuf, rows, mixed>>

\* Bug: the packet is not counted out.
UncountForgets(t) ==
    /\ ThreadAt(t, "uncount")
    /\ Goto(t, "format")
    /\ UNCHANGED <<tail, count, ttail, tpacket, tline, fbuf, rows, mixed>>

\* atomic_fetch_sub wraps around, too.
Uncount(t) ==
    LET s == tsaver[t] IN
    /\ ThreadAt(t, "uncount")
    /\ Goto(t, "format")
    /\ count' = [count EXCEPT ![s] = (@ + Modulus - 1) % Modulus]
    /\ UNCHANGED <<tail, ttail, tpacket, tline, fbuf, rows, mixed>>

\* format_packet prints the fields into static buffers ...
Format(t) ==
    /\ ThreadAt(t, "format")
    /\ Goto(t, "print")
    /\ fbuf' = tpacket[t]
    /\ UNCHANGED <<tail, count, ttail, tpacket, tline, rows, mixed>>

\* ... and the line from the packet's type and time and those buffers.
PrintLine(t) ==
    /\ ThreadAt(t, "print")
    /\ Goto(t, "test")
    /\ tline' = [tline EXCEPT ![t] = [of |-> tpacket[t], fields |-> fbuf]]
    /\ tpacket' = [tpacket EXCEPT ![t] = 0]
    /\ UNCHANGED <<tail, count, ttail, fbuf, rows, mixed>>

\* Bug: a thread that finds the file closed waits for the next one.
TestFileWaits(t) ==
    /\ ThreadAt(t, "test")
    /\ Goto(t, IF file[tsaver[t]] = 0 THEN "test" ELSE "write")
    /\ UNCHANGED <<tail, count, ttail, tpacket, tline, fbuf, rows, mixed>>

TestFile(t) ==
    /\ ThreadAt(t, "test")
    /\ IF file[tsaver[t]] = 0
         THEN Goto(t, "loop") /\ tline' = [tline EXCEPT ![t] = Blank]
         ELSE Goto(t, "write") /\ UNCHANGED tline
    /\ UNCHANGED <<tail, count, ttail, tpacket, fbuf, rows, mixed>>

\* fprintf loads saver->file again.  What it does with NULL or a FILE that was
\* closed is undefined; here the row is in no file.
Write(t) ==
    LET f == file[tsaver[t]] IN
    /\ ThreadAt(t, "write")
    /\ Goto(t, "take")
    /\ rows' = IF f \notin open THEN rows ELSE [rows EXCEPT ![f] = Append(@, tline[t])]
    /\ tline' = [tline EXCEPT ![t] = Blank]
    /\ UNCHANGED <<tail, count, ttail, tpacket, fbuf, mixed>>

Thread(t) == \/ Begin(t) \/ Loop(t)
             \/ Take(t) \/ PopTail(t) \/ Copy(t) \/ Commit(t) \/ Uncount(t)
             \/ Format(t) \/ PrintLine(t) \/ TestFile(t) \/ Write(t)

Next ==
    \/ Program
    \/ \E d \in Devices : BackgroundTask(d)
    \/ \E t \in Sessions : Thread(t)

\* The system schedules every thread that is not blocked, the program's too while
\* it is in a call; nothing makes the program call, or a packet come.
Fairness ==
    /\ WF_vars(Continue)
    /\ \A d \in Devices : WF_vars(Deliver(d))
    /\ \A t \in Sessions : WF_vars(Thread(t))

Spec == Init /\ [][Next]_vars /\ Fairness

-----------------------------------------------------------------------------
(* Properties.                                                             *)

\* The packets that a push has in the ring of the saver of session f and has not
\* counted, and the packet a thread of that saver has taken out.
InFlight(f) ==
    LET s == tsaver[f]
        holders(places) == {u \in Sessions : tsaver[u] = s /\ tpc[u] \in places}
    IN
    {offered[d] : d \in {e \in Devices : savedTo[e] = s /\ at[e] \in Written}}
    \cup {tpacket[u] : u \in holders({"uncount", "format", "print"})}
    \cup {tline[u].of : u \in holders({"test", "write"})}

\* The packets in a ring: a pop moves tail before it counts.
Held(s) == IF Popping(s, {"uncount"}) THEN count[s] - 1 ELSE count[s]
Queued(s) == {slots[s][(tail[s] + k) % QueueLength] : k \in 0 .. Held(s) - 1}
RowsOf(f) == {rows[f][i].of : i \in DOMAIN rows[f]}

\* A file holds packets of one device in the order of arrival, none twice, and each row
\* has the fields of its own packet, however the accesses of pushes, of pops and of the
\* program's calls interleave, as long as the run is Clean: one device and one thread use
\* a ring, no push overlaps an FS_RINGBUFFER_INIT (a task that saw an earlier session
\* RUNNING may still push when the next one begins), and no push finds the ring full
\* during a pop, or overwrites when one begins (PacketQueue shows what comes of that).
RowsInOrderOnce ==
    Clean => \A f \in Sessions : \A i, j \in DOMAIN rows[f] :
        /\ rows[f][i].of \in accepted[f]
        /\ rows[f][i].fields = rows[f][i].of
        /\ from[rows[f][i].of] = from[rows[f][j].of]
        /\ i < j => rows[f][i].of < rows[f][j].of

\* Session f is going on: fs_save_begin_device has returned and nothing ended it.
InSession(f) ==
    tpc[f] \notin {"none", "opened"} /\ file[tsaver[f]] = f /\ running[tsaver[f]]

\* While a session is going on every packet that fs_save_on_packet pushed into its ring
\* is in the file, in the hands of the thread or of the push, in the ring, or was
\* overwritten in a full ring, at every access to the ring, with the same exceptions.
NothingLostWhileSaving ==
    Clean => \A f \in open : InSession(f) =>
        accepted[f] = RowsOf(f) \cup InFlight(f) \cup Queued(tsaver[f]) \cup dropped[f]

\* Every FILE that is open can still be closed: it is the file of a saver, as
\* long as each saver is used for one device.  (fs_save_begin_device looks at the
\* device's saver, not at its own: a second device loses the first one's file.)
NoFileLeaked == confused \/ \A f \in open : \E s \in Savers : file[s] = f

\* A thread ends once its session is ended, unless the next session begins
\* before it looks.
ThreadsEnd ==
    \A t \in Sessions :
        Alive(t) /\ ~running[tsaver[t]] ~> tpc[t] = "ended" \/ running[tsaver[t]] \/ ~Clean

\* What a session took is written, unless a full ring overwrites it or the program
\* ends the session, at the latest when no packet has come for a while (the thread
\* takes the oldest first, so a packet is written however many come after it).
TakenIsWritten ==
    \A f \in Sessions :
        InSession(f) ~> ~Clean \/ ~InSession(f) \/ accepted[f] \subseteq RowsOf(f) \cup dropped[f]
=============================================================================
