# A TLA+ model of the Trifecta SDK

The Trifecta SDK is a C driver that a host program links to talk to IMU, AHRS
and INS devices over TCP and UDP or over a serial line. This directory models
its concurrent and stateful core, checks it with TLC and proves the results
that matter most with TLAPS. The C sources are the reference: each definition
names in its comment the code it stands for, and `PROJECT.json` gives the lines.

Contents: 1 the system, 2 the modules, 3 the runs, 4 bounds and fairness,
5 the proofs, 6 what the runs found, 7 what is not modelled, 8 the plan.

## 1. The system

A program owns one `fs_device_info_t`, the *handle*, per device. Whatever
happens to a device happens through its handle, which is shared by the
application's thread and the background tasks of the driver. The handle has a
mutex; the common code creates and destroys it and never takes it.

| Component | State | Operations | Talks to |
| --- | --- | --- | --- |
| Lifecycle and commands (`common/FS_Trifecta.c`) | `communication_mode`, `status`, driver configuration | `fs_initialize_networked`, `fs_initialize_serial`, `fs_closedown`, `fs_reboot_device`, the `fs_set_...` commands, the two queries | transports |
| Network transport (`common/FS_Trifecta_Networked.c`) | sockets, `status`, the static `device_port_map` | start, exit, TCP thread (replies), UDP thread (packets) | platform sockets, parser |
| Serial transport (`common/FS_Trifecta_Serial.c`) | port handle, `status` | start, exit, one thread that reads and reconnects | platform port, parser |
| Parser (`common/FS_Trifecta_Device.c`, `..._Device_Utils.c`) | `data_buffer`, `command_queue`, the static `current_decode_buffer` | frame search, Base64 decoding, segmentation, command handling | packet queue, attributes |
| Packet queue (`include/FS_Trifecta_Defs_Ringbuffer.h`, the two files above) | `packet_buf_queue`, `last_received_packet` | forced push (background), pop, peeks and latest copy (application) | saver |
| Getters (`common/FS_Trifecta_Packet_Utils.c`) | none | read fields of the latest packet by its type | packet queue |
| Saver (`common/FS_Trifecta_Saver.c`) | a session per recording, per device a ring, a thread and a file | begin, end, `fs_save_on_packet` | packet queue, files |
| Replay (`common/FS_Trifecta_Replay.c`) | file, header layout, line index | open, read next, read a line, size, close | files |
| Platform interfaces (`linux`, `windows`, `android`, `esp-idf`, `stm32`) | descriptors | threads, sockets, serial port, delays | operating system |
| Java bindings | none | native method declarations | Android interface |

How they interact: a transport's thread reads bytes and calls
`fs_device_parse_packet` or `fs_handle_received_commands`; the parser writes
attributes into the handle and pushes packets on the queue, which copies them to
`last_received_packet` and, when a save session is attached, on to the saver's
ring. The application polls the queue from its own thread. Closing down writes
`IDLE` into the status word, which the threads poll, and clears the handle; no
thread is joined.

What is hard about it, component by component, and what would make it correct:

* **Packet queue.** Two threads, three atomic words that move one at a time, and
  elements that are not atomic; the pusher advances the popper's index when the
  ring is full. Correct: order, no loss but at a full ring, no stale or torn
  packet, the count exact and in range.
* **Command parsing.** A queue that is drained only on success; malformed input
  in the middle of a buffer; bounds of the payload. Correct: each command of a
  well-formed buffer is handled once and in order, and no attribute is made of
  bytes that did not stand together.
* **Serial framing.** Frames, replies and line ends in one byte stream cut
  anywhere; a byte ring that overwrites; lost bytes. Correct: every frame arrives
  once, whole and in order, nothing is made up, and the loop ends.
* **Decode buffers.** A static buffer under one thread per device. Correct: a
  device's packets are its own, or at least those of no thread that was not in the buffer.
* **Discovery and ports.** A socket that outlives the call and buffers between calls,
  a table of ports that is never cleared, three platforms that differ. Correct: a list
  holds what was heard, and devices that are in use together are told different ports.
* **Lifecycle and transports.** A status word stored by up to four threads,
  handles cleared under running threads, partial failures of the start, queries
  answered later. Correct: after a closedown every thread ends, a failed start
  leaves a handle that can be started again, a running device can be closed down.
* **Saver.** A context pointer tested and used without a lock, a ring with a
  second consumer after end and begin, files closed under the thread. Correct:
  every packet is in the file once and in order, unless the ring was full.
* **Replay.** A line index built on the way, a file position that three
  operations share, files cut by a crash. Correct: line *n* is line *n*, and what was
  saved is read back.
* **Getters.** Six packed structs in a union. Correct: a field comes from the struct
  that the packet is.

`PROJECT.json` lists each hazard at its line with the properties that cover it.

## 2. The modules

| Module | What it is |
| --- | --- |
| `RingBuffer` | the ring of the `FS_RINGBUFFER_...` macros, one operator per atomic access |
| `PacketQueue` | the two threads that use it, the latest packet, the inductive invariant, the refinement mapping |
| `DropOldestQueue` | the abstract queue the documentation promises |
| `CommandQueue`, `MCCommandQueue` | segmentation and handling of commands |
| `SerialFraming`, `MCSerialFraming` | the serial receive path; it extends `CommandQueue` |
| `DecodeBuffer` | the decode buffers of several devices, serial and network |
| `Lifecycle` | starts, closedowns and tasks of one handle on Linux, and the descriptor table |
| `SaveSession`, `MCSaveSession` | the calls, the rings, the threads and the files of savers |
| `PacketLayout` | the packed structs of the packets, and what each getter reads of a packet of any type |
| `Recording` | the file of a session, from the packet through the saver's columns, a crash and the replay's index back to a packet; it extends `PacketLayout` |
| `Discovery`, `DiscoveryRepeated` | the discovery of devices, and the ports they are told; a program that calls it again and again |
| `MCReceived` | instances of `PacketQueue`, `DecodeBuffer` and `Discovery`, which share no state; its variable `part` says which of them an instance is |
| `PacketQueueProofs`, `DecodeBufferProofs`, `SaveSessionProofs`, `LifecycleProofs`, `RecordingProofs`, `DiscoveryProofs`, `CommandQueueProofs`, `SerialFramingProofs` | the theorems about the module each is named after, with their lemmas and proofs (section 5) |

**PacketQueue.** `head`, `tail`, `count` and `slots` are the ring's fields;
`rpc`, `rhead`, `rtail` are the background task's place in
`fs_enqueue_into_packet_queue` and its locals; `apc`, `aop`, `apos`, `atail`, `out`
the application's place in an accessor, its argument, its local and its buffer. Each
atomic load, store and fetch-and-add is an action. An element is copied in two
halves, the coarsest copy that can tear. The nth packet is the number n, the
zeroed memory of a new handle is 0. `sent`, `taken`, `lost`, `popped`, `full` and
`clash` are history. `clash` says that a push that found the ring full has
overlapped an accessor: the code gives no guarantee after that, and the safety
properties come in two kinds, those that hold regardless (`CountInRange`,
`OnlyReceivedPackets`) and those that hold until then; `ImplementsDropOldest` maps every
step up to the clash to a step of `DropOldestQueue` or none. A racing copy of a C struct is undefined behaviour; the
model lets each half be old or new, which is what the compiled copies do.

**CommandQueue.** A call of `fs_handle_received_commands` is one step, since one
thread makes it and nobody else reads the queue. `Segment` folds the C loop body
over the bytes with its locals in a record; `AfterBuffer` adds the drain, which is
skipped when `fs_segment_commands` did not return 0. The attribute letters are a
set, of which those in `Numbers` are read with `atoi`. The properties quantify over
every buffer in every reachable state of the queue. A buffer without a terminator
(`Fragment`) is one of them: `fs_segment_commands` returns 0 for it, and what earlier
failing calls left in the queue is handled.

**SerialFraming.** `data` is `data_buffer` (a sequence: its head and tail
indices are those of `fs_cb_push` and `fs_cb_pop`), `decoded` is
`current_decode_buffer`, `line` is what the device has sent and `read` has not yet
returned. `Receive` is one `read` with its `fs_cb_push`; `ScanBinary`,
`ScanBase64`, `ScanCommands` and `ScanNothing` are the outcomes of one turn of
the `while (1)`, with the pop that ends it. A packet is two bytes and Base64 text is
written as what it decodes to. Losing a byte of it therefore stands for a loss of a
multiple of four characters; any other loss leaves an incomplete last group, which
the decoder takes for an invalid character, and is `Garble`. A garbled byte arrives as any
byte of `Noise`, delimiters and `=` among them. `fs_base64_decode` does not step over a
`=`: where one is the first invalid character of a text that is not refused for its size,
the thread fills the decode buffer with zeros and never returns (`DecodeForEver`, the
`pc` "stuck"). What the device may send
is a constant, `Streams`; the assumption `StreamConstants` says what is in it: frames with
packets (`HasPackets`), none of which has a delimiter inside, and between them text
(`TextFrame`: no header, no footer, a terminator only at its end). `stream` is what is sent
and `carried` the same frames as the line carries them, without the bytes it loses or
garbles; `lost` notes which frames those were in, `delimited` that the line made a delimiter.
All are history: no action reads more of them than the place of the byte that is hit.
`Spared` says that no frame with packets was hit and that no delimiter was made.

**DecodeBuffer.** One thread per device; a serial device decodes into `shared`, a
network device copies into its own `pkt`. The steps are the two halves of the
decoding, the test of the type, the two halves of the copy to the ring's slot and
the two halves of the copy to `last_received_packet`. The ring itself is left to
`PacketQueue`: `slot` is the newest of its slots. Any number of devices may be serial;
`disturbed` is history, the frames during whose handling another serial thread wrote the
buffer they share.

**Lifecycle.** `mode`, `status`, `tcp`, `udp`, `port`, `addressed` and `pathed` are
fields of the handle; `owner` is the process's table of descriptors, which says what
is open under each number, so that a number closed twice may be somebody else's.
`todo` is what the program's call has still to do, step by step, as sequences such as
`NetStart` and `NetExit` that follow the order of the C statements; a failing step
replaces it by the failure path (`NetAbort`, `SerialAbort`). `rc` and `sock` are the
call's locals. A task is a record of `task` with its place in the loop of
`fs_tcp_update_thread`, `fs_udp_update_thread` or `fs_serial_update_thread` and the
descriptor its read was given. Steps end at stores of the status word and at calls of
the operating system. A handle begins as `FS_DEVICE_INFO_UNINITIALIZED` or, with
`Blank`, as the zeros of `= {0}`; `fs_closedown` leaves zeros too. Zeros mean mode
`USB_CDC`, status `IDLE` and descriptor 0, hence the history variable `zeroed`;
`refused` says that a task could not be created. Bytes, replies and packets are left to
the other modules.

**SaveSession.** `running`, `file`, `head`, `tail`, `count` and `slots` are the fields of
each saver, `context` the `save_context` of each device. A session is the number of the
FILE it opened; `open` says which FILEs are open, `rows` what was printed to each. `todo`
is what the program's call has still to do, statement by statement as far as another thread
can see it, the three stores of `FS_RINGBUFFER_INIT` included (`ZeroHead`, `ZeroTail`,
`ZeroCount`); `at`, `savedTo`, `offered` and `pindex` are the background task of each device
between its two loads of `save_context`, its test of `running` and the loads and stores of
its push (`LoadHead` to `StoreTail`); `tpc` and the variables next to it are the thread of
each session, which goes through the loads and stores of its pop (`Take` to `Uncount`), the
two halves of `format_packet`, the test of the file and the write. So a push that saw an
earlier session `RUNNING` can be in the middle of the ring while the next session resets it.
What such a push leaves is no queue, and a push that finds the ring full while a pop is
under way moves the index that the pop stores too: `mixed` notes both, and two threads or
two devices at one ring, or two threads in the static field buffers; `confused` notes a
saver given to a second device. Both are history. The properties about rows are about the
programs in which neither has happened (`Clean`), and `FollowMixed = FALSE` does not follow
the others further. What a write to a FILE that another thread has just closed does is
undefined; the model lets the row be lost.

**PacketLayout, Recording.** Values of fields are not modelled, but where they come from:
`Read(view, k, g)` says what a group `g` of fields of union member `view` holds when the
packet is of kind `k` (its own value, the lower half of it, bytes of other fields, or bytes
beyond the packet), computed from the widths of the structs; the sizes that
`FS_STATIC_ASSERT` states are an assumption TLC checks. `Recording` writes rows with `Cell`,
may cut the last one anywhere (`Kill`), and reads them with the names of the header
(`FieldForColumn`) and the switch of `fs_replay_parse_packet` (`Parsed`). A row is a number
of a type, whether it is longer than the 511 characters the reader takes, and how many of
its columns are whole. `replay` is the `fs_replay_t` with its index and the file position,
`reply` what the last call returned, `got` the history of what reading on gave.

**Discovery, DiscoveryRepeated.** One call of `fs_listen_for_udp_broadcasts` is the steps that open the
socket, poll, receive and return, with `list` and `discovered` as its state; Android polls
before every broadcast and goes on after an error, Linux and Windows do neither. `map` and
`next` are `device_port_map` and `next_index`, `told` the port a device was sent, `socket`
the one the host is bound to. `DiscoveryRepeated` adds the history of which devices the
calls have listed.

## 3. The runs

| Run | Question | Result |
| --- | --- | --- |
| `received` | which guarantees of the packet queue survive without a lock, and is it the queue of `DropOldestQueue` as long as no overwriting push overlaps an accessor? whose packets does a device keep? what does a discovery list contain, and which devices share a port? | all listed properties hold; 1.4 million states |
| `pop_returns_oldest` | does a pop return the oldest packet in every program? | no, see 6 |
| `command_queue` | is a clean buffer handled as the reference says, after any history, and what does a full queue hear? | yes; nothing, until a fragment drains it; 456 states |
| `serial_framing` | does every frame arrive, however the stream is cut? | yes, until `data_buffer` overflows; after that packets are lost but never made up or reordered; a byte of a reply that is lost, or garbled into anything but a delimiter, costs no frame; each turn makes progress but for `=` in the buffer; 377 thousand states |
| `last_packet_is_from_device` | is the last packet received from a serial device its own when there are two? | no, see 6 |
| `lifecycle` | what do failed starts, starts and closedowns leave open, what do they close, and do tasks recover and end? | all listed properties hold; 61 thousand states |
| `example_is_connected` | does a handle of zeros work? | no, see 6 |
| `closedown_releases_task` | does the serial task end after every closedown? | no, see 6 |
| `save_session` | what is in the files, what is lost, and do the threads end, whatever the order of calls, packets, threads and accesses to the ring? | all listed properties hold, those about rows in programs that are `Clean`; 237 thousand states |
| `recording` | does what was saved come back, row by row and by number, after a crash too, and do the getters read the right fields? | yes, with the exceptions the properties name |
| `read_line_returns_row` | does `fs_replay_read_line` return the row it is asked for? | no, see 6 |
| `calls_accumulate` | do repeated discovery calls accumulate devices? | no, see 6 |

`CleanBufferMeetsReference` compares the state machine of the C code with a
declarative reading of the buffer (what stands between two terminators).
`EveryFrameArrives`, `OnlySentPacketsInOrder` and `RepliesUnderstood` compare what the thread delivered with the list of what was sent,
whatever the cuts. `ClosesOnlyItsOwn` and `FailedStartHoldsNothing` relate the handle
to the descriptor table over all the orders in which calls and tasks can move. `FullQueueHearsNothing` states a
consequence of the code that its users should know: sixteen commands that failing calls left
behind make the queue deaf to every buffer that ends or breaks off a command, and what a
fragment then makes it do is to handle those old commands.
`NothingLostWhileSaving` accounts for every packet that a session took: it is in the file,
in the hands of the push or the thread, in the ring, or was overwritten in a full ring, at
every single access to the ring. `DecodedIsRecorded`
says what survives the way through a file: of the kinds C and C2 the measurements and the
motion, of a 64-bit time the lower half, never a temperature (the reader does not know the
name the saver gives that column), and never a field in the place of another, although the
saver reads time and temperature of every packet through the member `composite`.

Each property is paired in `PROJECT.json` with a mutant, an operator marked *Bug*
next to the definition it replaces, under which TLC finds the property violated.

## 4. Bounds and fairness

* `PacketQueue`: a ring of 3 slots and 5 packets. Three slots are the least for
  which the oldest, a middle and the newest packet differ; five packets overwrite
  twice and wrap the indices. The theorems (section 5) need
  neither bound. The violation appears with 2 slots.
* `CommandQueue`: buffers of up to 4 bytes over a name's letter, the baud rate's
  letter, a digit, the terminator and a line end; a queue of 2 and payloads of 2
  bytes, so that both fill up in one buffer; any number of calls.
* `SerialFraming`: up to 3 frames of 5 kinds: a Base64 frame, a binary frame of two
  packets, a reply with a name, one with a baud rate, a line end; of these one byte may be
  lost, or arrive as `@`, `!`, `=` or a type byte of another frame. Three frames are a reply
  between two frames with packets, which is what a made-up delimiter needs to do harm. A
  third reply may give the baud rate 0, which the driver ignores. The data
  buffer of 512 bytes holds two Base64 frames of 198 characters and a half; 10
  places hold two frames of 4 and a half. Reads return 1 to 10 bytes. The stream is
  finite, so the runs switch the deadlock check off: at the end the thread waits.
* `DecodeBuffer`: two serial devices with two frames each, which suffice to interfere, and
  a network device with one; the theorems hold for any number. The violation appears with
  two serial devices and a frame each. Deadlock is off for the same reason.

* `Lifecycle`: two starts, so that a second one meets the tasks of the first, over either
  transport; descriptors 0 and 3 to 6, enough for both sockets, a port and a file of the
  program's; one such file, which takes the first number that is free. With
  `Reopens = FALSE` the program starts a handle until it is open and does not start it
  again after the closedown; every number of closedowns and reboots is explored. The
  program may stop calling, so the deadlock check is off.

* `SaveSession`: one saver, two sessions, a ring of two slots, the least in which the oldest
  and the newest packet differ and `tail` goes round. An instance of `MCSaveSession` is one
  device with three packets, so that the ring overflows and goes round, whose program ends a
  session only by `fs_save_init`; or two devices with two packets, whose program ends
  sessions by the two other calls. A second saver only adds sessions that do
  not meet, except in the static field buffers, where `Clean` ends. The program may stop
  calling and every thread may have ended, so the deadlock check is off.
* `Recording`: up to four rows of six types: one that is replayed of each kind that is, and two
  that are refused. Four rows are one more than the longer index step, 3, so that a row
  has an entry before and behind it. A crash may cut a row in its first column, so that
  its type is lost, or behind the ninth, so that the velocities and all that follows is. The file is finite and may stay closed: the deadlock check is off.
* `Discovery`: three devices for a list and a table of two places, so that both overflow;
  one broadcast waiting in the socket, up to three in a call, four entries made.

`MCReceived` switches the deadlock check off for the devices of `DecodeBuffer`, which stop
when their frames are handled. Its symmetry exchanges addresses and serial devices; the
properties of that run are all safety properties and tell none from another.

`Lifecycle` and `SaveSession` assume fairness. In `Lifecycle` (`FairSpec`) the operating system runs the program
inside a call and every task (weak fairness of `ProgramStep` and of each `TaskStep(t)`;
nothing forces the program to make another call), and a serial port that is tried again
and again can be opened at last (strong fairness of `ReopenPort`: the attempt, not its
success, is what the code repeats every half second). `SerialReconnects` needs both,
`NetworkTasksEnd` only the first. In `SaveSession` the system runs every thread of a
session (weak fairness of `Thread(t)`) and the program within a call (of `Continue`);
so it does a background task in the middle of a packet (of `Deliver(d)`);
nothing makes the program call or a packet come. `ThreadsEnd` and `TakenIsWritten` rest on
that. Elsewhere, that
`fs_device_process_packets_serial` returns is stated as `TurnsShrinkData`: every
turn that is not the last makes `data_buffer` shorter, but for a turn that hangs in
`fs_base64_decode`, which needs a `=` in `data_buffer`.

## 5. The proofs

TLC checks the instances of section 4. The theorems hold for every value of the
constants, under the assumptions that the modules name. Each module of proofs has one
invariant that is inductive; the properties follow from it. Sets of numbers have least
elements (`LeastExists`, from the well-foundedness of `<`), and where an argument is an
induction it looks at the least counterexample.

**PacketQueueProofs** proves, for every length of the ring up to what a 16-bit count
can hold and every number of packets (`QueueLengthAssumption`, `MaxPacketsAssumption`),
all the properties of `PacketQueue` that the run `received` checks.

1. `BasicInv` (types and `CountInv`) is inductive by itself. Its core: a thread
   about to add to `count` has seen it below the length and one about to subtract
   has seen it above zero, and only the thread itself could have spoiled that. This
   gives `TypeCorrect` and `CountStaysInRange`, without any assumption on `clash`.
2. `WrittenInv` says that slots fill in order and `count` never passes what has been
   written; with `CopiedInv` it gives `OnlyReceivedAreReturned`, again in every program.
3. `QueueInv` is the conditional half: as long as `~clash`, `head` is `tail` plus the
   occupancy (`CountMatches`), with a push or a pop under way counted in
   (`Pending`, `Removing`), and slot `tail + k` holds packet `taken + k + 1`. The
   properties on their own are not inductive, since between the store of `tail` and
   the fetch-and-sub `count` and the indices disagree. `MatchedPush` and
   `MatchedAccessor` prove the arithmetic once, for all properties.
4. `ClashIsSticky` turns "until a clash" into an invariant.
5. `RefinesDropOldest` is the refinement of `DropOldestQueue`. The invariant makes the
   mapped queue the run of numbers behind `Gone` (`Numbered`), so that a step of the code
   is known by what it does to two numbers, how many packets have gone and how many are
   queued: it arrives (`Arrives`), pops (`Pops`) or stutters (`Stutters`), and each of the
   three is a step of the abstract queue.

**DecodeBufferProofs** proves `OwnPackets` for any set of devices, of which any number is
serial. The invariant `IInv` says what a thread that was not disturbed finds in its buffer,
and in the slot and the latest packet that it fills from it (`BufferOwned`, `SlotOwned`,
`LastOwned`), and of every thread which devices the bytes can come from (`FromSources`). A
step of one thread either leaves alone what another relies on or adds the other's frame to
`disturbed` (`OthersStep`); that the mixing happens is finding 5.

**SaveSessionProofs** proves all four invariants for any devices, savers, ring length and
number of sessions, with every access to the ring a step. `NoFileLeaked` rests on
`OwnerInv`: session numbers are used once, and each statement of the begin and the end of a
session knows which saver its FILE belongs to. The rows rest on `SaveInv`. As long as a
program is `Clean`: one thread is alive and its saver has its file (`ThreadInv`); a saver
is hooked to one device (`ContextInv`) and its queued packets are that device's and older
than the one it is pushing (`PacketInv`); the static field buffers hold one packet
(`LineInv`); and what was queued is in the file, in the hand of the thread, in the ring, in
the hand of the push or was dropped, in this order (`SessionInv`). The ring is read as a
queue at every access (`Base`, `Size`, `Entry`): a push is in it as soon as its slot is
written, whatever `head` and `count` still say, and a pop is out of it as soon as `tail` has
moved; `RingInv` says what the stored indices are meanwhile, for each place of the push
(`PushOK`) and of the pop (`PopOK`). This is what makes the properties inductive, and it is
where `Clean` is needed: without it two accesses that each are right leave a ring that is
no queue.

**LifecycleProofs** proves `TypeOK` with `TodoInv` (what is left of a call is one of the
lists of steps) for any descriptors and number of starts. `LifeInv` gives the other four
properties: as long as no task was refused, `CallInv` says where a call can be, `PhaseInv`
what that means for mode and status, `TaskInv` which tasks can run with which
(a network task never finds `ERROR`), `SocketsInv` which descriptors can still be sockets,
and `OwnInv` that a handle that was never zero memory holds its own sockets or none. It
needs `OneTransport`: a program that opens a handle again does not use it for the serial
transport. This is a premise of the theorems and not a habit of the proof: the task of a
closed serial session may go on (finding 3), and then closes what the next session opened;
TLC finds the properties violated without it. The run `lifecycle` is of such programs.

**RecordingProofs** proves all five invariants, for files of any length, cut anywhere, and
any step of the index. `ReplayInv` says that the index holds the row at the beginning of
each of its blocks (`IndexInv`), that what was read on are the readable rows before the
position (`GotInv`), and that only the last row can be cut, and only by a crash
(`RowsInv`). `DecodedIsRecorded` and `GettersReadOwn` are about the struct layouts:
`FieldOfPacket` and `PrintedIsKept` go through them field by field, so that every pair of
a packet type and the struct it is read through is covered.

**DiscoveryProofs** proves all three invariants for any addresses, lengths and number of
entries. `ListInv`: the entries of the list are the first broadcasts of different devices,
in order. `MapInv`: the kth address that got an entry has entry `(k - 1) % MaxDevices`
until that entry is taken again; two numbers less than `MaxDevices` apart have different
remainders, which is why the newest devices have ports of their own (`ToldInv`).

**CommandQueueProofs** proves all four invariants, for buffers of any length over any
bytes and any history of calls. `CommandConstants` asks no more of `Buffers` than that they
are sequences. The scan and the drain are folds; unfolding `FoldLeft` shows them to
be sequences of states, one per byte or command (`ScanStates`, `DrainStates`), and what a
call does follows from a statement about the state behind byte *n*: the queue's bounds
(`ScanType`), that a full queue stays as it is and that the call fails behind anything but a fragment (`Stuck`), that every queued payload stood in
the buffer (`Whole`), and that in a clean buffer the payloads are the reference's pieces up
to there (`Neat`). `NeatIsReference` counts terminators to match the two.

**SerialFramingProofs** proves all six properties of `serial_framing`, for any streams
that satisfy `StreamConstants`, however long the frames and the buffer, and for any number of
bytes that are lost or garbled, into any byte. It first places
frames in a stream: byte *x* is in one frame, frames end in order
(`FrameOfByte`, `EndsInOrder`), and what the delimiter scan finds in a window of the stream
is the next frame with packets that ends in it (`WholeFrameIsSeen`, `NothingBetween`,
`FrameFound`). The stream in question is `carried`: while the line spares the frames with packets,
`carried` holds the same packets as `stream`, since text that lost a byte, or got another that is no
delimiter, is still text
(`CarriedInv`, `CarriedIs`, `TextStaysText`). The inductive invariant is `FrameInv`: as long as
those frames are spared, `data` and `line` are what follows some place of `carried` (`Held`); the
packets delivered are among those of the frames that end before it, in order (`DeliveredSome`);
and until `data_buffer` overflows they are all of them, and the function does not return with a
frame that it could see (`DeliveredAll`, `NothingFound`). A byte that is lost later lies behind
the buffer, so that it moves only the ends of frames which are not yet read (`StreamStruck`,
`FrontLoss`). "Among, in order" is an embedding
(`Embeds`), which survives the overflow. Once `line` is empty, all frames have been read,
which gives `LossSparesFrames`; where nothing is lost, `carried` is `stream`, which gives
`FramesArrive`. `TurnsShrinkData` needs no invariant; that no `=` hangs the thread while the frames are
spared, which `LossSparesFrames` says too, follows since no text stands between a header and its footer.
That no delimiter is inside a frame is an assumption on what the device sends: nothing
escapes one in a binary packet, which is a hazard of `PROJECT.json`.

`RepliesUnderstood` is about lines that lose nothing and devices whose text is replies of at most
one payload, and line ends (`OnlyReplyText`). It needs more, since `ScanCommands` handles all that was peeked, frames
that are not whole included. `CollectedAt` says what `fs_segment_commands` has in its payload
behind each byte of a buffer that holds no whole frame with packets: of a reply the bytes up
to there, and nothing of what stands before it. A frame with packets can only be the last
thing in such a buffer, and its bytes are forgotten when the scan ends. Hence whatever is
queued is a whole reply (`Understood`), and the invariant `ReplyInv` follows: what is queued
and what the attributes hold is what replies say. For the last reply to win, `LastInv` follows a device that sends
replies only: *k* replies are popped, *m* are read to their end, and the attributes are what the
first *h* said, *k* <= *h* <= *m*, where those from *k* + 1 to *h* were handled and are still in
the buffer. A turn handles *k* + 1 to *m* in order (`AllQueued`, `RepliesHandled`), so that
handling some of them again leaves the last word to the same reply (`LastOneWins`).

So every invariant and every action property of a passing run is proved. Only model-checked
are the liveness properties `SerialReconnects`, `NetworkTasksEnd`, `ThreadsEnd`
and `TakenIsWritten`, since fairness is stated with ENABLED, which the provers do not
know; and the six violations of section 6.

Proving changed the model where it could not be reasoned about or was wrong.
`LastReplyWins` claimed more than the code does: a reply with the baud rate 0 is ignored
and the reply before it stays in force; the property now says so (`Says`) and the run has
such a reply. `Streams` and `Buffers` got the assumptions that their comments implied.
`AttributeFromReply` is false of replies longer than a payload, since
`fs_segment_commands` throws away the start of such a one and takes the rest for a command; this is
now a premise of `RepliesUnderstood` and not an assumption, so that the other theorems hold for
any text. `LostReplyByteCostsNoFrame` used to look at the letters that were lost, which
says nothing of a frame when replies and packets share letters; it now asks which frames were hit,
for which the model keeps `carried` and `lost`. `OnlySentPacketsInOrder` was about lines that lose
nothing and now holds while the frames with packets are spared. `Spared` excludes delimiters that
the line makes of other bytes, since one in front of a frame costs its packet; `FullQueueHearsNothing`
was a claim that a full queue is never drained, which a buffer without a terminator refutes; the
ring of a saver was a queue of atomic operations, in which the exceptions of `Clean` did not exist.

## 6. What the runs found

Each is a run that expects a violation, and a finding of `PROJECT.json` with the
lines of both sides.

1. A pop overlapped by an overwriting push moves `tail` back, and the oldest packet
   is no longer what the next pop returns. (The same overlap leaves `count` different
   from the number of packets queued, for good.)
2. A handle made with `= {0}`, as the documentation shows, closes stdin when it is
   initialized, and its UDP driver closes the TCP socket that was just connected and
   takes its number; the start returns 0 with one socket under both names.
3. The serial task of a closed device can store `ERROR` over the `IDLE` of
   `fs_closedown`, and then reconnects for ever.
4. `fs_replay_read_line` returns another row than the one it was asked for when the next
   entry of the index is nearer: it seeks there and cannot go back.
5. Two serial devices decode into one static buffer, and a packet of one is queued and kept
   as the last packet of the other (the rest of `OwnPackets` says what still holds then).
6. Repeated discovery calls do not accumulate devices, as `documentation/discovery.rst:34`
   and `FS_Trifecta.h:40` say: each begins the list anew, and a device of an earlier call
   is gone although the list has room.

More that the models show and a user should know of, each an exception that a property
names, or a thing that a property therefore does not claim:

* A malformed reply leaves commands queued, and once the queue is full every buffer that
  holds a command is refused; a buffer without one drains it (`FullQueueHearsNothing`).
* A reply byte that the line turns into `@` hides the Base64 frame behind it, which is
  popped with it (`Spared`); a `=` between a header and a footer hangs the serial thread
  (`TurnsShrinkData`).
* A Base64 frame that is too short is queued with bytes of the previous one, and a footer
  whose header is gone hides the whole frames behind it until it is overwritten.
* A task that cannot be created, or begins only after the closedown, stores `RUNNING` into
  a handle that is not open (`refused`, and the premise of `NetworkTasksEnd`).
* A saver that serves two devices loses the first one's FILE, which nobody can close any
  more (`confused`). A task that saw an earlier session running can push while the next one
  resets the ring, and stale packets are then written (`mixed`). Ending a session drops what is still in the ring. Two savers at once
  print into the same static field buffers, and rows then mix the fields of two packets.
* A replayed file ends for `fs_replay_get_size` and `fs_replay_read_line` at the first row
  of more than 511 characters; reading on goes past it. Packets of the S kinds and of the
  reserved types are saved but not read back. A number cut by a crash may still be a
  packet type, so a cut row can come back as a packet of zeros.
* `fs_get_velocity` and `fs_get_position` read the long struct for every INS type.
* On Linux and Android the UDP socket is bound to port 8888 whatever port the device was
  told, so a second device sends to a port where nobody listens
  (`NewestHaveOwnPorts` claims equality for Windows only), although
  `include/FS_Trifecta_Defs_Communication.h:66` calls it the port of the listener on the
  host.
* The code does not do what `documentation/initialization.rst` says of an empty address
  (the start fails, nothing is scanned) or of a preset device name (it is cleared).

## 7. What is not modelled

Values of packet fields and the arithmetic on them (floats); the text of log lines; the
`fs_set_...` commands, which format one string and send it; the two queries, which return
what the previous answer left; `crc16` and `validate`, which nobody calls;
`common/FS_Trifecta_Packet_Utils.c`, which no build compiles and which uses members that
do not exist. Java bindings and the mutex wrapper have no logic of their own. `Lifecycle`
is the Linux build; the other platforms differ in the thread start and in what a shutdown
stores. Of Windows and Android, discovery, the bound port and the unpacking of packets are
modelled; the ESP-IDF driver does not compile at this commit (it names a member `ip_port`),
and STM32 runs over a vendor library that is not in the repository. In `Lifecycle` a program
passes a valid or an empty address, and serial modes other than UART and USB CDC, which
the Linux driver refuses to read, are left out. Binary payloads that contain delimiter
bytes when they are sent are left out (a hazard of `PROJECT.json`); the line may put one
there. In `SaveSession`
files have different names; two sessions of one name overwrite each other. In `Recording`
a full disk and failures of `malloc` and `fseek` are left out, and so are headers
that another program wrote.

## 8. The plan

The modules are complete and the runs' invariants are proved. What is left is in `Lifecycle`:
safety lemmas behind `NetworkTasksEnd`, that a network task that has seen the handle closed
does not test it again; the liveness itself stays with TLC.
