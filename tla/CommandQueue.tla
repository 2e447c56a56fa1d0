---------------------------- MODULE CommandQueue ----------------------------
(***************************************************************************)
(* The command path of one device handle: fs_segment_commands cuts what    *)
(* was received into commands and pushes them on command_queue,            *)
(* fs_handle_received_commands pops them and writes the device attributes. *)
(* One thread runs it (the TCP thread, or the serial thread), so a call is *)
(* one step.  Bytes are strings: Terminator, LineEnd, and any other one.   *)
(***************************************************************************)
EXTENDS Naturals, SequencesExt

CONSTANTS CommandQueueLength,   \* FS_MAX_CMD_QUEUE_LENGTH
          CommandLength,        \* FS_MAX_CMD_LENGTH
          FieldLength,          \* the length of an attribute's char array
          Attributes,           \* the CMD_IDENTIFY... letters
          Numbers,              \* the ones whose value is read with atoi
          BaudRate,             \* CMD_IDENTIFY_PARAM_UART_BAUD_RATE
          Digits,               \* the digits but 0
          Buffers               \* bound: what one receive call may return

ASSUME CommandConstants ==
    /\ CommandQueueLength \in Nat \ {0}
    /\ CommandLength \in Nat \ {0, 1}
    /\ FieldLength \in Nat \ {0, 1}
    /\ BaudRate \in Numbers /\ Numbers \subseteq Attributes
    /\ \A buf \in Buffers : buf \in Seq(Range(buf))

VARIABLES commands,   \* command_queue
          device      \* device_descriptor and device_params, by attribute letter

commandVars == <<commands, device>>

Terminator == ";"       \* CMD_TERMINATOR
LineEnd    == "nl"      \* line feed, carriage return and NUL

-----------------------------------------------------------------------------
(* fs_segment_commands.                                                    *)

\* Its locals: the payload under construction, whether the state is READING,
\* and the value it returned, if it has.
Scan(q) == [queue |-> q, payload |-> <<>>, reading |-> FALSE, ret |-> "none"]

\* Bug: the check for a full queue is missing.
EndCommandUnbounded(s) ==
    [s EXCEPT !.queue = Append(s.queue, s.payload), !.payload = <<>>, !.reading = FALSE]

\* Bug: the state machine is not set back to waiting for a command.
EndCommandStaysReading(s) ==
    IF Len(s.queue) < CommandQueueLength
    THEN [s EXCEPT !.queue = Append(s.queue, s.payload), !.payload = <<>>]
    ELSE [s EXCEPT !.ret = "full"]

\* Bug: the oldest command gives way, as packets do (RINGBUFFER_PUSH_FORCE).
EndCommandForced(s) ==
    [s EXCEPT !.queue = Append(IF Len(s.queue) < CommandQueueLength THEN s.queue ELSE Tail(s.queue),
                               s.payload),
              !.payload = <<>>, !.reading = FALSE]

\* A terminator: fs_enqueue_into_command_queue, which fails on a full queue.
EndCommand(s) ==
    IF Len(s.queue) < CommandQueueLength
    THEN [s EXCEPT !.queue = Append(s.queue, s.payload), !.payload = <<>>, !.reading = FALSE]
    ELSE [s EXCEPT !.ret = "full"]

\* Bug: a line end within a command is skipped.
EndLineSkipped(s) ==
    IF s.reading THEN s ELSE [s EXCEPT !.payload = <<>>]

\* A line end is skipped between commands and fatal within one.
EndLine(s) ==
    IF s.reading THEN [s EXCEPT !.ret = "broken"] ELSE [s EXCEPT !.payload = <<>>]

\* When the payload is full it is thrown away with the byte, and what follows
\* starts a payload of its own.
AddByte(s, c) ==
    [s EXCEPT !.reading = TRUE,
              !.payload = IF Len(s.payload) < CommandLength - 1 THEN Append(s.payload, c)
                          ELSE <<>>]

ScanByte(s, c) ==
    CASE s.ret # "none"  -> s
      [] s.ret = "none" /\ c = Terminator -> EndCommand(s)
      [] s.ret = "none" /\ c = LineEnd    -> EndLine(s)
      [] OTHER -> AddByte(s, c)

\* An unfinished command at the end of the buffer is forgotten.
Segment(q, buf) == FoldLeft(ScanByte, Scan(q), buf)

-----------------------------------------------------------------------------
(* fs_handle_received_commands.                                            *)

\* atoi, without signs, spaces and zeros: the digits at the front, 0 if there is none.
Number(params) ==
    SubSeq(params, 1, Max({n \in 0 .. Len(params) : \A i \in 1 .. n : params[i] \in Digits}))

\* fs_safe_strncpy is given one less than the length of the field and keeps one
\* of these for the terminating NUL.
Stored(params) == SubSeq(params, 1, IF Len(params) < FieldLength - 2 THEN Len(params)
                                    ELSE FieldLength - 2)

Value(a, params) == IF a \in Numbers THEN Number(params) ELSE Stored(params)

\* The switch on the first byte.  A baud rate that is not positive is ignored.
Handle(dev, cmd) ==
    IF /\ cmd # <<>> /\ Head(cmd) \in Attributes
       /\ Head(cmd) = BaudRate => Number(Tail(cmd)) # <<>>
    THEN [dev EXCEPT ![Head(cmd)] = Value(Head(cmd), Tail(cmd))]
    ELSE dev

\* The queue is drained only when the whole buffer was segmented; else what
\* was pushed stays queued.
AfterBuffer(cmds, dev, buf) ==
    LET s == Segment(cmds, buf) IN
    IF s.ret # "none"
    THEN [commands |-> s.queue, device |-> dev]
    ELSE [commands |-> <<>>, device |-> FoldLeft(Handle, dev, s.queue)]

HandleBuffer(buf) ==
    /\ commands' = AfterBuffer(commands, device, buf).commands
    /\ device' = AfterBuffer(commands, device, buf).device

CommandInit ==
    /\ commands = <<>>
    /\ device = [a \in Attributes |-> <<>>]

CommandNext == \E buf \in Buffers : HandleBuffer(buf)

CommandSpec == CommandInit /\ [][CommandNext]_commandVars

-----------------------------------------------------------------------------
(* Properties.                                                             *)

Payload == Seq((UNION {Range(buf) : buf \in Buffers}) \ {Terminator, LineEnd})

CommandTypeOK ==
    /\ commands \in Seq(Payload) /\ Len(commands) <= CommandQueueLength
    /\ \A i \in 1 .. Len(commands) : Len(commands[i]) < CommandLength
    /\ device \in [Attributes -> Payload]

\* The reference: a command is what stands in front of a terminator, back to the
\* terminator or line end before it.
Ends(buf)     == {i \in 1 .. Len(buf) : buf[i] = Terminator}
Begin(buf, e) == 1 + Max({0} \cup {i \in 1 .. e - 1 : buf[i] \in {Terminator, LineEnd}})
Piece(buf, e) == SubSeq(buf, Begin(buf, e), e - 1)
Commands(buf) ==
    [n \in 1 .. Cardinality(Ends(buf)) |->
        Piece(buf, CHOOSE e \in Ends(buf) : Cardinality({i \in Ends(buf) : i <= e}) = n)]

\* A buffer in which no command is interrupted by a line end or too long.
Clean(buf) ==
    /\ \A i \in 1 .. Len(buf) - 1 : buf[i + 1] = LineEnd => buf[i] \in {LineEnd, Terminator}
    /\ \A i \in 1 .. Len(buf) : Len(Piece(buf, i)) < CommandLength

\* A clean buffer that fits is handled command by command in the order of the
\* bytes, after the ones earlier calls left queued, and leaves the queue empty.
CleanBufferMeetsReference ==
    \A buf \in Buffers :
        Clean(buf) /\ Len(commands) + Cardinality(Ends(buf)) <= CommandQueueLength =>
            AfterBuffer(commands, device, buf) =
                [commands |-> <<>>, device |-> FoldLeft(Handle, device, commands \o Commands(buf))]

\* Whatever arrives, an attribute changes only to bytes that stood together behind
\* its letter: commands are never spliced, neither within a buffer nor across two.
NoSplicedCommand ==
    \A buf \in Buffers : LET dev == AfterBuffer(commands, device, buf).device IN
        \A a \in Attributes : dev[a] # device[a] =>
            \E src \in {buf} \cup Range(commands) : \E i, j \in 1 .. Len(src) :
                src[i] = a /\ dev[a] = Value(a, SubSeq(src, i + 1, j))

\* A buffer that fs_segment_commands gets through without ending a command: there is
\* no terminator in it, and no line end behind a byte of a command.
Fragment(buf) ==
    \A i \in 1 .. Len(buf) :
        /\ buf[i] # Terminator
        /\ i > 1 /\ buf[i] = LineEnd => buf[i - 1] = LineEnd

\* What a full queue does with the next buffer.  One that ends a command, or breaks one
\* off, is refused, and neither the queue nor an attribute changes.  Only a fragment is
\* not refused: then the commands of earlier buffers are handled at last and the queue
\* is empty.  In no case is a byte of the buffer itself heard.
FullQueueHearsNothing ==
    Len(commands) = CommandQueueLength =>
        \A buf \in Buffers :
            AfterBuffer(commands, device, buf) =
                IF Fragment(buf)
                THEN [commands |-> <<>>, device |-> FoldLeft(Handle, device, commands)]
                ELSE [commands |-> commands, device |-> device]
=============================================================================
