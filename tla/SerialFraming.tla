--------------------------- MODULE SerialFraming ----------------------------
(***************************************************************************)
(* The serial receive path of one device: fs_device_process_packets_serial *)
(* keeps what read() returned in data_buffer, looks for a frame or a       *)
(* command, and hands it to segment_packets, base64_to_packet or           *)
(* fs_handle_received_commands (module CommandQueue).                      *)
(*                                                                         *)
(* A packet is two bytes here, the first one standing for the half that    *)
(* starts with the packet type; Base64 text is written as what it decodes  *)
(* to, a byte for each several characters.  Base64 frames are ":" packet   *)
(* "!", binary frames "@" packets, one byte, "!".                          *)
(***************************************************************************)
EXTENDS CommandQueue, FiniteSets

CONSTANTS DataLength,     \* FS_MAX_DATA_LENGTH, the length of data_buffer
          DecodeLength,   \* the length of current_decode_buffer
          TypeBytes,      \* bytes obtain_packet_length knows as a type
          NotBase64,      \* bytes that are no Base64 characters
          ZeroByte,       \* what static memory starts as; C_PACKET_TYPE_IMU is 0
          Streams,        \* bound: what the device may send, a sequence of frames each
          Noise,          \* bound: what a garbled byte may arrive as
          MaxLoss         \* bound: bytes the line loses or garbles

Header == ":"       \* PACKET_HEADER
HeaderV2 == "@"     \* PACKET_HEADER_V2
Footer == "!"       \* PACKET_FOOTER
Padding == "="      \* the character fs_base64_decode takes for padding

ASSUME FramingConstants ==
    /\ DataLength \in Nat \ {0} /\ DecodeLength \in Nat \ {0, 1} /\ MaxLoss \in Nat
    /\ ZeroByte \in TypeBytes /\ {LineEnd, Padding} \subseteq NotBase64
    /\ Terminator \notin Attributes

\* What the device sends: frames of packets, and between them text, replies or line
\* ends for instance.  None has a delimiter inside; nothing escapes one in a binary
\* packet.
Delimiters == {Header, HeaderV2, Footer, Terminator}
Plain(frame, from, to) == \A i \in from .. to : frame[i] \notin Delimiters

Base64Frame(frame) ==
    /\ Len(frame) = 4 /\ frame[1] = Header /\ frame[4] = Footer
    /\ frame[2] \in TypeBytes \ NotBase64 /\ frame[3] \notin NotBase64
BinaryFrame(frame) ==
    /\ Len(frame) > 2 /\ frame[1] = HeaderV2 /\ frame[Len(frame)] = Footer
    /\ Plain(frame, 2, Len(frame) - 1)
HasPackets(frame) == Base64Frame(frame) \/ BinaryFrame(frame)
TextFrame(frame) ==
    \A i \in 1 .. Len(frame) :
        /\ frame[i] \notin {Header, HeaderV2, Footer}
        /\ frame[i] = Terminator => i = Len(frame)
\* A reply without its terminator fits into a payload of fs_segment_commands.
ReplyFrame(frame) ==
    /\ Len(frame) <= CommandLength /\ frame[Len(frame)] = Terminator
    /\ Plain(frame, 1, Len(frame) - 1) /\ \A i \in 1 .. Len(frame) : frame[i] # LineEnd
LineFrame(frame) == \A i \in 1 .. Len(frame) : frame[i] = LineEnd

ASSUME StreamConstants ==
    /\ Delimiters \subseteq NotBase64
    /\ \A s \in Streams : s \in Seq(Seq(UNION {Range(s[n]) : n \in DOMAIN s}))
    /\ \A s \in Streams : \A n \in DOMAIN s :
         s[n] # <<>> /\ (HasPackets(s[n]) \/ TextFrame(s[n]))

VARIABLES
    data,       \* data_buffer, oldest byte first
    decoded,    \* current_decode_buffer
    packets,    \* what was passed to fs_enqueue_into_packet_queue
    pc,         \* "receive", "scan" in the loop of fs_device_process_packets_serial, or
                \* "stuck" in that of fs_base64_decode
    line,       \* bytes sent and not yet read
    \* History:
    stream,     \* all the frames and text the device sends
    carried,    \* stream as the line carries it: without what is lost or garbled
    lost,       \* the frame of each byte the line lost or garbled, by its number
    delimited,  \* the line has garbled a byte into a delimiter
    overrun     \* fs_cb_push has overwritten unread bytes

vars ==
    <<data, decoded, packets, pc, line, stream, carried, lost, delimited, overrun, commandVars>>

Zeroed == [i \in 1 .. DecodeLength |-> ZeroByte]

Init ==
    /\ CommandInit
    /\ data = <<>> /\ packets = <<>> /\ pc = "receive"
    /\ decoded = Zeroed
    /\ stream \in Streams /\ line = FlattenSeq(stream)
    /\ carried = stream /\ lost = <<>> /\ delimited = FALSE /\ overrun = FALSE

-----------------------------------------------------------------------------
(* fs_scan_delimiters; positions count from 1 and 0 stands for -1.         *)

Positions(buf, c) == {i \in 1 .. Len(buf) : buf[i] = c}
FirstOf(S) == IF S = {} THEN 0 ELSE Min(S)
LastOf(S)  == IF S = {} THEN 0 ELSE Max(S)

\* The header nearest to the first footer that has a header before it.
HeaderIndex(buf, c) ==
    LET footer == FirstOf({f \in Positions(buf, Footer) : \E h \in Positions(buf, c) : h < f})
    IN  LastOf({h \in Positions(buf, c) : h < footer})

ScanDelimiters(buf) ==
    [colon     |-> HeaderIndex(buf, Header),
     binary    |-> HeaderIndex(buf, HeaderV2),
     exclam    |-> FirstOf(Positions(buf, Footer)),
     semicolon |-> FirstOf(Positions(buf, Terminator))]

-----------------------------------------------------------------------------
(* segment_packets and base64_to_packet.                                   *)

\* The packets at the front of body: up to a byte that is no packet type, or to
\* a packet that is not all there.
SegmentPackets(body) ==
    LET whole(n) == \A i \in 1 .. n : 2 * i <= Len(body) /\ body[2 * i - 1] \in TypeBytes
        count    == Max({n \in 0 .. Len(body) : whole(n)})
    IN  [i \in 1 .. count |-> <<body[2 * i - 1], body[2 * i]>>]

\* What fs_safe_strnlen takes for the text: it ends at a NUL, which LineEnd may be.
Texts(segment) ==
    {segment} \cup {SubSeq(segment, 1, i - 1) : i \in Positions(segment, LineEnd)}

Invalid(text)   == {i \in 1 .. Len(text) : text[i] \in NotBase64}
Decodable(text) == Len(text) <= DecodeLength /\ Invalid(text) = {}
Padded(text)    == Invalid(text) # {} /\ text[Min(Invalid(text))] = Padding

\* What a text leaves in the decode buffer: an invalid character ends the decoding,
\* what is not written stays, and a text that is too long is refused.
Decode(old, text) ==
    LET size == IF Invalid(text) = {} THEN Len(text) ELSE Min(Invalid(text)) - 1
    IN  IF Len(text) > DecodeLength THEN old
        ELSE [i \in 1 .. DecodeLength |-> IF i <= size THEN text[i] ELSE old[i]]

-----------------------------------------------------------------------------
(* The serial thread.                                                      *)

\* Bug: a push that finds data_buffer full drops what arrives.
PushBytesDropNewest(buf, new) ==
    SubSeq(buf \o new, 1, IF Len(buf \o new) < DataLength THEN Len(buf \o new) ELSE DataLength)

\* Bug: fs_cb_push does not let go of the oldest bytes.
PushBytesUnbounded(buf, new) == buf \o new

\* fs_cb_push: the oldest bytes give way.
PushBytes(buf, new) ==
    LET all == buf \o new
    IN  SubSeq(all, IF Len(all) > DataLength THEN Len(all) - DataLength + 1 ELSE 1, Len(all))

\* fs_receive_serial returned n bytes.
Receive(n) ==
    /\ pc = "receive" /\ n <= Len(line)
    /\ data' = PushBytes(data, SubSeq(line, 1, n))
    /\ overrun' = (overrun \/ Len(data) + n > DataLength)
    /\ line' = SubSeq(line, n + 1, Len(line))
    /\ pc' = "scan"
    /\ UNCHANGED <<decoded, packets, stream, carried, lost, delimited, commandVars>>

\* fs_cb_pop.
Pop(n) == data' = SubSeq(data, n + 1, Len(data))

\* Byte i on the line is byte j of frame n.
IsByte(i, n, j) ==
    Len(FlattenSeq(carried)) - Len(line) + i = Len(FlattenSeq(SubSeq(carried, 1, n - 1))) + j

\* A byte is lost on the line: of Base64 text, a multiple of four characters.
Lose(i) ==
    /\ pc = "receive" /\ Len(lost) < MaxLoss /\ i \in 1 .. Len(line)
    /\ line' = RemoveAt(line, i)
    /\ \E n \in 1 .. Len(carried) : \E j \in 1 .. Len(carried[n]) :
         /\ IsByte(i, n, j)
         /\ carried' = [carried EXCEPT ![n] = RemoveAt(@, j)]
         /\ lost' = Append(lost, n)
    /\ UNCHANGED <<data, decoded, packets, pc, stream, delimited, overrun, commandVars>>

\* A byte arrives as c.  Base64 text that has lost another number of characters is
\* invalid, as one of its bytes is then.
Garble(i, c) ==
    /\ pc = "receive" /\ Len(lost) < MaxLoss /\ i \in 1 .. Len(line)
    /\ line' = [line EXCEPT ![i] = c]
    /\ \E n \in 1 .. Len(carried) : \E j \in 1 .. Len(carried[n]) :
         /\ IsByte(i, n, j)
         /\ carried' = [carried EXCEPT ![n] = [@ EXCEPT ![j] = c]]
         /\ lost' = Append(lost, n)
    /\ delimited' = (delimited \/ c \in Delimiters)
    /\ UNCHANGED <<data, decoded, packets, pc, stream, overrun, commandVars>>

Found == ScanDelimiters(data)
BinaryFound == Found.binary # 0 /\ Found.exclam > Found.binary
Base64Found == Found.colon # 0 /\ Found.exclam > Found.colon

\* The byte in front of the footer is no part of the packets.
ScanBinary ==
    /\ pc = "scan" /\ data # <<>> /\ BinaryFound
    /\ packets' = packets \o SegmentPackets(SubSeq(data, Found.binary + 1, Found.exclam - 2))
    /\ Pop(Found.exclam)
    /\ UNCHANGED <<decoded, pc, line, stream, carried, lost, delimited, overrun, commandVars>>

Segment64 == SubSeq(data, Found.colon + 1, Found.exclam - 1)

\* Whether the text was long enough for a packet is not looked at.  A padded text is
\* refused when it is too long, or so short that its size wraps around when the padding
\* is subtracted.
ScanBase64 ==
    /\ pc = "scan" /\ data # <<>> /\ ~BinaryFound /\ Base64Found
    /\ \E text \in Texts(Segment64) :
         /\ decoded' = IF Padded(text) THEN decoded ELSE Decode(decoded, text)
         /\ packets' = IF Decodable(text) /\ decoded'[1] \in TypeBytes
                       THEN Append(packets, SubSeq(decoded', 1, 2))
                       ELSE packets
    /\ Pop(Found.exclam)
    /\ UNCHANGED <<pc, line, stream, carried, lost, delimited, overrun, commandVars>>

\* Else the loop of fs_base64_decode does not step over the padding: it fills the
\* buffer with zeros and never ends.
DecodeForEver ==
    /\ pc = "scan" /\ data # <<>> /\ ~BinaryFound /\ Base64Found
    /\ \E text \in Texts(Segment64) :
         /\ Padded(text) /\ Len(text) <= DecodeLength
         /\ decoded' = Decode(Zeroed, text)
    /\ pc' = "stuck"
    /\ UNCHANGED <<data, packets, line, stream, carried, lost, delimited, overrun, commandVars>>

\* Bug: the terminator is left in the buffer.
ScanCommandsKeepTerminator ==
    /\ pc = "scan" /\ data # <<>> /\ ~BinaryFound /\ ~Base64Found /\ Found.semicolon # 0
    /\ HandleBuffer(data)
    /\ Pop(Found.semicolon - 1)
    /\ UNCHANGED <<decoded, packets, pc, line, stream, carried, lost, delimited, overrun>>

\* Bug: the whole buffer is popped, the start of the next frame with it.
ScanCommandsPopAll ==
    /\ pc = "scan" /\ data # <<>> /\ ~BinaryFound /\ ~Base64Found /\ Found.semicolon # 0
    /\ HandleBuffer(data)
    /\ Pop(Len(data))
    /\ UNCHANGED <<decoded, packets, pc, line, stream, carried, lost, delimited, overrun>>

\* All that was peeked is handled as commands, but only the first one is popped.
ScanCommands ==
    /\ pc = "scan" /\ data # <<>> /\ ~BinaryFound /\ ~Base64Found /\ Found.semicolon # 0
    /\ HandleBuffer(data)
    /\ Pop(Found.semicolon)
    /\ UNCHANGED <<decoded, packets, pc, line, stream, carried, lost, delimited, overrun>>

\* The function returns: 0 when the buffer is empty, else -1 to wait for more.
ScanNothing ==
    /\ pc = "scan"
    /\ data = <<>> \/ (~BinaryFound /\ ~Base64Found /\ Found.semicolon = 0)
    /\ pc' = "receive"
    /\ UNCHANGED <<data, decoded, packets, line, stream, carried, lost, delimited, overrun,
                   commandVars>>

Scanning == ScanBinary \/ ScanBase64 \/ DecodeForEver \/ ScanCommands \/ ScanNothing

Next ==
    \/ \E n \in 1 .. DataLength : Receive(n)
    \/ \E i \in 1 .. Len(line) : Lose(i) \/ \E c \in Noise : Garble(i, c)
    \/ Scanning

Spec == Init /\ [][Next]_vars

-----------------------------------------------------------------------------
(* Properties.                                                             *)

Bytes == (UNION {Range(FlattenSeq(s)) : s \in Streams}) \cup {ZeroByte} \cup Noise

TypeOK ==
    /\ data \in Seq(Bytes) /\ Len(data) <= DataLength
    /\ decoded \in [1 .. DecodeLength -> Bytes]
    /\ packets \in Seq(Bytes \X Bytes)
    /\ pc \in {"receive", "scan", "stuck"}
    /\ line \in Seq(Bytes) /\ stream \in Streams
    /\ carried \in Seq(Seq(Bytes)) /\ Len(carried) = Len(stream)
    /\ lost \in Seq(1 .. Len(stream)) /\ Len(lost) <= MaxLoss
    /\ delimited \in BOOLEAN /\ overrun \in BOOLEAN

\* The packets of a frame whose packets hold no delimiter, and those of the first
\* n frames sent.
PacketsOf(frame) ==
    IF Base64Frame(frame) THEN <<SubSeq(frame, 2, 3)>>
    ELSE IF BinaryFrame(frame) THEN SegmentPackets(SubSeq(frame, 2, Len(frame) - 2))
    ELSE <<>>
PacketsSent(n) == FlattenSeq([k \in 1 .. n |-> PacketsOf(stream[k])])

\* The line has lost or garbled no byte of a frame with packets, and it has made no
\* delimiter: one in front of a frame hides it, or is popped with it (Device.c:187).
Spared == ~delimited /\ \A i \in 1 .. Len(lost) : ~HasPackets(stream[lost[i]])

\* Replies are no longer than fs_segment_commands takes, and the rest is line ends.
OnlyReplyText ==
    \A n \in 1 .. Len(stream) :
        HasPackets(stream[n]) \/ ReplyFrame(stream[n]) \/ LineFrame(stream[n])

\* A reply, and the value it gives the attribute whose letter it starts with.  A baud
\* rate that is not positive is ignored.
IsReply(frame) == LastOf(Positions(frame, Terminator)) = Len(frame)
Said(reply) == Value(Head(reply), SubSeq(reply, 2, Len(reply) - 1))
Says(reply, a) == Head(reply) = a /\ (a = BaudRate => Said(reply) # <<>>)

\* The frames the thread has read to their end, on a line that loses nothing.
FramesRead ==
    LET read == Len(FlattenSeq(stream)) - Len(line)
    IN  Max({n \in 0 .. Len(stream) : Len(FlattenSeq(SubSeq(stream, 1, n))) <= read})

\* However the stream is cut into reads, each frame read to its end has delivered
\* its packets when the function returns, whole, once and in order, as long as
\* data_buffer has not overflowed.
EveryFrameArrives ==
    pc = "receive" /\ lost = <<>> /\ ~overrun => packets = PacketsSent(FramesRead)

\* Even when it has, and when bytes of text around the frames are lost, or garbled into
\* anything but delimiters, no packet is made up, repeated or out of order.
OnlySentPacketsInOrder ==
    Spared =>
        LET sent == PacketsSent(Len(stream)) IN
        /\ Range(packets) \subseteq Range(sent)
        /\ \A i, j \in 1 .. Len(packets) : i < j =>
             \E m, n \in 1 .. Len(sent) : m < n /\ sent[m] = packets[i] /\ sent[n] = packets[j]

\* However replies and frames are mixed and cut, an attribute is what one reply said:
\* no part of a reply, of a frame or of both is taken for one.
AttributeFromReply ==
    lost = <<>> /\ ~overrun => \A a \in Attributes :
        device[a] = <<>> \/ \E n \in 1 .. Len(stream) :
            IsReply(stream[n]) /\ Says(stream[n], a) /\ device[a] = Said(stream[n])

\* Though a reply is handled again for every reply that precedes it in the buffer,
\* the last one wins when the device sends only replies.
LastReplyWins ==
    /\ pc = "receive" /\ lost = <<>> /\ ~overrun
    /\ Len(stream) <= CommandQueueLength /\ \A n \in 1 .. Len(stream) : IsReply(stream[n])
    => \A a \in Attributes :
         LET about == {n \in 1 .. FramesRead : Says(stream[n], a)} IN
         about # {} => device[a] = Said(stream[Max(about)])

\* Replies are understood however they are cut: an attribute never comes from
\* anything but one whole reply, and of several replies the last one counts.
RepliesUnderstood == OnlyReplyText => AttributeFromReply /\ LastReplyWins

\* Each turn of the while (1) of fs_device_process_packets_serial leaves the buffer
\* shorter, or is the last; or, and only if there is a "=" in the buffer, it hangs.
TurnsShrinkData ==
    [][pc = "scan" =>
        \/ pc' = "receive" \/ Len(data') < Len(data)
        \/ pc' = "stuck" /\ Padding \in Range(data)]_vars

\* Bytes of a reply that are lost, or garbled into anything but delimiters, cost no
\* packet of the frames around it, and never hang the thread.
LostReplyByteCostsNoFrame ==
    Spared =>
        /\ pc # "stuck"
        /\ pc = "receive" /\ line = <<>> /\ ~overrun => packets = PacketsSent(Len(stream))
=============================================================================
