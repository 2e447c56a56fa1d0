------------------------------ MODULE Recording -----------------------------
(***************************************************************************)
(* What a recording keeps: packets are printed as rows of a CSV file       *)
(* (format_packet of common/FS_Trifecta_Saver.c), the program may be       *)
(* killed before all rows are on the disk, and the file is read again,     *)
(* row after row or by row number (common/FS_Trifecta_Replay.c).           *)
(*                                                                         *)
(* A group of fields of PacketLayout is one column here, and its value is  *)
(* what has become of it on the way.  Rows are counted from 1, the line    *)
(* indices of the code from 0.                                             *)
(***************************************************************************)
EXTENDS PacketLayout, FiniteSets

CONSTANTS
    Recorded,    \* packet types that come while a file is written
    MaxRows,     \* bound: rows of the file
    CutAfter,    \* bound: whole columns in a row that was cut
    Steps        \* the sparse_step arguments of fs_replay_open

ASSUME RecordingAssumption ==
    /\ Recorded \subseteq PacketTypes
    /\ MaxRows \in Nat /\ CutAfter \subseteq Nat
    /\ Steps \subseteq Nat \ {0}

VARIABLES
    phase,      \* of the file: "none", "writing", "ended" or "killed"
    last,       \* the type of the newest packet; zeroed memory has the type 0
    rows,       \* the rows of the file
    replay,     \* the fs_replay_t
    reply,      \* what the last call on it returned
    got         \* history: the rows fs_replay_read_next decoded since the file was
                \* opened, or Jumped after a call of fs_replay_read_line

vars == <<phase, last, rows, replay, reply, got>>

Closed == [step |-> 0, lines |-> 0, offsets |-> <<>>, pos |-> 0]
NoReply == [call |-> "none", rc |-> 0, line |-> 0, row |-> 0]
Jumped == <<0>>

-----------------------------------------------------------------------------
(* format_packet: the groups that each kind of packet prints, and the      *)
(* member it reads them through.                                           *)

FormatComposite ==
    [g \in {"raw0", "raw1", "raw2", "q", "mag", "omega", "acc", "temp", "motion"} |-> "C"]

FormatRegular ==
    [g \in {"omega", "q", "mag", "acc", "motion", "temp"} |-> IF g = "temp" THEN "C" ELSE "S"]

FormatComposite2 ==
    [g \in {"raw0", "raw1", "raw2", "q", "mag", "omega", "acc", "v", "r", "motion", "temp"} |->
        IF g = "temp" THEN "C" ELSE "C2"]

Format(k) == CASE k = "C" -> FormatComposite
               [] k = "S" -> FormatRegular
               [] k = "C2" -> FormatComposite2
               [] OTHER -> <<>>

\* %f prints integers exactly and everything else to six decimals.
Printed(g, value) == IF value = "own" /\ g \notin {"temp", "motion"} THEN "rounded" ELSE value

Columns == <<"type", "time", "raw0", "raw1", "raw2", "q", "mag", "omega", "acc", "v", "r",
             "temp", "motion">>

\* Bug: the temperatures have the names that the replay knows.
HeaderTemp == [Columns EXCEPT ![1] = "packettype", ![13] = "devicemotionstatus"]

\* write_header: the names of the columns, in lower case.
Header == [Columns EXCEPT ![1] = "packettype", ![12] = "temp_", ![13] = "devicemotionstatus"]

\* The column of group g in the row of a packet of type t.  The time is read
\* through the member composite.
Cell(t, g) ==
    LET k == KindOf[t] IN
    CASE g = "type" -> "own"
      [] g = "time" -> Read("C", k, "time")
      [] g \in DOMAIN Format(k) -> Printed(g, Read(Format(k)[g], k, g))
      [] OTHER -> "empty"

\* A row: the number in its first column; whether it is longer than the lines the
\* replay reads; how many of its columns are whole.
Row == [of : Recorded, number : Nat, long : BOOLEAN, whole : 0 .. Len(Columns)]

\* Only the rows with positions get longer than 511 characters.
Lengths(t) == IF KindOf[t] = "C2" THEN BOOLEAN ELSE {FALSE}

WholeRow(t, long) == [of |-> t, number |-> t, long |-> long, whole |-> Len(Columns)]

\* What the i-th column of a row holds.
CellOf(row, i) ==
    LET value == Cell(row.of, Columns[i]) IN
    CASE i <= row.whole -> value
      [] i = row.whole + 1 /\ value # "empty" -> "part"
      [] OTHER -> "empty"

-----------------------------------------------------------------------------
(* fs_replay_parse_header and fs_replay_parse_packet.                      *)

\* header_map, in the groups of fields that its names are those of.
HeaderMap ==
    [type |-> "type", packettype |-> "type", time |-> "time",
     raw0 |-> "raw0", raw1 |-> "raw1", raw2 |-> "raw2", q |-> "q", omega |-> "omega",
     acc |-> "acc", v |-> "v", r |-> "r", reserved0 |-> "reserved0", mag |-> "mag",
     temp |-> "temp", diagnosticflag |-> "diag", barometricpressure |-> "baro",
     baro |-> "baro", devicemotionstatus |-> "motion", label |-> "motion"]

FieldForColumn ==
    [i \in DOMAIN Header |-> IF Header[i] \in DOMAIN HeaderMap THEN HeaderMap[Header[i]] ELSE "none"]

\* The fields that the switch of each kind takes from a row.
ParsedComposite ==
    {"time", "raw0", "raw1", "raw2", "q", "omega", "acc", "mag", "temp", "diag", "baro", "motion"}
ParsedComposite2 ==
    {"time", "raw0", "raw1", "raw2", "q", "omega", "acc", "v", "r", "mag", "temp", "diag",
     "baro", "motion"}
ParsedComposite64 == ParsedComposite
ParsedComposite64_2 == ParsedComposite2

Parsed == [C |-> ParsedComposite, C2 |-> ParsedComposite2,
           C64 |-> ParsedComposite64, C642 |-> ParsedComposite64_2]

\* The types with a case in the switch; fs_replay_parse_packet returns -2 for others.
Replayable(number) ==
    /\ number \in PacketTypes
    /\ KindOf[number] \in DOMAIN Parsed
    /\ SystemOf(number) # RESERVED

\* The packet made of a row: the memory is zeroed, every column that is known to
\* the header and the switch is stored, and the number of an empty one is 0.
Packet(row) ==
    [g \in FieldsOf(KindOf[row.number]) \ {"type"} |->
        LET columns == {i \in DOMAIN Columns : FieldForColumn[i] = g} IN
        IF g \notin Parsed[KindOf[row.number]] \/ columns = {} THEN "zero"
        ELSE LET value == CellOf(row, CHOOSE i \in columns : TRUE)
             IN  IF value = "empty" THEN "zero" ELSE value]

-----------------------------------------------------------------------------
(* The device and the saver.                                               *)

TypeOK ==
    /\ phase \in {"none", "writing", "ended", "killed"}
    /\ last \in PacketTypes
    /\ rows \in Seq(Row) /\ Len(rows) <= MaxRows
    /\ replay.step \in Steps \cup {0}
    /\ replay.lines \in 0 .. Len(rows)
    /\ \A b \in DOMAIN replay.offsets : replay.offsets[b] \in 1 .. replay.lines
    /\ replay.pos \in 0 .. Len(rows) + 1
    /\ reply.row \in 0 .. Len(rows) /\ reply.line \in 0 .. MaxRows

Init ==
    /\ phase = "none"
    /\ last = 0
    /\ rows = <<>>
    /\ replay = Closed /\ reply = NoReply
    /\ got = <<>>

UnchangedReplay == UNCHANGED <<replay, reply, got>>

\* A packet comes while none is recorded.
Receive(t) ==
    /\ phase = "none"
    /\ last' = t
    /\ UNCHANGED <<phase, rows>> /\ UnchangedReplay

BeginFile ==
    /\ phase = "none"
    /\ phase' = "writing"
    /\ last' = 0
    /\ UNCHANGED rows /\ UnchangedReplay

\* A packet comes and its row is written.
Record(t, long) ==
    /\ phase = "writing" /\ Len(rows) < MaxRows
    /\ long \in Lengths(t)
    /\ last' = t
    /\ rows' = Append(rows, WholeRow(t, long))
    /\ UNCHANGED phase /\ UnchangedReplay

EndFile ==
    /\ phase = "writing"
    /\ phase' = "ended"
    /\ UNCHANGED <<last, rows>> /\ UnchangedReplay

\* The numbers that the first digits of a number make.
LeadingDigits(number) == {number} \cup ({number \div 10, number \div 100} \ {0})

\* The program is killed: of what was printed to the FILE after its header was
\* flushed the disk has the first characters, up to some in row n.
Kill(n, whole, number, long) ==
    /\ phase = "writing"
    /\ n \in DOMAIN rows /\ whole <= Len(Columns)
    /\ number \in LeadingDigits(rows[n].of)
    /\ whole > 0 => number = rows[n].of
    /\ long => rows[n].long
    /\ phase' = "killed"
    /\ rows' = Append(SubSeq(rows, 1, n - 1),
                      [of |-> rows[n].of, number |-> number, long |-> long, whole |-> whole])
    /\ UNCHANGED last /\ UnchangedReplay

-----------------------------------------------------------------------------
(* The program that replays the file.                                      *)

\* Bug: the row too long is counted.
IndexableOneMore(file) ==
    CHOOSE n \in 1 .. Len(file) + 1 :
        /\ \A i \in 1 .. n - 1 : ~file[i].long
        /\ n = Len(file) + 1 \/ file[n].long

\* Rows before the first one that fs_safe_fgets finds too long.
Indexable(file) ==
    CHOOSE n \in 0 .. Len(file) :
        /\ \A i \in 1 .. n : ~file[i].long
        /\ n = Len(file) \/ file[n + 1].long

\* Bug: the file is left where the index was finished.
OpenNoRewind(step) ==
    LET lines == Indexable(rows) IN
    /\ phase \in {"ended", "killed"} /\ replay = Closed
    /\ replay' = [step |-> step, lines |-> lines,
                  offsets |-> [b \in 1 .. (lines + step - 1) \div step |-> (b - 1) * step + 1],
                  pos |-> IF lines < Len(rows) THEN lines + 2 ELSE lines + 1]
    /\ reply' = NoReply /\ got' = <<>>
    /\ UNCHANGED <<phase, last, rows>>

\* fs_replay_open: the index ends with the row before the first one too long.  When
\* there is none the file is not rewound, and a long first row is behind it.
Open(step) ==
    LET lines == Indexable(rows) IN
    /\ phase \in {"ended", "killed"} /\ replay = Closed
    /\ replay' = [step |-> step, lines |-> lines,
                  offsets |-> [b \in 1 .. (lines + step - 1) \div step |-> (b - 1) * step + 1],
                  pos |-> IF lines = 0 /\ rows # <<>> THEN 2 ELSE 1]
    /\ reply' = NoReply /\ got' = <<>>
    /\ UNCHANGED <<phase, last, rows>>

\* fs_safe_fgets and fs_replay_parse_packet at row n; a row too long is skipped.
ReplyTo(call, line, n) ==
    [call |-> call, line |-> line, row |-> n,
     rc |-> IF rows[n].long \/ ~Replayable(rows[n].number) THEN -2 ELSE 0]

ReadNext ==
    /\ replay # Closed
    /\ UNCHANGED <<phase, last, rows>>
    /\ IF replay.pos > Len(rows)
         THEN /\ reply' = [call |-> "next", line |-> 0, row |-> 0, rc |-> 1]
              /\ UNCHANGED <<replay, got>>
         ELSE /\ reply' = ReplyTo("next", 0, replay.pos)
              /\ replay' = [replay EXCEPT !.pos = @ + 1]
              /\ got' = IF got # Jumped /\ reply'.rc = 0 THEN Append(got, replay.pos) ELSE got

\* The way to a row from the entry before it, and from the entry behind it, when
\* there is one.
Backward(line) == line % replay.step
Forward(line) == replay.step - Backward(line)
NextBlock(line) == line \div replay.step + 1
FromBehind(line) == NextBlock(line) < Len(replay.offsets) /\ Forward(line) < Backward(line)

\* Bug: from the entry before the row one row too few is skipped.
ReadLineShort(line) ==
    LET n == IF Backward(line) > 0 THEN line ELSE line + 1 IN
    /\ replay # Closed
    /\ line < replay.lines
    /\ reply' = ReplyTo("line", line, n)
    /\ replay' = [replay EXCEPT !.pos = n + 1]
    /\ got' = Jumped
    /\ UNCHANGED <<phase, last, rows>>

\* fs_replay_read_line.  From the entry behind the row nothing is skipped, and the
\* row read is that entry's.
ReadLine(line) ==
    LET n == IF FromBehind(line) THEN replay.offsets[NextBlock(line) + 1]
             ELSE replay.offsets[line \div replay.step + 1] + Backward(line)
    IN
    /\ replay # Closed
    /\ UNCHANGED <<phase, last, rows>>
    /\ IF line < replay.lines
         THEN /\ reply' = ReplyTo("line", line, n)
              /\ replay' = [replay EXCEPT !.pos = n + 1]
              /\ got' = Jumped
         ELSE /\ reply' = [call |-> "line", line |-> line, row |-> 0,
                           rc |-> IF replay.lines = 0 THEN -2 ELSE -3]
              /\ UNCHANGED <<replay, got>>

CloseReplay ==
    /\ replay # Closed
    /\ replay' = Closed /\ reply' = NoReply /\ got' = <<>>
    /\ UNCHANGED <<phase, last, rows>>

Next ==
    \/ \E t \in PacketTypes : Receive(t)
    \/ BeginFile
    \/ \E t \in Recorded, long \in BOOLEAN : Record(t, long)
    \/ EndFile
    \/ \E n \in 1 .. MaxRows, whole \in CutAfter, long \in BOOLEAN :
           \E number \in UNION {LeadingDigits(t) : t \in Recorded} : Kill(n, whole, number, long)
    \/ \E step \in Steps : Open(step)
    \/ ReadNext
    \/ \E line \in 0 .. MaxRows : ReadLine(line)
    \/ CloseReplay

Spec == Init /\ [][Next]_vars

-----------------------------------------------------------------------------
(* Properties.                                                             *)

\* Reading row after row to the end of the file yields every row of a packet that
\* can be replayed, in order, each once, also behind rows that cannot or that are
\* too long, whatever step the index has and wherever the file was cut.
NextYieldsRows ==
    reply.call = "next" /\ reply.rc = 1 /\ got # Jumped =>
        /\ Range(got) = {i \in DOMAIN rows : ~rows[i].long /\ Replayable(rows[i].number)}
        /\ \A i, j \in DOMAIN got : i < j => got[i] < got[j]

\* fs_replay_read_line reads the row it is asked for, and the next
\* fs_replay_read_next the row behind it, unless the row is nearer to the next
\* entry of the index than to the one before it.
ReadLineIsExact ==
    reply.call = "line" /\ reply.row # 0 /\ ~FromBehind(reply.line) =>
        reply.row = reply.line + 1 /\ replay.pos = reply.row + 1

\* What is left of a packet of kind k after saving and replaying: its type, the 32
\* lower bits of its time, and for the kinds C and C2 the measurements and the
\* motion, but neither temperatures nor diagnostics.
Kept(k, g) ==
    CASE g = "time" -> IF k \in {"C", "C2"} THEN "own" ELSE "low"
      [] g = "motion" /\ k \in {"C", "C2"} -> "own"
      [] g \in {"raw0", "raw1", "raw2", "q", "mag", "omega", "acc"} /\ k \in {"C", "C2"} -> "rounded"
      [] g \in {"v", "r"} /\ k = "C2" -> "rounded"
      [] OTHER -> "zero"

\* A replayed packet is the one that was saved, as far as it is kept; no field has
\* what belongs to another, also where the saver reads a packet through a member
\* that is not its own.  In the row that was cut a field may be cut or missing.
DecodedIsRecorded ==
    reply.row # 0 /\ reply.rc = 0 =>
        LET row == rows[reply.row]
            packet == Packet(row)
        IN  IF row.whole = Len(Columns)
            THEN row.number = row.of /\ \A g \in DOMAIN packet : packet[g] = Kept(KindOf[row.of], g)
            ELSE /\ reply.row = Len(rows) /\ phase = "killed"
                 /\ \A g \in DOMAIN packet :
                        packet[g] \in {"zero", "part", Kept(KindOf[row.of], g)}

\* Whatever the newest packet is, a getter returns its own field (of a 64-bit time
\* the lower half) or refuses, and so does the unpacking into an object of the
\* packet's own kind.  fs_get_velocity and fs_get_position are right only for long
\* packets and for those of an IMU or AHRS.
GettersReadOwn ==
    LET OwnOrNone == {"own", Refused} IN
    /\ \A queued \in BOOLEAN : GetOrientation(last, queued) \in OwnOrNone
    /\ {GetAcceleration(last), GetAngularVelocity(last), GetMagneticField(last),
        GetMovementState(last)} \subseteq OwnOrNone
    /\ GetLastTimestamp(last) \in {"own", "low"}
    /\ KindOf[last] = "C2" \/ SystemOf(last) \in {IMU, AHRS} =>
        {GetVelocity(last), GetPosition(last)} \subseteq OwnOrNone
    /\ KindOf[last] = "S" => \A g \in FieldsOf("S") : UnpackRegular(last)[g] = "own"
    /\ KindOf[last] = "C" => \A g \in FieldsOf("C") : UnpackComposite(last)[g] = "own"
    /\ KindOf[last] = "C2" => \A g \in FieldsOf("C2") : UnpackComposite2(last)[g] = "own"

\* What the documentation says of fs_replay_read_line: it jumps to a row and
\* decodes that one.
ReadLineReturnsRow ==
    reply.call = "line" /\ reply.rc = 0 => reply.row = reply.line + 1
=============================================================================
