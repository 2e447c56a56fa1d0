--------------------------- MODULE RecordingProofs ---------------------------
(***************************************************************************)
(* Proofs about recordings and their replay, for files of any length, cut  *)
(* anywhere, and an index of any step.                                     *)
(***************************************************************************)
EXTENDS Recording, SequenceTheorems, WellFoundedInduction, TLAPS

-----------------------------------------------------------------------------
(* The invariant.                                                          *)

\* What is in memory: the members of the fs_replay_t and of the last answer.
ShapeInv ==
    /\ replay \in [step : Nat, lines : Nat, offsets : Seq(Nat), pos : Nat]
    /\ reply \in [call : {"none", "next", "line"}, rc : Int, line : Nat, row : Nat]
    /\ got \in Seq(Nat)

\* A file is opened after it was written, and answers end with the closing.
PhaseInv ==
    /\ phase \in {"none", "writing"} => replay = Closed
    /\ replay = Closed => reply = NoReply

\* The rows at which the blocks of the index begin.
Blocks(step, lines) == (lines + step - 1) \div step
Offsets(step, lines) == [b \in 1 .. Blocks(step, lines) |-> (b - 1) * step + 1]

IndexInv ==
    replay # Closed =>
        /\ replay.step \in Steps /\ replay.pos # 0
        /\ replay.lines = 0 /\ rows # <<>> => rows[1].long
        /\ replay.offsets = Offsets(replay.step, replay.lines)

\* The rows that can be replayed.
Readable(row) == ~row.long /\ Replayable(row.number)

\* As long as nothing but the next row was asked for, all rows before pos that can
\* be replayed were.
GotInv ==
    replay # Closed /\ got # Jumped =>
        /\ Range(got) = {i \in DOMAIN rows : i < replay.pos /\ Readable(rows[i])}
        /\ \A i, j \in DOMAIN got : i < j => got[i] < got[j]

\* What the last answer was made of.
ReplyInv ==
    /\ reply.call = "next" /\ reply.rc = 1 => replay.pos = Len(rows) + 1
    /\ reply.row # 0 /\ reply.rc = 0 => Readable(rows[reply.row])
    /\ ReadLineIsExact

\* A row that was not cut has the type of its packet; only a crash cuts a row, and
\* it is the last one.
RowsInv ==
    \A i \in DOMAIN rows :
        /\ rows[i].whole > 0 => rows[i].number = rows[i].of
        /\ rows[i].whole # Len(Columns) => i = Len(rows) /\ phase = "killed"

ReplayInv == ShapeInv /\ PhaseInv /\ IndexInv /\ GotInv /\ ReplyInv /\ RowsInv

-----------------------------------------------------------------------------
(* Numbers.                                                                *)

\* A set of numbers that is not empty has a least one.
LEMMA LeastExists ==
    ASSUME NEW S \in SUBSET Nat, S # {}
    PROVE  \E x \in S : \A y \in S : x <= y
<1>1. PICK x \in S : \A y \in S : <<y, x>> \notin OpToRel(<, Nat)
  BY NatLessThanWellFounded, WFMin
<1>2. \A y \in S : ~(y < x)
  BY <1>1 DEF OpToRel
<1>3. QED
  BY <1>2

\* What division computes.
LEMMA Division ==
    ASSUME NEW n \in Nat \ {0}, NEW i \in Nat
    PROVE  /\ i \div n \in Nat /\ i % n \in 0 .. n - 1
           /\ i = n * (i \div n) + (i % n)
<1>1. i \div n \in Int /\ i \div n >= 0
  OBVIOUS
<1>2. i % n \in 0 .. n - 1
  OBVIOUS
<1>3. i = n * (i \div n) + (i % n)
  OBVIOUS
<1>4. QED
  BY <1>1, <1>2, <1>3

\* Products keep the order.
LEMMA TimesKeepsOrder ==
    ASSUME NEW n \in Nat \ {0}, NEW p \in Nat, NEW q \in Nat, p <= q
    PROVE  n * p \in Nat /\ n * q \in Nat /\ n * p <= n * q
<1>1. PICK d \in Nat : q = p + d
  <2>1. q - p \in Nat /\ q = p + (q - p)
    OBVIOUS
  <2>2. QED
    BY <2>1
<1>2. n * p \in Nat /\ n * d \in Nat /\ n * (p + d) = n * p + n * d
  OBVIOUS
<1>3. QED
  BY <1>1, <1>2

\* The blocks of the index begin within the lines, and every line is in a block.
LEMMA BlocksFit ==
    ASSUME NEW step \in Nat \ {0}, NEW lines \in Nat
    PROVE  /\ Blocks(step, lines) \in Nat
           /\ \A b \in 1 .. Blocks(step, lines) : (b - 1) * step + 1 \in 1 .. lines
           /\ \A line \in Nat : line < lines =>
                /\ line \div step + 1 \in 1 .. Blocks(step, lines)
                /\ (line \div step) * step + (line % step) = line
<1> DEFINE i == lines + step - 1
           q == i \div step
           r == i % step
<1>1. i \in Nat /\ q \in Nat /\ r \in 0 .. step - 1 /\ i = step * q + r
  <2>1. i \in Nat
    OBVIOUS
  <2>2. QED
    BY <2>1, Division
<1>2. Blocks(step, lines) = q
  BY DEF Blocks
<1> HIDE DEF q, r
<1>3. ASSUME NEW b \in 1 .. q PROVE (b - 1) * step + 1 \in 1 .. lines
  <2>1. b \in Nat /\ b - 1 \in Nat /\ b <= q
    BY <1>1
  <2>2. step * b <= step * q /\ step * b \in Nat /\ step * q \in Nat
    BY <1>1, <2>1, TimesKeepsOrder
  <2>3. step * (b - 1) = step * b - step /\ step * (b - 1) = (b - 1) * step
    BY <2>1
  <2>4. (b - 1) * step \in Nat
    BY <2>1
  <2>5. QED
    BY <1>1, <2>2, <2>3, <2>4
<1>4. ASSUME NEW line \in Nat, line < lines
      PROVE  /\ line \div step + 1 \in 1 .. q
             /\ (line \div step) * step + (line % step) = line
  <2> DEFINE p == line \div step
             t == line % step
  <2>1. p \in Nat /\ t \in 0 .. step - 1 /\ line = step * p + t
    BY Division
  <2> HIDE DEF p, t
  <2>2. ASSUME p >= q PROVE FALSE
    <3>1. step * q <= step * p /\ step * q \in Nat /\ step * p \in Nat
      BY <1>1, <2>1, <2>2, TimesKeepsOrder
    <3>2. QED
      BY <1>1, <1>4, <2>1, <3>1
  <2>3. p + 1 \in 1 .. q
    BY <1>1, <2>1, <2>2
  <2>4. p * step + t = line
    BY <2>1
  <2>5. QED
    BY <2>3, <2>4 DEF p, t
<1>5. QED
  BY <1>1, <1>2, <1>3, <1>4

-----------------------------------------------------------------------------
(* Rows.                                                                   *)

\* The numbers of the packet types.
LEMMA TypesAreNumbers == PacketTypes \subseteq Nat /\ Recorded \subseteq Nat /\ 0 \in PacketTypes
<1>1. Kinds = {"C", "S", "C2", "C64", "S64", "C642"}
  BY DEF Kinds, Union
<1>2. \A k \in Kinds : FirstType[k] \in Nat
  BY <1>1 DEF FirstType
<1>3. \A k \in Kinds, system \in IMU .. RESERVED : Type(k, system) \in Nat
  BY <1>2 DEF Type, IMU, RESERVED
<1>4. Type("C", 0) = 0 /\ "C" \in Kinds /\ 0 \in IMU .. RESERVED
  BY <1>1 DEF Type, FirstType, IMU, RESERVED
<1>5. QED
  BY <1>3, <1>4, RecordingAssumption DEF PacketTypes

\* A row has thirteen columns.
LEMMA ColumnsLength == Len(Columns) = 13
  BY DEF Columns

\* How many rows are in front of the first one that is too long.
LEMMA IndexableIs ==
    ASSUME NEW file \in Seq(Row)
    PROVE  /\ Indexable(file) \in 0 .. Len(file)
           /\ \A i \in 1 .. Indexable(file) : ~file[i].long
           /\ Indexable(file) = Len(file) \/ file[Indexable(file) + 1].long
<1> DEFINE S == {n \in 0 .. Len(file) : n = Len(file) \/ file[n + 1].long}
           P(n) == /\ \A i \in 1 .. n : ~file[i].long
                   /\ n = Len(file) \/ file[n + 1].long
<1>1. Len(file) \in Nat
  BY LenProperties
<1>2. PICK m \in S : \A n \in S : m <= n
  <2>1. S \in SUBSET Nat /\ Len(file) \in S
    BY <1>1
  <2>2. QED
    BY <2>1, LeastExists
<1>3. ASSUME NEW i \in 1 .. m PROVE ~file[i].long
  <2>1. m \in Nat /\ m <= Len(file)
    BY <1>1, <1>2
  <2>2. i - 1 \in 0 .. Len(file) /\ i - 1 < m /\ i - 1 + 1 = i /\ m \in Nat
    BY <1>1, <2>1
  <2>3. i - 1 \notin S
    <3>1. i - 1 \in S => m <= i - 1
      BY <1>2
    <3>2. QED
      BY <2>2, <3>1
  <2>4. QED
    BY <2>2, <2>3
<1>4. \E n \in 0 .. Len(file) : P(n)
  BY <1>2, <1>3
<1>5. Indexable(file) = CHOOSE n \in 0 .. Len(file) : P(n)
  BY DEF Indexable
<1>6. Indexable(file) \in 0 .. Len(file) /\ P(Indexable(file))
  BY <1>4, <1>5
<1>7. QED
  BY <1>6

\* A whole row is a row.
LEMMA WholeRowIsRow ==
    ASSUME NEW t \in Recorded, NEW long \in BOOLEAN
    PROVE  /\ WholeRow(t, long) \in Row
           /\ WholeRow(t, long).whole = Len(Columns)
           /\ WholeRow(t, long).number = WholeRow(t, long).of
<1>1. t \in Nat /\ Len(Columns) \in 0 .. Len(Columns)
  BY TypesAreNumbers, ColumnsLength
<1>2. QED
  BY <1>1 DEF WholeRow, Row

-----------------------------------------------------------------------------
(* The steps.                                                              *)

Inv == TypeOK /\ ReplayInv

\* No file is replayed.
ClosedWell ==
    /\ replay = Closed /\ reply = NoReply /\ got \in Seq(Nat)
    /\ RowsInv /\ rows \in Seq(Row) /\ Len(rows) <= MaxRows
    /\ phase \in {"none", "writing", "ended", "killed"} /\ last \in PacketTypes

\* Then the invariant asks no more of the state.
LEMMA ClosedKeeps == ClosedWell => Inv
<1> SUFFICES ASSUME ClosedWell PROVE Inv
  OBVIOUS
<1> USE DEF ClosedWell
<1>1. Len(rows) \in Nat /\ MaxRows \in Nat
  BY LenProperties, RecordingAssumption
<1>2. /\ replay.step = 0 /\ replay.lines = 0 /\ replay.offsets = <<>> /\ replay.pos = 0
      /\ reply.call = "none" /\ reply.row = 0 /\ reply.line = 0 /\ reply.rc = 0
  BY DEF Closed, NoReply
<1>3. TypeOK
  BY <1>1, <1>2 DEF TypeOK
<1>4. ShapeInv
  <2>1. <<>> \in Seq(Nat)
    BY EmptySeq
  <2>2. Closed \in [step : Nat, lines : Nat, offsets : Seq(Nat), pos : Nat]
    BY <2>1 DEF Closed
  <2>3. NoReply \in [call : {"none", "next", "line"}, rc : Int, line : Nat, row : Nat]
    BY DEF NoReply
  <2>4. QED
    BY <2>2, <2>3 DEF ShapeInv
<1>5. PhaseInv /\ IndexInv /\ GotInv
  BY DEF PhaseInv, IndexInv, GotInv
<1>6. ReplyInv
  BY <1>2 DEF ReplyInv, ReadLineIsExact
<1>7. QED
  BY <1>3, <1>4, <1>5, <1>6 DEF Inv, ReplayInv

\* At first nothing is written and nothing replayed.
LEMMA InitInv == Init => Inv
<1> SUFFICES ASSUME Init PROVE Inv
  OBVIOUS
<1>1. rows = <<>> /\ Len(rows) = 0 /\ rows \in Seq(Row) /\ got \in Seq(Nat)
  BY EmptySeq DEF Init
<1>2. RowsInv
  BY <1>1 DEF RowsInv
<1>3. QED
  BY <1>1, <1>2, TypesAreNumbers, RecordingAssumption, ClosedKeeps
  DEF Init, ClosedWell

\* The same of the state after a step.
LEMMA ClosedKeepsNext == ClosedWell' => Inv'
  BY ClosedKeeps, PTL

\* The steps of the recording program.
LEMMA WriterKeeps ==
    ASSUME Inv, phase \in {"none", "writing"}, UnchangedReplay,
           RowsInv', phase' \in {"none", "writing", "ended", "killed"},
           last' \in PacketTypes, rows' \in Seq(Row), Len(rows') <= MaxRows
    PROVE  Inv'
<1>1. replay' = Closed /\ reply' = NoReply /\ got' \in Seq(Nat)
  BY DEF Inv, ReplayInv, PhaseInv, ShapeInv, UnchangedReplay
<1>2. ClosedWell'
  BY <1>1 DEF ClosedWell
<1>3. QED
  BY <1>2, ClosedKeepsNext

\* A packet that is not recorded, the opening and the closing of the file.
LEMMA FileKeeps ==
    ASSUME Inv, BeginFile \/ EndFile \/ \E t \in PacketTypes : Receive(t)
    PROVE  Inv'
<1>1. /\ phase \in {"none", "writing"} /\ UnchangedReplay /\ rows' = rows
      /\ phase' \in {"none", "writing", "ended"} /\ last' \in PacketTypes
      /\ phase' = "killed" <=> phase = "killed"
  <2>1. last \in PacketTypes /\ 0 \in PacketTypes
    BY TypesAreNumbers DEF Inv, TypeOK
  <2>2. QED
    BY <2>1 DEF BeginFile, EndFile, Receive
<1>2. rows \in Seq(Row) /\ Len(rows) <= MaxRows /\ RowsInv
  BY DEF Inv, TypeOK, ReplayInv
<1>3. RowsInv'
  BY <1>1, <1>2 DEF RowsInv
<1>4. QED
  BY <1>1, <1>2, <1>3, WriterKeeps

\* A whole row is added at the end of the file.
LEMMA RecordKeeps ==
    ASSUME Inv, NEW t \in Recorded, NEW long \in BOOLEAN, Record(t, long)
    PROVE  Inv'
<1>1. /\ phase = "writing" /\ phase' = phase /\ UnchangedReplay /\ last' = t
      /\ Len(rows) < MaxRows /\ rows' = Append(rows, WholeRow(t, long))
  BY DEF Record
<1>2. rows \in Seq(Row) /\ RowsInv /\ Len(rows) \in Nat /\ MaxRows \in Nat
  BY LenProperties, RecordingAssumption DEF Inv, TypeOK, ReplayInv
<1>3. PICK n \in Nat : n = Len(rows)
  BY <1>2
<1>4. /\ rows' \in Seq(Row) /\ Len(rows') = n + 1 /\ DOMAIN rows' = 1 .. n + 1
      /\ \A i \in 1 .. n : rows'[i] = rows[i]
      /\ rows'[n + 1] = WholeRow(t, long)
  BY <1>1, <1>2, <1>3, WholeRowIsRow, AppendProperties, LenProperties
<1>5. DOMAIN rows = 1 .. n
  BY <1>2, <1>3, LenProperties
<1>6. RowsInv'
  <2>1. ASSUME NEW i \in 1 .. n + 1
        PROVE  /\ rows'[i].whole > 0 => rows'[i].number = rows'[i].of
               /\ rows'[i].whole # Len(Columns) => i = n + 1 /\ phase' = "killed"
    <3>1. CASE i = n + 1
      BY <1>4, <3>1, WholeRowIsRow
    <3>2. CASE i # n + 1
      <4>1. i \in 1 .. n
        BY <1>3, <3>2
      <4>2. QED
        BY <1>1, <1>2, <1>4, <1>5, <4>1 DEF RowsInv
    <3>3. QED
      BY <3>1, <3>2
  <2>2. QED
    BY <1>4, <2>1 DEF RowsInv
<1>7. last' \in PacketTypes /\ Len(rows') <= MaxRows
  BY <1>1, <1>2, <1>3, <1>4, RecordingAssumption
<1>8. QED
  BY <1>1, <1>4, <1>6, <1>7, WriterKeeps

\* Whatever of a number was written is a number.
LEMMA DigitsAreNumbers ==
    ASSUME NEW n \in Nat, NEW m \in LeadingDigits(n)
    PROVE  m \in Nat
<1>1. n \div 10 \in Nat /\ n \div 100 \in Nat
  BY Division
<1>2. QED
  BY <1>1 DEF LeadingDigits

\* A crash leaves the first rows and one that may be cut.
LEMMA KillKeeps ==
    ASSUME Inv, NEW n \in 1 .. MaxRows, NEW whole \in CutAfter, NEW number,
           NEW long \in BOOLEAN, Kill(n, whole, number, long)
    PROVE  Inv'
<1> DEFINE r == [of |-> rows[n].of, number |-> number, long |-> long, whole |-> whole]
           s == SubSeq(rows, 1, n - 1)
<1>1. /\ phase = "writing" /\ phase' = "killed" /\ UnchangedReplay /\ last' = last
      /\ n \in DOMAIN rows /\ whole <= Len(Columns) /\ number \in LeadingDigits(rows[n].of)
      /\ whole > 0 => number = rows[n].of
      /\ rows' = Append(s, r)
  BY DEF Kill
<1>2. /\ rows \in Seq(Row) /\ RowsInv /\ Len(rows) \in Nat /\ MaxRows \in Nat
      /\ Len(rows) <= MaxRows /\ DOMAIN rows = 1 .. Len(rows) /\ last \in PacketTypes
  BY LenProperties, RecordingAssumption DEF Inv, TypeOK, ReplayInv
<1>3. n \in Nat /\ n \in 1 .. Len(rows)
  BY <1>1, <1>2
<1>4. r \in Row /\ r.whole = whole /\ r.number = number /\ r.of = rows[n].of
  <2>1. rows[n] \in Row
    BY <1>2, <1>3, ElementOfSeq
  <2>2. rows[n].of \in Recorded /\ rows[n].of \in Nat
    BY <2>1, TypesAreNumbers DEF Row
  <2>3. number \in Nat /\ whole \in 0 .. Len(Columns)
    BY <1>1, <2>2, DigitsAreNumbers, RecordingAssumption, ColumnsLength
  <2>4. QED
    BY <2>2, <2>3 DEF Row
<1>5. s \in Seq(Row) /\ Len(s) = n - 1 /\ \A i \in 1 .. n - 1 : s[i] = rows[i]
  <2>1. n - 1 \in 0 .. Len(rows) /\ 1 \in 1 .. Len(rows) + 1
    BY <1>2, <1>3
  <2>2. \A i \in 1 .. n - 1 : rows[i] \in Row
    BY <1>2, <1>3, ElementOfSeq
  <2>3. QED
    BY <1>2, <1>3, <2>1, <2>2
<1> HIDE DEF r, s
<1>6. /\ rows' \in Seq(Row) /\ Len(rows') = n /\ DOMAIN rows' = 1 .. n
      /\ \A i \in 1 .. n - 1 : rows'[i] = rows[i]
      /\ rows'[n] = r
  <2>1. /\ Append(s, r) \in Seq(Row) /\ Len(Append(s, r)) = n - 1 + 1
        /\ \A i \in 1 .. n - 1 : Append(s, r)[i] = s[i]
        /\ Append(s, r)[n - 1 + 1] = r
    BY <1>4, <1>5, AppendProperties
  <2>2. n - 1 + 1 = n
    BY <1>3
  <2>3. DOMAIN Append(s, r) = 1 .. n
    BY <2>1, <2>2, LenProperties
  <2>4. QED
    BY <1>1, <1>5, <2>1, <2>2, <2>3
<1>7. RowsInv'
  <2>1. ASSUME NEW i \in 1 .. n
        PROVE  /\ rows'[i].whole > 0 => rows'[i].number = rows'[i].of
               /\ rows'[i].whole # Len(Columns) => i = n /\ phase' = "killed"
    <3>1. CASE i = n
      BY <1>1, <1>4, <1>6, <3>1
    <3>2. CASE i # n
      <4>1. i \in 1 .. n - 1 /\ i \in DOMAIN rows
        BY <1>2, <1>3, <3>2
      <4>2. QED
        BY <1>1, <1>2, <1>6, <4>1 DEF RowsInv
    <3>3. QED
      BY <3>1, <3>2
  <2>2. QED
    BY <1>6, <2>1 DEF RowsInv
<1>8. QED
  BY <1>1, <1>2, <1>6, <1>7, WriterKeeps

\* The file is opened: the index ends with the row before the first one too long.
LEMMA OpenKeeps ==
    ASSUME Inv, NEW step \in Steps, Open(step)
    PROVE  Inv'
<1> DEFINE lines == Indexable(rows)
<1>1. /\ UNCHANGED <<phase, last, rows>> /\ phase \in {"ended", "killed"}
      /\ reply' = NoReply /\ got' = <<>>
      /\ replay' = [step |-> step, lines |-> lines, offsets |-> Offsets(step, lines),
                    pos |-> IF lines = 0 /\ rows # <<>> THEN 2 ELSE 1]
  BY DEF Open, Offsets, Blocks
<1>2. /\ rows \in Seq(Row) /\ RowsInv /\ Len(rows) \in Nat /\ MaxRows \in Nat
      /\ Len(rows) <= MaxRows /\ last \in PacketTypes /\ DOMAIN rows = 1 .. Len(rows)
      /\ step \in Nat \ {0}
  BY LenProperties, RecordingAssumption DEF Inv, TypeOK, ReplayInv
<1>3. /\ lines \in 0 .. Len(rows)
      /\ lines = Len(rows) \/ rows[lines + 1].long
  BY <1>2, IndexableIs
<1>4. /\ Blocks(step, lines) \in Nat
      /\ \A b \in 1 .. Blocks(step, lines) : (b - 1) * step + 1 \in 1 .. lines
  <2>1. lines \in Nat
    BY <1>2, <1>3
  <2>2. QED
    BY <1>2, <2>1, BlocksFit
<1> HIDE DEF lines
<1>5. /\ replay'.step = step /\ replay'.lines = lines /\ replay'.offsets = Offsets(step, lines)
      /\ replay'.pos = IF lines = 0 /\ rows # <<>> THEN 2 ELSE 1
  BY <1>1
<1>6. /\ Offsets(step, lines) \in Seq(Nat)
      /\ \A b \in DOMAIN Offsets(step, lines) : Offsets(step, lines)[b] \in 1 .. lines
  <2>1. PICK n \in Nat : n = Blocks(step, lines)
    BY <1>4
  <2>2. Offsets(step, lines) = [b \in 1 .. n |-> (b - 1) * step + 1]
    BY <2>1 DEF Offsets
  <2>3. \A b \in 1 .. n : (b - 1) * step + 1 \in 1 .. lines /\ (b - 1) * step + 1 \in Nat
    BY <1>4, <2>1
  <2>4. QED
    BY <2>2, <2>3
<1>7. rows # <<>> => Len(rows) > 0
  BY <1>2, EmptySeq
<1>8. replay'.pos \in 1 .. Len(rows) + 1
  BY <1>2, <1>5, <1>7
<1>9. TypeOK'
  <2>1. reply'.row = 0 /\ reply'.line = 0
    BY <1>1 DEF NoReply
  <2>2. rows' = rows /\ phase' = phase /\ last' = last
    BY <1>1
  <2>3. \A b \in DOMAIN replay'.offsets : replay'.offsets[b] \in 1 .. replay'.lines
    BY <1>5, <1>6
  <2>4. replay'.lines \in 0 .. Len(rows') /\ replay'.pos \in 0 .. Len(rows') + 1
    <3>1. replay'.lines \in 0 .. Len(rows)
      BY <1>3, <1>5
    <3>2. replay'.pos \in 0 .. Len(rows) + 1
      BY <1>8
    <3>3. QED
      BY <2>2, <3>1, <3>2
  <2>5. replay'.step \in Steps \cup {0}
    BY <1>5
  <2>6. reply'.row \in 0 .. Len(rows') /\ reply'.line \in 0 .. MaxRows
    BY <1>2, <2>1, <2>2
  <2>7. QED
    BY <1>1, <1>2, <2>2, <2>3, <2>4, <2>5, <2>6 DEF TypeOK
<1>10. ShapeInv'
  <2>1. replay' \in [step : Nat, lines : Nat, offsets : Seq(Nat), pos : Nat]
    <3>1. lines \in Nat /\ (IF lines = 0 /\ rows # <<>> THEN 2 ELSE 1) \in Nat
      <4>1. \A k \in 0 .. Len(rows) : k \in Nat
        OBVIOUS
      <4>2. lines \in Nat
        BY <1>3, <4>1
      <4>3. CASE lines = 0 /\ rows # <<>>
        BY <4>2, <4>3
      <4>4. CASE ~(lines = 0 /\ rows # <<>>)
        BY <4>2, <4>4
      <4>5. QED
        BY <4>3, <4>4
    <3>2. QED
      BY <1>1, <1>2, <1>6, <3>1
  <2>2. reply' \in [call : {"none", "next", "line"}, rc : Int, line : Nat, row : Nat]
    BY <1>1 DEF NoReply
  <2>3. got' \in Seq(Nat)
    BY <1>1, EmptySeq
  <2>4. QED
    BY <2>1, <2>2, <2>3 DEF ShapeInv
<1>11. PhaseInv'
  BY <1>1 DEF PhaseInv
<1>12. IndexInv'
  <2>1. lines = 0 /\ rows # <<>> => rows[1].long
    BY <1>2, <1>3, <1>7
  <2>2. replay'.pos # 0
    BY <1>2, <1>8
  <2>3. QED
    BY <1>1, <1>5, <2>1, <2>2 DEF IndexInv
<1>13. GotInv'
  <2>1. Range(got') = {} /\ DOMAIN got' = {}
    BY <1>1 DEF Range
  <2>2. ASSUME NEW i \in DOMAIN rows, i < replay'.pos PROVE ~Readable(rows[i])
    <3>1. i \in 1 .. Len(rows)
      BY <1>2
    <3>2. i = 1 /\ lines = 0 /\ rows # <<>>
      BY <1>2, <1>5, <2>2, <3>1
    <3>3. rows[1].long
      BY <1>2, <1>3, <1>7, <3>2
    <3>4. QED
      BY <3>2, <3>3 DEF Readable
  <2>3. {i \in DOMAIN rows : i < replay'.pos /\ Readable(rows[i])} = {}
    BY <2>2
  <2>4. QED
    BY <1>1, <2>1, <2>3 DEF GotInv
<1>14. ReplyInv'
  BY <1>1 DEF ReplyInv, ReadLineIsExact, NoReply
<1>15. RowsInv'
  BY <1>1, <1>2 DEF RowsInv
<1>16. QED
  BY <1>9, <1>10, <1>11, <1>12, <1>13, <1>14, <1>15 DEF Inv, ReplayInv

\* Closing forgets the index, the answer and what was read.
LEMMA CloseKeeps ==
    ASSUME Inv, CloseReplay
    PROVE  Inv'
<1>1. /\ UNCHANGED <<phase, last, rows>>
      /\ replay' = Closed /\ reply' = NoReply /\ got' = <<>>
  BY DEF CloseReplay
<1>2. /\ rows \in Seq(Row) /\ Len(rows) <= MaxRows /\ RowsInv /\ last \in PacketTypes
      /\ phase \in {"none", "writing", "ended", "killed"}
  BY DEF Inv, TypeOK, ReplayInv
<1>3. RowsInv'
  BY <1>1, <1>2 DEF RowsInv
<1>4. ClosedWell'
  BY <1>1, <1>2, <1>3, EmptySeq DEF ClosedWell
<1>5. QED
  BY <1>4, ClosedKeepsNext

\* The parts that the reading calls keep by leaving the file and the index alone.
LEMMA ReaderFrame ==
    ASSUME Inv, replay # Closed, UNCHANGED <<phase, last, rows>>,
           NEW n \in Nat, replay' = [replay EXCEPT !.pos = n], n # 0, n <= Len(rows) + 1,
           reply' \in [call : {"none", "next", "line"}, rc : Int, line : Nat, row : Nat],
           reply'.row \in 0 .. Len(rows), reply'.line \in 0 .. MaxRows,
           got' \in Seq(Nat)
    PROVE  /\ replay' # Closed /\ replay'.pos = n
           /\ UNCHANGED <<replay.step, replay.lines, replay.offsets>>
           /\ TypeOK' /\ ShapeInv' /\ PhaseInv' /\ IndexInv' /\ RowsInv'
<1>1. /\ replay \in [step : Nat, lines : Nat, offsets : Seq(Nat), pos : Nat]
      /\ TypeOK /\ PhaseInv /\ IndexInv /\ RowsInv
  BY DEF Inv, ReplayInv, ShapeInv
<1>2. /\ replay' \in [step : Nat, lines : Nat, offsets : Seq(Nat), pos : Nat]
      /\ replay'.step = replay.step /\ replay'.lines = replay.lines
      /\ replay'.offsets = replay.offsets /\ replay'.pos = n
  BY <1>1
<1>3. replay' # Closed
  BY <1>2 DEF Closed
<1>4. rows' = rows /\ phase' = phase /\ last' = last
  OBVIOUS
<1>5. TypeOK'
  <2>1. n \in 0 .. Len(rows) + 1
    BY <1>1 DEF TypeOK
  <2>2. QED
    BY <1>1, <1>2, <1>4, <2>1 DEF TypeOK
<1>6. ShapeInv'
  BY <1>2 DEF ShapeInv
<1>7. PhaseInv'
  BY <1>1, <1>3, <1>4 DEF PhaseInv
<1>8. IndexInv'
  BY <1>1, <1>2, <1>4 DEF IndexInv
<1>9. RowsInv'
  BY <1>1, <1>4 DEF RowsInv
<1>10. QED
  BY <1>2, <1>3, <1>5, <1>6, <1>7, <1>8, <1>9

\* What is read of row n.
LEMMA ReplyIs ==
    ASSUME NEW call \in {"next", "line"}, NEW line \in Nat, NEW n \in Nat
    PROVE  /\ ReplyTo(call, line, n) \in
                [call : {"none", "next", "line"}, rc : Int, line : Nat, row : Nat]
           /\ ReplyTo(call, line, n).call = call /\ ReplyTo(call, line, n).line = line
           /\ ReplyTo(call, line, n).row = n /\ ReplyTo(call, line, n).rc # 1
           /\ ReplyTo(call, line, n).rc = 0 <=> Readable(rows[n])
<1>1. 0 \in Int /\ -2 \in Int /\ 0 # 1 /\ -2 # 1 /\ -2 # 0
  OBVIOUS
<1>2. (IF rows[n].long \/ ~Replayable(rows[n].number) THEN -2 ELSE 0) \in Int
  BY <1>1
<1>3. QED
  BY <1>1, <1>2 DEF ReplyTo, Readable

\* What a sequence holds after one more element.
LEMMA AppendRange ==
    ASSUME NEW s \in Seq(Nat), NEW e \in Nat
    PROVE  Range(Append(s, e)) = Range(s) \cup {e}
<1>1. PICK n \in Nat : n = Len(s)
  BY LenProperties
<1>2. /\ \A i \in 1 .. n : Append(s, e)[i] = s[i]
      /\ Append(s, e)[n + 1] = e /\ Append(s, e) \in Seq(Nat) /\ Len(Append(s, e)) = n + 1
  BY <1>1, AppendProperties
<1>3. DOMAIN s = 1 .. n /\ DOMAIN Append(s, e) = 1 .. n + 1
  BY <1>1, <1>2, LenProperties
<1>4. ASSUME NEW x \in Range(Append(s, e)) PROVE x \in Range(s) \cup {e}
  <2>1. PICK i \in 1 .. n + 1 : x = Append(s, e)[i]
    BY <1>3 DEF Range
  <2>2. CASE i = n + 1
    BY <1>2, <2>1, <2>2
  <2>3. CASE i # n + 1
    <3>1. i \in 1 .. n
      BY <1>1, <2>3
    <3>2. QED
      BY <1>2, <1>3, <2>1, <3>1 DEF Range
  <2>4. QED
    BY <2>2, <2>3
<1>5. ASSUME NEW x \in Range(s) \cup {e} PROVE x \in Range(Append(s, e))
  <2>1. n + 1 \in 1 .. n + 1
    BY <1>1
  <2>2. CASE x = e
    BY <1>2, <1>3, <2>1, <2>2 DEF Range
  <2>3. CASE x \in Range(s)
    <3>1. PICK i \in 1 .. n : x = s[i]
      BY <1>3, <2>3 DEF Range
    <3>2. i \in 1 .. n + 1
      BY <1>1
    <3>3. QED
      BY <1>2, <1>3, <3>1, <3>2 DEF Range
  <2>4. QED
    BY <2>2, <2>3
<1>6. QED
  BY <1>4, <1>5

\* The rows replayed one after the other, with the next one that can be, or
\* without one that cannot.
LEMMA GotNext ==
    ASSUME Inv, replay # Closed, got # Jumped, replay.pos \in DOMAIN rows,
           rows' = rows, replay'.pos = replay.pos + 1,
           got' = IF Readable(rows[replay.pos]) THEN Append(got, replay.pos) ELSE got
    PROVE  GotInv'
<1> DEFINE Before(p) == {i \in DOMAIN rows : i < p /\ Readable(rows[i])}
<1>1. /\ got \in Seq(Nat) /\ replay.pos \in Nat /\ DOMAIN rows \subseteq Nat
      /\ Range(got) = Before(replay.pos)
      /\ \A i, j \in DOMAIN got : i < j => got[i] < got[j]
  <2>1. /\ ShapeInv /\ GotInv /\ rows \in Seq(Row)
    BY DEF Inv, ReplayInv, TypeOK
  <2>2. DOMAIN rows \subseteq Nat
    BY <2>1, LenProperties
  <2>3. QED
    BY <2>1, <2>2 DEF ShapeInv, GotInv
<1>2. PICK p \in Nat : p = replay.pos
  BY <1>1
<1>3. /\ p \in DOMAIN rows /\ p \notin Before(p) /\ \A i \in Before(p) : i < p
      /\ Range(got) = Before(p)
  BY <1>1, <1>2
<1>4. SUFFICES /\ Range(got') = Before(p + 1)
               /\ \A i, j \in DOMAIN got' : i < j => got'[i] < got'[j]
  BY <1>2 DEF GotInv
<1>5. CASE Readable(rows[p])
  <2>1. got' = Append(got, p)
    BY <1>2, <1>5
  <2>2. Before(p + 1) = Before(p) \cup {p}
    BY <1>1, <1>2, <1>3, <1>5
  <2>3. Range(got') = Before(p + 1)
    BY <1>1, <1>3, <2>1, <2>2, AppendRange
  <2>4. PICK n \in Nat : n = Len(got)
    BY <1>1, LenProperties
  <2>5. /\ DOMAIN got = 1 .. n /\ DOMAIN got' = 1 .. n + 1
        /\ \A i \in 1 .. n : got'[i] = got[i]
        /\ got'[n + 1] = p
    BY <1>1, <2>1, <2>4, AppendProperties, LenProperties
  <2>6. ASSUME NEW i \in 1 .. n + 1, NEW j \in 1 .. n + 1, i < j
        PROVE  got'[i] < got'[j]
    <3>1. i \in 1 .. n
      BY <2>4, <2>6
    <3>2. CASE j \in 1 .. n
      BY <1>1, <2>5, <2>6, <3>1, <3>2
    <3>3. CASE j = n + 1
      <4>1. got[i] \in Range(got)
        BY <2>5, <3>1 DEF Range
      <4>2. got[i] < p
        BY <1>3, <4>1
      <4>3. QED
        BY <2>5, <3>1, <3>3, <4>2
    <3>4. QED
      BY <2>4, <3>2, <3>3
  <2>7. QED
    BY <2>3, <2>5, <2>6
<1>6. CASE ~Readable(rows[p])
  <2>1. got' = got
    BY <1>2, <1>6
  <2>2. Before(p + 1) = Before(p)
    BY <1>1, <1>2, <1>6
  <2>3. QED
    BY <1>1, <1>3, <2>1, <2>2
<1>7. QED
  BY <1>5, <1>6

\* fs_replay_read_next.
LEMMA ReadNextKeeps ==
    ASSUME Inv, ReadNext
    PROVE  Inv'
<1>1. /\ replay # Closed /\ UNCHANGED <<phase, last, rows>>
      /\ IF replay.pos > Len(rows)
         THEN /\ reply' = [call |-> "next", line |-> 0, row |-> 0, rc |-> 1]
              /\ UNCHANGED <<replay, got>>
         ELSE /\ reply' = ReplyTo("next", 0, replay.pos)
              /\ replay' = [replay EXCEPT !.pos = @ + 1]
              /\ got' = IF got # Jumped /\ reply'.rc = 0 THEN Append(got, replay.pos) ELSE got
  BY DEF ReadNext
<1>2. /\ replay \in [step : Nat, lines : Nat, offsets : Seq(Nat), pos : Nat]
      /\ replay.pos \in Nat /\ replay.pos # 0 /\ replay.pos <= Len(rows) + 1
      /\ got \in Seq(Nat) /\ GotInv
      /\ rows \in Seq(Row) /\ Len(rows) \in Nat /\ DOMAIN rows = 1 .. Len(rows)
      /\ MaxRows \in Nat /\ Len(rows) <= MaxRows
  <2>1. ShapeInv /\ IndexInv /\ TypeOK /\ GotInv
    BY DEF Inv, ReplayInv
  <2>2. rows \in Seq(Row) /\ Len(rows) \in Nat /\ DOMAIN rows = 1 .. Len(rows)
    BY <2>1, LenProperties DEF TypeOK
  <2>3. QED
    BY <1>1, <2>1, <2>2, RecordingAssumption DEF ShapeInv, IndexInv, TypeOK
<1>3. CASE replay.pos > Len(rows)
  <2>1. /\ replay' = replay /\ got' = got
        /\ reply' = [call |-> "next", line |-> 0, row |-> 0, rc |-> 1]
    BY <1>1, <1>3
  <2>2. replay' = [replay EXCEPT !.pos = replay.pos]
    BY <1>2, <2>1
  <2>3. reply' \in [call : {"none", "next", "line"}, rc : Int, line : Nat, row : Nat]
    BY <2>1
  <2>4. reply'.row = 0 /\ reply'.line = 0 /\ reply'.call = "next"
    BY <2>1
  <2>a. /\ reply'.row \in 0 .. Len(rows) /\ reply'.line \in 0 .. MaxRows
        /\ got' \in Seq(Nat)
    BY <1>2, <2>1, <2>4
  <2>b. replay.pos \in Nat /\ replay.pos # 0 /\ replay.pos <= Len(rows) + 1
    BY <1>2
  <2>5. /\ replay' # Closed
        /\ TypeOK' /\ ShapeInv' /\ PhaseInv' /\ IndexInv' /\ RowsInv'
    BY <1>1, <2>2, <2>3, <2>a, <2>b, ReaderFrame
  <2>6. GotInv'
    BY <1>1, <1>2, <2>1 DEF GotInv
  <2>7. replay.pos = Len(rows) + 1
    BY <1>2, <1>3
  <2>8. ReplyInv'
    BY <1>1, <2>1, <2>4, <2>7 DEF ReplyInv, ReadLineIsExact
  <2>9. QED
    BY <2>5, <2>6, <2>8 DEF Inv, ReplayInv
<1>4. CASE ~(replay.pos > Len(rows))
  <2>1. /\ reply' = ReplyTo("next", 0, replay.pos)
        /\ replay' = [replay EXCEPT !.pos = replay.pos + 1]
        /\ got' = IF got # Jumped /\ reply'.rc = 0 THEN Append(got, replay.pos) ELSE got
    BY <1>1, <1>4
  <2>2. replay.pos \in 1 .. Len(rows) /\ replay.pos \in DOMAIN rows
    BY <1>2, <1>4
  <2>3. /\ reply' \in [call : {"none", "next", "line"}, rc : Int, line : Nat, row : Nat]
        /\ reply'.call = "next" /\ reply'.row = replay.pos /\ reply'.line = 0 /\ reply'.rc # 1
        /\ reply'.rc = 0 <=> Readable(rows[replay.pos])
    <3>1. replay.pos \in Nat /\ 0 \in Nat /\ "next" \in {"next", "line"}
      BY <1>2
    <3>2. reply' = ReplyTo("next", 0, replay.pos)
      BY <2>1
    <3>3. QED
      BY <3>1, <3>2, ReplyIs
  <2>4. got' \in Seq(Nat)
    BY <1>2, <2>1, AppendProperties
  <2>5. /\ replay.pos + 1 \in Nat /\ replay.pos + 1 # 0 /\ replay.pos + 1 <= Len(rows) + 1
        /\ reply'.row \in 0 .. Len(rows) /\ reply'.line \in 0 .. MaxRows
    BY <1>2, <2>2, <2>3
  <2>6. /\ replay' # Closed /\ replay'.pos = replay.pos + 1
        /\ TypeOK' /\ ShapeInv' /\ PhaseInv' /\ IndexInv' /\ RowsInv'
    BY <1>1, <2>1, <2>3, <2>4, <2>5, ReaderFrame
  <2>7. GotInv'
    <3>1. CASE got = Jumped
      BY <2>1, <3>1 DEF GotInv
    <3>2. CASE got # Jumped
      <4>1. got' = IF Readable(rows[replay.pos]) THEN Append(got, replay.pos) ELSE got
        BY <2>1, <2>3, <3>2
      <4>2. QED
        BY <1>1, <2>2, <2>6, <3>2, <4>1, GotNext
    <3>3. QED
      BY <3>1, <3>2
  <2>8. ReplyInv'
    BY <1>1, <2>3 DEF ReplyInv, ReadLineIsExact
  <2>9. QED
    BY <2>6, <2>7, <2>8 DEF Inv, ReplayInv
<1>5. QED
  BY <1>3, <1>4

\* fs_replay_read_line.
LEMMA ReadLineKeeps ==
    ASSUME Inv, NEW line \in 0 .. MaxRows, ReadLine(line)
    PROVE  Inv'
<1> DEFINE block == line \div replay.step
           n == IF FromBehind(line) THEN replay.offsets[NextBlock(line) + 1]
                ELSE replay.offsets[block + 1] + Backward(line)
<1>1. /\ replay # Closed /\ UNCHANGED <<phase, last, rows>>
      /\ IF line < replay.lines
         THEN /\ reply' = ReplyTo("line", line, n)
              /\ replay' = [replay EXCEPT !.pos = n + 1]
              /\ got' = Jumped
         ELSE /\ reply' = [call |-> "line", line |-> line, row |-> 0,
                           rc |-> IF replay.lines = 0 THEN -2 ELSE -3]
              /\ UNCHANGED <<replay, got>>
  BY DEF ReadLine
<1>2. /\ replay \in [step : Nat, lines : Nat, offsets : Seq(Nat), pos : Nat]
      /\ replay.pos \in Nat /\ replay.pos # 0 /\ replay.pos <= Len(rows) + 1
      /\ got \in Seq(Nat) /\ GotInv
      /\ rows \in Seq(Row) /\ Len(rows) \in Nat /\ DOMAIN rows = 1 .. Len(rows)
      /\ MaxRows \in Nat /\ Len(rows) <= MaxRows /\ line \in Nat
      /\ replay.step \in Nat \ {0} /\ replay.lines \in Nat /\ replay.lines <= Len(rows)
      /\ replay.offsets = Offsets(replay.step, replay.lines)
      /\ \A b \in DOMAIN replay.offsets : replay.offsets[b] \in 1 .. replay.lines
  <2>1. ShapeInv /\ IndexInv /\ TypeOK /\ GotInv
    BY DEF Inv, ReplayInv
  <2>2. rows \in Seq(Row) /\ Len(rows) \in Nat /\ DOMAIN rows = 1 .. Len(rows)
    BY <2>1, LenProperties DEF TypeOK
  <2>3. QED
    BY <1>1, <2>1, <2>2, RecordingAssumption DEF ShapeInv, IndexInv, TypeOK
<1>3. CASE ~(line < replay.lines)
  <2>1. /\ replay' = replay /\ got' = got
        /\ reply' = [call |-> "line", line |-> line, row |-> 0,
                     rc |-> IF replay.lines = 0 THEN -2 ELSE -3]
    BY <1>1, <1>3
  <2>2. replay' = [replay EXCEPT !.pos = replay.pos]
    BY <1>2, <2>1
  <2>3. reply' \in [call : {"none", "next", "line"}, rc : Int, line : Nat, row : Nat]
    <3>1. (IF replay.lines = 0 THEN -2 ELSE -3) \in Int
      OBVIOUS
    <3>2. QED
      BY <1>2, <2>1, <3>1
  <2>4. reply'.row = 0 /\ reply'.line = line /\ reply'.call = "line"
    BY <2>1
  <2>a. /\ reply'.row \in 0 .. Len(rows) /\ reply'.line \in 0 .. MaxRows
        /\ got' \in Seq(Nat)
    BY <1>2, <2>1, <2>4
  <2>b. replay.pos \in Nat /\ replay.pos # 0 /\ replay.pos <= Len(rows) + 1
    BY <1>2
  <2>5. /\ replay' # Closed
        /\ TypeOK' /\ ShapeInv' /\ PhaseInv' /\ IndexInv' /\ RowsInv'
    BY <1>1, <2>2, <2>3, <2>a, <2>b, ReaderFrame
  <2>6. GotInv'
    BY <1>1, <1>2, <2>1 DEF GotInv
  <2>7. ReplyInv'
    BY <2>4 DEF ReplyInv, ReadLineIsExact
  <2>8. QED
    BY <2>5, <2>6, <2>7 DEF Inv, ReplayInv
<1>4. CASE line < replay.lines
  <2>1. /\ reply' = ReplyTo("line", line, n) /\ replay' = [replay EXCEPT !.pos = n + 1]
        /\ got' = Jumped
    BY <1>1, <1>4
  <2>2. PICK k \in Nat : k = Blocks(replay.step, replay.lines)
    BY <1>2, BlocksFit
  <2>3. /\ DOMAIN replay.offsets = 1 .. k /\ Len(replay.offsets) = k
        /\ \A b \in 1 .. k : replay.offsets[b] = (b - 1) * replay.step + 1
    BY <1>2, <2>2 DEF Offsets
  <2>4. block + 1 \in 1 .. k /\ block * replay.step + (line % replay.step) = line
    BY <1>2, <1>4, <2>2, BlocksFit
  <2>5. block \in Nat /\ line % replay.step \in Nat
    <3>1. replay.step \in Nat \ {0} /\ line \in Nat
      BY <1>2
    <3>2. block \in Nat /\ line % replay.step \in 0 .. replay.step - 1
      BY <3>1, Division
    <3>3. QED
      BY <3>1, <3>2
  <2>6. ~FromBehind(line) => n = line + 1
    <3>1. PICK b \in Nat : b = block
      BY <2>5
    <3>2. PICK r \in Nat : r = line % replay.step
      BY <2>5
    <3>3. b + 1 \in 1 .. k /\ b * replay.step + r = line /\ b * replay.step \in Nat
      BY <1>2, <2>4, <3>1, <3>2, SMTT(30)
    <3>4. replay.offsets[b + 1] = b * replay.step + 1
      <4>1. b + 1 - 1 = b
        BY <3>1
      <4>2. QED
        BY <2>3, <3>3, <4>1
    <3>5. replay.offsets[b + 1] + r = line + 1
      BY <3>2, <3>3, <3>4
    <3>6. Backward(line) = r
      BY <3>2 DEF Backward
    <3>7. QED
      BY <3>1, <3>5, <3>6
  <2>7. FromBehind(line) => n \in 1 .. replay.lines
    <3>1. NextBlock(line) = block + 1
      BY DEF NextBlock
    <3>2. FromBehind(line) => block + 1 + 1 \in 1 .. k
      BY <2>3, <2>5, <3>1 DEF FromBehind
    <3>3. QED
      BY <1>2, <2>3, <3>1, <3>2
  <2> HIDE DEF n, block
  <2>8. n \in Nat /\ n # 0 /\ n <= Len(rows)
    BY <1>2, <1>4, <2>6, <2>7
  <2>9. /\ reply' \in [call : {"none", "next", "line"}, rc : Int, line : Nat, row : Nat]
        /\ reply'.call = "line" /\ reply'.row = n /\ reply'.line = line
        /\ reply'.rc = 0 <=> Readable(rows[n])
    <3>1. n \in Nat /\ line \in Nat /\ "line" \in {"next", "line"}
      BY <1>2, <2>8
    <3>2. reply' = ReplyTo("line", line, n)
      BY <2>1
    <3>3. QED
      BY <3>1, <3>2, ReplyIs
  <2>10. got' \in Seq(Nat)
    <3>1. <<0>> \in Seq(Nat)
      OBVIOUS
    <3>2. QED
      BY <2>1, <3>1 DEF Jumped
  <2>11. /\ n + 1 \in Nat /\ n + 1 # 0 /\ n + 1 <= Len(rows) + 1
         /\ reply'.row \in 0 .. Len(rows) /\ reply'.line \in 0 .. MaxRows
    BY <1>2, <2>8, <2>9
  <2>12. /\ replay' # Closed /\ replay'.pos = n + 1
         /\ UNCHANGED <<replay.step, replay.lines, replay.offsets>>
         /\ TypeOK' /\ ShapeInv' /\ PhaseInv' /\ IndexInv' /\ RowsInv'
    BY <1>1, <2>1, <2>9, <2>10, <2>11, ReaderFrame
  <2>13. GotInv'
    BY <2>1 DEF GotInv
  <2>14. FromBehind(line)' <=> FromBehind(line)
    BY <2>12 DEF FromBehind, Forward, Backward, NextBlock
  <2>15. ReadLineIsExact'
    <3>1. ASSUME ~FromBehind(reply.line)' PROVE reply'.row = reply'.line + 1
      BY <2>6, <2>9, <2>12, <3>1 DEF FromBehind, Forward, Backward, NextBlock
    <3>2. QED
      BY <2>9, <2>12, <3>1 DEF ReadLineIsExact
  <2>16. ReplyInv'
    BY <1>1, <2>9, <2>15 DEF ReplyInv
  <2>17. QED
    BY <2>12, <2>13, <2>16 DEF Inv, ReplayInv
<1>5. QED
  BY <1>3, <1>4

-----------------------------------------------------------------------------
(* The theorems.                                                           *)

\* Every step keeps the invariant.
LEMMA InvStep == Inv /\ [Next]_vars => Inv'
<1> SUFFICES ASSUME Inv, [Next]_vars PROVE Inv'
  OBVIOUS
<1>1. CASE UNCHANGED vars
  <2>1. /\ phase' = phase /\ last' = last /\ rows' = rows /\ replay' = replay
        /\ reply' = reply /\ got' = got
    BY <1>1 DEF vars
  <2>2. TypeOK'
    BY <2>1 DEF Inv, TypeOK
  <2>3. ShapeInv' /\ PhaseInv' /\ IndexInv'
    BY <2>1 DEF Inv, ReplayInv, ShapeInv, PhaseInv, IndexInv
  <2>4. GotInv' /\ RowsInv'
    BY <2>1 DEF Inv, ReplayInv, GotInv, RowsInv
  <2>5. ReplyInv'
    BY <2>1 DEF Inv, ReplayInv, ReplyInv, ReadLineIsExact, FromBehind, Forward, Backward, NextBlock
  <2>6. QED
    BY <2>2, <2>3, <2>4, <2>5 DEF Inv, ReplayInv
<1>2. QED
  BY <1>1, FileKeeps, RecordKeeps, KillKeeps, OpenKeeps, CloseKeeps, ReadNextKeeps, ReadLineKeeps
  DEF Next

\* So it holds for ever.
LEMMA Inductive == Spec => []Inv
  BY InitInv, InvStep, PTL DEF Spec

\* Every variable keeps its type; in particular the index never points behind the
\* lines it counted.
THEOREM TypeCorrect == Spec => []TypeOK
<1>1. Inv => TypeOK
  BY DEF Inv
<1>2. QED
  BY <1>1, Inductive, PTL

\* Reading row after row to the end yields every row that can be replayed, in
\* order, each once, wherever the file was cut and whatever the step of the index.
THEOREM AllRowsAreReplayed == Spec => []NextYieldsRows
<1>1. Inv => NextYieldsRows
  <2> SUFFICES ASSUME Inv, reply.call = "next", reply.rc = 1, got # Jumped
               PROVE  /\ Range(got) = {i \in DOMAIN rows :
                                          ~rows[i].long /\ Replayable(rows[i].number)}
                      /\ \A i, j \in DOMAIN got : i < j => got[i] < got[j]
    BY DEF NextYieldsRows
  <2>1. replay # Closed
    BY DEF Inv, ReplayInv, PhaseInv, NoReply
  <2>2. replay.pos = Len(rows) + 1
    BY DEF Inv, ReplayInv, ReplyInv
  <2>3. \A i \in DOMAIN rows : i < replay.pos
    <3>1. Len(rows) \in Nat /\ DOMAIN rows = 1 .. Len(rows)
      BY LenProperties DEF Inv, TypeOK
    <3>2. QED
      BY <2>2, <3>1
  <2>4. GotInv
    BY DEF Inv, ReplayInv
  <2>5. QED
    BY <2>1, <2>3, <2>4 DEF GotInv, Readable
<1>2. QED
  BY <1>1, Inductive, PTL

\* fs_replay_read_line reads the row it is asked for unless it starts from the entry
\* behind it.
THEOREM LinesAreExact == Spec => []ReadLineIsExact
<1>1. Inv => ReadLineIsExact
  BY DEF Inv, ReplayInv, ReplyInv
<1>2. QED
  BY <1>1, Inductive, PTL

-----------------------------------------------------------------------------
(* The layout of the packets.                                              *)

\* The fields of the structs.
Names == {"type", "time", "raw0", "raw1", "raw2", "q", "mag", "acc", "omega", "v", "r", "reserved0",
          "temp", "motion", "diag", "reserved", "c", "baro"}
Field == Names \X Nat

\* The elements of two sequences put together.
LEMMA Joined ==
    ASSUME NEW s \in Seq(Field), NEW t \in Seq(Field)
    PROVE  /\ s \o t \in Seq(Field) /\ Len(s \o t) = Len(s) + Len(t)
           /\ \A i \in 1 .. Len(s) : (s \o t)[i] = s[i]
           /\ \A i \in Len(s) + 1 .. Len(s) + Len(t) : (s \o t)[i] = t[i - Len(s)]
<1>1. s \o t \in Seq(Field) /\ Len(s \o t) = Len(s) + Len(t)
  BY ConcatProperties
<1>2. \A i \in 1 .. Len(s) + Len(t) : (s \o t)[i] = IF i <= Len(s) THEN s[i] ELSE t[i - Len(s)]
  BY ConcatProperties
<1>3. Len(s) \in Nat /\ Len(t) \in Nat
  BY LenProperties
<1>4. QED
  BY <1>1, <1>2, <1>3

\* The fields that the structs have in common.
LEMMA Head4Is ==
    /\ Head4 \in Seq(Field) /\ Len(Head4) = 2
    /\ Head4[1] = <<"type", 1>> /\ Head4[2] = <<"time", 4>>
<1>1. /\ <<"type", 1>> \in Field /\ <<"time", 4>> \in Field
  BY DEF Field, Names
<1>2. QED
  BY <1>1 DEF Head4

\* The raw readings of the three IMUs.
LEMMA RawsIs ==
    /\ Raws \in Seq(Field) /\ Len(Raws) = 3
    /\ Raws[1] = <<"raw0", 24>> /\ Raws[2] = <<"raw1", 24>> /\ Raws[3] = <<"raw2", 24>>
<1>1. /\ <<"raw0", 24>> \in Field /\ <<"raw1", 24>> \in Field /\ <<"raw2", 24>> \in Field
  BY DEF Field, Names
<1>2. QED
  BY <1>1 DEF Raws

\* The fields that end every struct.
LEMMA TrailerIs ==
    /\ Trailer \in Seq(Field) /\ Len(Trailer) = 6
    /\ Trailer[1] = <<"temp", 6>> /\ Trailer[2] = <<"motion", 1>> /\ Trailer[3] = <<"diag", 1>>
    /\ Trailer[4] = <<"reserved", 3>> /\ Trailer[5] = <<"c", 1>> /\ Trailer[6] = <<"baro", 4>>
<1>1. /\ <<"temp", 6>> \in Field /\ <<"motion", 1>> \in Field /\ <<"diag", 1>> \in Field
      /\ <<"reserved", 3>> \in Field /\ <<"c", 1>> \in Field /\ <<"baro", 4>> \in Field
  BY DEF Field, Names
<1>2. QED
  BY <1>1 DEF Trailer

\* The fields of the regular packet, one by one.
LEMMA RegularIs ==
    /\ Regular \in Seq(Field) /\ Len(Regular) = 13
    /\ Regular[1] = <<"type", 1>> /\ Regular[2] = <<"time", 4>> /\ Regular[3] = <<"omega", 12>>
    /\ Regular[4] = <<"q", 16>> /\ Regular[5] = <<"mag", 12>> /\ Regular[6] = <<"acc", 12>>
    /\ Regular[7] = <<"reserved0", 12>> /\ Regular[8] = <<"temp", 6>>
    /\ Regular[9] = <<"motion", 1>> /\ Regular[10] = <<"diag", 1>>
    /\ Regular[11] = <<"reserved", 3>> /\ Regular[12] = <<"c", 1>> /\ Regular[13] = <<"baro", 4>>
<1> DEFINE middle == << <<"omega", 12>>, <<"q", 16>>, <<"mag", 12>>, <<"acc", 12>>,
                        <<"reserved0", 12>> >>
           s == Head4 \o middle
<1>1. /\ middle \in Seq(Field) /\ Len(middle) = 5
      /\ middle[1] = <<"omega", 12>> /\ middle[2] = <<"q", 16>> /\ middle[3] = <<"mag", 12>>
      /\ middle[4] = <<"acc", 12>> /\ middle[5] = <<"reserved0", 12>>
  <2>1. /\ <<"omega", 12>> \in Field /\ <<"q", 16>> \in Field /\ <<"mag", 12>> \in Field
        /\ <<"acc", 12>> \in Field /\ <<"reserved0", 12>> \in Field
    BY DEF Field, Names
  <2>2. QED
    BY <2>1
<1>2. Regular = s \o Trailer
  BY DEF Regular
<1> HIDE DEF middle
<1>3. /\ s \in Seq(Field) /\ Len(s) = 7
      /\ \A i \in 1 .. 2 : s[i] = Head4[i]
      /\ \A i \in 3 .. 7 : s[i] = middle[i - 2]
  <2>1. /\ Head4 \in Seq(Field) /\ Len(Head4) = 2
        /\ middle \in Seq(Field) /\ Len(middle) = 5
    BY <1>1, Head4Is
  <2>2. /\ Head4 \o middle \in Seq(Field) /\ Len(Head4 \o middle) = Len(Head4) + Len(middle)
        /\ \A i \in 1 .. Len(Head4) : (Head4 \o middle)[i] = Head4[i]
        /\ \A i \in Len(Head4) + 1 .. Len(Head4) + Len(middle) :
             (Head4 \o middle)[i] = middle[i - Len(Head4)]
    BY <2>1, Joined
  <2>3. QED
    BY <2>1, <2>2
<1> HIDE DEF s
<1>4. /\ Regular \in Seq(Field) /\ Len(Regular) = 13
      /\ \A i \in 1 .. 7 : Regular[i] = s[i]
      /\ \A i \in 8 .. 13 : Regular[i] = Trailer[i - 7]
  <2>1. /\ s \in Seq(Field) /\ Len(s) = 7
        /\ Trailer \in Seq(Field) /\ Len(Trailer) = 6
    BY <1>3, TrailerIs
  <2>2. /\ s \o Trailer \in Seq(Field) /\ Len(s \o Trailer) = Len(s) + Len(Trailer)
        /\ \A i \in 1 .. Len(s) : (s \o Trailer)[i] = s[i]
        /\ \A i \in Len(s) + 1 .. Len(s) + Len(Trailer) :
             (s \o Trailer)[i] = Trailer[i - Len(s)]
    BY <2>1, Joined
  <2>3. Regular \in Seq(Field) /\ Len(Regular) = 13
    BY <1>2, <2>1, <2>2
  <2>4. ASSUME NEW i \in 1 .. 7 PROVE Regular[i] = s[i]
    BY <1>2, <2>1, <2>2
  <2>5. ASSUME NEW i \in 8 .. 13 PROVE Regular[i] = Trailer[i - 7]
    <3>1. i \in Len(s) + 1 .. Len(s) + Len(Trailer)
      BY <2>1
    <3>2. QED
      BY <1>2, <2>1, <2>2, <3>1
  <2>6. QED
    BY <2>3, <2>4, <2>5
<1>5. /\ Regular[1] = <<"type", 1>> /\ Regular[2] = <<"time", 4>>
  BY <1>3, <1>4, Head4Is
<1>6. /\ Regular[3] = <<"omega", 12>> /\ Regular[4] = <<"q", 16>> /\ Regular[5] = <<"mag", 12>>
      /\ Regular[6] = <<"acc", 12>> /\ Regular[7] = <<"reserved0", 12>>
  BY <1>1, <1>3, <1>4
<1>7. /\ Regular[8] = <<"temp", 6>> /\ Regular[9] = <<"motion", 1>> /\ Regular[10] = <<"diag", 1>>
      /\ Regular[11] = <<"reserved", 3>> /\ Regular[12] = <<"c", 1>>
      /\ Regular[13] = <<"baro", 4>>
  BY <1>4, TrailerIs
<1>8. QED
  BY <1>4, <1>5, <1>6, <1>7

\* The fields of the composite packet, one by one.
LEMMA CompositeIs ==
    /\ Composite \in Seq(Field) /\ Len(Composite) = 15
    /\ Composite[1] = <<"type", 1>> /\ Composite[2] = <<"time", 4>>
    /\ Composite[3] = <<"raw0", 24>> /\ Composite[4] = <<"raw1", 24>>
    /\ Composite[5] = <<"raw2", 24>> /\ Composite[6] = <<"q", 16>> /\ Composite[7] = <<"mag", 12>>
    /\ Composite[8] = <<"acc", 12>> /\ Composite[9] = <<"omega", 12>>
    /\ Composite[10] = <<"temp", 6>> /\ Composite[11] = <<"motion", 1>>
    /\ Composite[12] = <<"diag", 1>> /\ Composite[13] = <<"reserved", 3>>
    /\ Composite[14] = <<"c", 1>> /\ Composite[15] = <<"baro", 4>>
<1> DEFINE middle == << <<"q", 16>>, <<"mag", 12>>, <<"acc", 12>>, <<"omega", 12>> >>
           s1 == Head4 \o Raws
           s2 == s1 \o middle
<1>1. /\ middle \in Seq(Field) /\ Len(middle) = 4
      /\ middle[1] = <<"q", 16>> /\ middle[2] = <<"mag", 12>> /\ middle[3] = <<"acc", 12>>
      /\ middle[4] = <<"omega", 12>>
  <2>1. /\ <<"q", 16>> \in Field /\ <<"mag", 12>> \in Field /\ <<"acc", 12>> \in Field
        /\ <<"omega", 12>> \in Field
    BY DEF Field, Names
  <2>2. QED
    BY <2>1
<1>2. Composite = s2 \o Trailer
  BY DEF Composite
<1> HIDE DEF middle
<1>3. /\ s1 \in Seq(Field) /\ Len(s1) = 5
      /\ \A i \in 1 .. 2 : s1[i] = Head4[i]
      /\ \A i \in 3 .. 5 : s1[i] = Raws[i - 2]
  <2>1. /\ Head4 \in Seq(Field) /\ Len(Head4) = 2
        /\ Raws \in Seq(Field) /\ Len(Raws) = 3
    BY Head4Is, RawsIs
  <2>2. /\ Head4 \o Raws \in Seq(Field) /\ Len(Head4 \o Raws) = Len(Head4) + Len(Raws)
        /\ \A i \in 1 .. Len(Head4) : (Head4 \o Raws)[i] = Head4[i]
        /\ \A i \in Len(Head4) + 1 .. Len(Head4) + Len(Raws) :
             (Head4 \o Raws)[i] = Raws[i - Len(Head4)]
    BY <2>1, Joined
  <2>3. QED
    BY <2>1, <2>2
<1> HIDE DEF s1
<1>4. /\ s2 \in Seq(Field) /\ Len(s2) = 9
      /\ \A i \in 1 .. 5 : s2[i] = s1[i]
      /\ \A i \in 6 .. 9 : s2[i] = middle[i - 5]
  <2>1. /\ s1 \in Seq(Field) /\ Len(s1) = 5
        /\ middle \in Seq(Field) /\ Len(middle) = 4
    BY <1>1, <1>3
  <2>2. /\ s1 \o middle \in Seq(Field) /\ Len(s1 \o middle) = Len(s1) + Len(middle)
        /\ \A i \in 1 .. Len(s1) : (s1 \o middle)[i] = s1[i]
        /\ \A i \in Len(s1) + 1 .. Len(s1) + Len(middle) :
             (s1 \o middle)[i] = middle[i - Len(s1)]
    BY <2>1, Joined
  <2>3. QED
    BY <2>1, <2>2
<1> HIDE DEF s2
<1>5. /\ Composite \in Seq(Field) /\ Len(Composite) = 15
      /\ \A i \in 1 .. 9 : Composite[i] = s2[i]
      /\ \A i \in 10 .. 15 : Composite[i] = Trailer[i - 9]
  <2>1. /\ s2 \in Seq(Field) /\ Len(s2) = 9
        /\ Trailer \in Seq(Field) /\ Len(Trailer) = 6
    BY <1>4, TrailerIs
  <2>2. /\ s2 \o Trailer \in Seq(Field) /\ Len(s2 \o Trailer) = Len(s2) + Len(Trailer)
        /\ \A i \in 1 .. Len(s2) : (s2 \o Trailer)[i] = s2[i]
        /\ \A i \in Len(s2) + 1 .. Len(s2) + Len(Trailer) :
             (s2 \o Trailer)[i] = Trailer[i - Len(s2)]
    BY <2>1, Joined
  <2>3. Composite \in Seq(Field) /\ Len(Composite) = 15
    BY <1>2, <2>1, <2>2
  <2>4. ASSUME NEW i \in 1 .. 9 PROVE Composite[i] = s2[i]
    BY <1>2, <2>1, <2>2
  <2>5. ASSUME NEW i \in 10 .. 15 PROVE Composite[i] = Trailer[i - 9]
    <3>1. i \in Len(s2) + 1 .. Len(s2) + Len(Trailer)
      BY <2>1
    <3>2. QED
      BY <1>2, <2>1, <2>2, <3>1
  <2>6. QED
    BY <2>3, <2>4, <2>5
<1>6. /\ Composite[1] = <<"type", 1>> /\ Composite[2] = <<"time", 4>>
  BY <1>3, <1>4, <1>5, Head4Is
<1>7. /\ Composite[3] = <<"raw0", 24>> /\ Composite[4] = <<"raw1", 24>>
      /\ Composite[5] = <<"raw2", 24>>
  BY <1>3, <1>4, <1>5, RawsIs
<1>8. /\ Composite[6] = <<"q", 16>> /\ Composite[7] = <<"mag", 12>>
      /\ Composite[8] = <<"acc", 12>> /\ Composite[9] = <<"omega", 12>>
  BY <1>1, <1>4, <1>5
<1>9. /\ Composite[10] = <<"temp", 6>> /\ Composite[11] = <<"motion", 1>>
      /\ Composite[12] = <<"diag", 1>> /\ Composite[13] = <<"reserved", 3>>
      /\ Composite[14] = <<"c", 1>> /\ Composite[15] = <<"baro", 4>>
  BY <1>5, TrailerIs
<1>10. QED
  BY <1>5, <1>6, <1>7, <1>8, <1>9

\* The fields of the long composite packet, one by one.
LEMMA Composite2Is ==
    /\ Composite2 \in Seq(Field) /\ Len(Composite2) = 17
    /\ Composite2[1] = <<"type", 1>> /\ Composite2[2] = <<"time", 4>>
    /\ Composite2[3] = <<"raw0", 24>> /\ Composite2[4] = <<"raw1", 24>>
    /\ Composite2[5] = <<"raw2", 24>> /\ Composite2[6] = <<"q", 16>>
    /\ Composite2[7] = <<"mag", 12>> /\ Composite2[8] = <<"omega", 12>>
    /\ Composite2[9] = <<"acc", 12>> /\ Composite2[10] = <<"v", 12>>
    /\ Composite2[11] = <<"r", 24>> /\ Composite2[12] = <<"temp", 6>>
    /\ Composite2[13] = <<"motion", 1>> /\ Composite2[14] = <<"diag", 1>>
    /\ Composite2[15] = <<"reserved", 3>> /\ Composite2[16] = <<"c", 1>>
    /\ Composite2[17] = <<"baro", 4>>
<1> DEFINE middle == << <<"q", 16>>, <<"mag", 12>>, <<"omega", 12>>, <<"acc", 12>>, <<"v", 12>>,
                        <<"r", 24>> >>
           s1 == Head4 \o Raws
           s2 == s1 \o middle
<1>1. /\ middle \in Seq(Field) /\ Len(middle) = 6
      /\ middle[1] = <<"q", 16>> /\ middle[2] = <<"mag", 12>> /\ middle[3] = <<"omega", 12>>
      /\ middle[4] = <<"acc", 12>> /\ middle[5] = <<"v", 12>> /\ middle[6] = <<"r", 24>>
  <2>1. /\ <<"q", 16>> \in Field /\ <<"mag", 12>> \in Field /\ <<"omega", 12>> \in Field
        /\ <<"acc", 12>> \in Field /\ <<"v", 12>> \in Field /\ <<"r", 24>> \in Field
    BY DEF Field, Names
  <2>2. QED
    BY <2>1
<1>2. Composite2 = s2 \o Trailer
  BY DEF Composite2
<1> HIDE DEF middle
<1>3. /\ s1 \in Seq(Field) /\ Len(s1) = 5
      /\ \A i \in 1 .. 2 : s1[i] = Head4[i]
      /\ \A i \in 3 .. 5 : s1[i] = Raws[i - 2]
  <2>1. /\ Head4 \in Seq(Field) /\ Len(Head4) = 2
        /\ Raws \in Seq(Field) /\ Len(Raws) = 3
    BY Head4Is, RawsIs
  <2>2. /\ Head4 \o Raws \in Seq(Field) /\ Len(Head4 \o Raws) = Len(Head4) + Len(Raws)
        /\ \A i \in 1 .. Len(Head4) : (Head4 \o Raws)[i] = Head4[i]
        /\ \A i \in Len(Head4) + 1 .. Len(Head4) + Len(Raws) :
             (Head4 \o Raws)[i] = Raws[i - Len(Head4)]
    BY <2>1, Joined
  <2>3. QED
    BY <2>1, <2>2
<1> HIDE DEF s1
<1>4. /\ s2 \in Seq(Field) /\ Len(s2) = 11
      /\ \A i \in 1 .. 5 : s2[i] = s1[i]
      /\ \A i \in 6 .. 11 : s2[i] = middle[i - 5]
  <2>1. /\ s1 \in Seq(Field) /\ Len(s1) = 5
        /\ middle \in Seq(Field) /\ Len(middle) = 6
    BY <1>1, <1>3
  <2>2. /\ s1 \o middle \in Seq(Field) /\ Len(s1 \o middle) = Len(s1) + Len(middle)
        /\ \A i \in 1 .. Len(s1) : (s1 \o middle)[i] = s1[i]
        /\ \A i \in Len(s1) + 1 .. Len(s1) + Len(middle) :
             (s1 \o middle)[i] = middle[i - Len(s1)]
    BY <2>1, Joined
  <2>3. QED
    BY <2>1, <2>2
<1> HIDE DEF s2
<1>5. /\ Composite2 \in Seq(Field) /\ Len(Composite2) = 17
      /\ \A i \in 1 .. 11 : Composite2[i] = s2[i]
      /\ \A i \in 12 .. 17 : Composite2[i] = Trailer[i - 11]
  <2>1. /\ s2 \in Seq(Field) /\ Len(s2) = 11
        /\ Trailer \in Seq(Field) /\ Len(Trailer) = 6
    BY <1>4, TrailerIs
  <2>2. /\ s2 \o Trailer \in Seq(Field) /\ Len(s2 \o Trailer) = Len(s2) + Len(Trailer)
        /\ \A i \in 1 .. Len(s2) : (s2 \o Trailer)[i] = s2[i]
        /\ \A i \in Len(s2) + 1 .. Len(s2) + Len(Trailer) :
             (s2 \o Trailer)[i] = Trailer[i - Len(s2)]
    BY <2>1, Joined
  <2>3. Composite2 \in Seq(Field) /\ Len(Composite2) = 17
    BY <1>2, <2>1, <2>2
  <2>4. ASSUME NEW i \in 1 .. 11 PROVE Composite2[i] = s2[i]
    BY <1>2, <2>1, <2>2
  <2>5. ASSUME NEW i \in 12 .. 17 PROVE Composite2[i] = Trailer[i - 11]
    <3>1. i \in Len(s2) + 1 .. Len(s2) + Len(Trailer)
      BY <2>1
    <3>2. QED
      BY <1>2, <2>1, <2>2, <3>1
  <2>6. QED
    BY <2>3, <2>4, <2>5
<1>6. /\ Composite2[1] = <<"type", 1>> /\ Composite2[2] = <<"time", 4>>
  BY <1>3, <1>4, <1>5, Head4Is
<1>7. /\ Composite2[3] = <<"raw0", 24>> /\ Composite2[4] = <<"raw1", 24>>
      /\ Composite2[5] = <<"raw2", 24>>
  BY <1>3, <1>4, <1>5, RawsIs, SMTT(30)
<1>8. /\ Composite2[6] = <<"q", 16>> /\ Composite2[7] = <<"mag", 12>>
      /\ Composite2[8] = <<"omega", 12>> /\ Composite2[9] = <<"acc", 12>>
      /\ Composite2[10] = <<"v", 12>> /\ Composite2[11] = <<"r", 24>>
  BY <1>1, <1>4, <1>5, SMTT(30)
<1>9. /\ Composite2[12] = <<"temp", 6>> /\ Composite2[13] = <<"motion", 1>>
      /\ Composite2[14] = <<"diag", 1>> /\ Composite2[15] = <<"reserved", 3>>
      /\ Composite2[16] = <<"c", 1>> /\ Composite2[17] = <<"baro", 4>>
  BY <1>5, TrailerIs
<1>10. QED
  BY <1>5, <1>6, <1>7, <1>8, <1>9

\* The members of the union.
LEMMA KindsAre ==
    /\ Kinds = {"C", "S", "C2", "C64", "S64", "C642"}
    /\ Union["C"] = Composite /\ Union["S"] = Regular /\ Union["C2"] = Composite2
    /\ Union["C64"] = Wide(Composite) /\ Union["S64"] = Wide(Regular)
    /\ Union["C642"] = Wide(Composite2)
  BY DEF Kinds, Union, Composite64, Regular64, Composite64_2

\* Every packet type is one of a kind.
LEMMA KindIs ==
    ASSUME NEW t \in PacketTypes
    PROVE  KindOf[t] \in Kinds
<1>1. PICK k \in Kinds, system \in IMU .. RESERVED : t = FirstType[k] + system
  BY DEF PacketTypes, Type
<1>2. FirstType[k] \in Nat
  BY KindsAre DEF FirstType
<1>3. t \in FirstType[k] .. FirstType[k] + RESERVED
  BY <1>1, <1>2 DEF IMU, RESERVED
<1>4. KindOf[t] = CHOOSE j \in Kinds : t \in FirstType[j] .. FirstType[j] + RESERVED
  BY DEF KindOf
<1>5. QED
  BY <1>3, <1>4

\* The groups that the getters and the printing of rows read.
LEMMA FieldsHave ==
    /\ {"q", "mag", "acc", "omega", "motion"} \subseteq FieldsOf("S")
    /\ {"raw0", "raw1", "raw2", "q", "mag", "acc", "omega", "motion"} \subseteq FieldsOf("C")
    /\ {"raw0", "raw1", "raw2", "q", "mag", "acc", "omega", "v", "r", "motion"}
         \subseteq FieldsOf("C2")
<1>1. {"q", "mag", "acc", "omega", "motion"} \subseteq FieldsOf("S")
  <2>1. \A i \in 1 .. 13 : Regular[i][1] \in FieldsOf("S")
    BY RegularIs, KindsAre, LenProperties DEF FieldsOf
  <2>2. /\ 3 \in 1 .. 13 /\ 4 \in 1 .. 13 /\ 5 \in 1 .. 13 /\ 6 \in 1 .. 13 /\ 9 \in 1 .. 13
        /\ Regular[3][1] = "omega" /\ Regular[4][1] = "q" /\ Regular[5][1] = "mag"
        /\ Regular[6][1] = "acc" /\ Regular[9][1] = "motion"
    BY RegularIs
  <2>3. QED
    BY <2>1, <2>2
<1>2. {"raw0", "raw1", "raw2", "q", "mag", "acc", "omega", "motion"} \subseteq FieldsOf("C")
  <2>1. \A i \in 1 .. 15 : Composite[i][1] \in FieldsOf("C")
    BY CompositeIs, KindsAre, LenProperties DEF FieldsOf
  <2>2. /\ 3 \in 1 .. 15 /\ 4 \in 1 .. 15 /\ 5 \in 1 .. 15 /\ 6 \in 1 .. 15 /\ 7 \in 1 .. 15
        /\ 8 \in 1 .. 15 /\ 9 \in 1 .. 15 /\ 11 \in 1 .. 15
        /\ Composite[3][1] = "raw0" /\ Composite[4][1] = "raw1" /\ Composite[5][1] = "raw2"
        /\ Composite[6][1] = "q" /\ Composite[7][1] = "mag" /\ Composite[8][1] = "acc"
        /\ Composite[9][1] = "omega" /\ Composite[11][1] = "motion"
    BY CompositeIs
  <2>3. QED
    BY <2>1, <2>2
<1>3. {"raw0", "raw1", "raw2", "q", "mag", "acc", "omega", "v", "r", "motion"}
        \subseteq FieldsOf("C2")
  <2>1. \A i \in 1 .. 17 : Composite2[i][1] \in FieldsOf("C2")
    BY Composite2Is, KindsAre, LenProperties DEF FieldsOf
  <2>2. /\ 3 \in 1 .. 17 /\ 4 \in 1 .. 17 /\ 5 \in 1 .. 17 /\ 6 \in 1 .. 17 /\ 7 \in 1 .. 17
        /\ 8 \in 1 .. 17 /\ 9 \in 1 .. 17 /\ 10 \in 1 .. 17 /\ 11 \in 1 .. 17 /\ 13 \in 1 .. 17
        /\ Composite2[3][1] = "raw0" /\ Composite2[4][1] = "raw1" /\ Composite2[5][1] = "raw2"
        /\ Composite2[6][1] = "q" /\ Composite2[7][1] = "mag" /\ Composite2[8][1] = "omega"
        /\ Composite2[9][1] = "acc" /\ Composite2[10][1] = "v" /\ Composite2[11][1] = "r"
        /\ Composite2[13][1] = "motion"
    BY Composite2Is
  <2>3. QED
    BY <2>1, <2>2
<1>4. QED
  BY <1>1, <1>2, <1>3

\* A group that is read through the packet's own member is the packet's.
LEMMA OwnRead ==
    ASSUME NEW k \in Kinds, NEW g \in FieldsOf(k)
    PROVE  Read(k, k, g) = "own"
  BY DEF Read

\* The time is the second field of every struct, and the only one of its name.
LEMMA TimeIsSecond ==
    ASSUME NEW k \in Kinds
    PROVE  /\ Union[k] \in Seq(Field) /\ Len(Union[k]) \in Nat /\ 2 \in DOMAIN Union[k]
           /\ 1 \in DOMAIN Union[k] /\ Union[k][1] = <<"type", 1>>
           /\ Union[k][2] = IF k \in {"C", "S", "C2"} THEN <<"time", 4>> ELSE <<"time", 8>>
           /\ \A i \in DOMAIN Union[k] : Union[k][i][1] = "time" => i = 2
<1> DEFINE Good(s, w) ==
               /\ s \in Seq(Field) /\ Len(s) \in Nat /\ 1 \in DOMAIN s /\ 2 \in DOMAIN s
               /\ s[1] = <<"type", 1>> /\ s[2] = <<"time", w>>
               /\ \A i \in DOMAIN s : s[i][1] = "time" => i = 2
<1>1. Good(Regular, 4)
  <2>1. DOMAIN Regular = 1 .. 13
    BY RegularIs, LenProperties
  <2>2. ASSUME NEW i \in 1 .. 13, i # 2 PROVE Regular[i][1] # "time"
    <3>1. \/ i = 1 \/ i = 3 \/ i = 4 \/ i = 5 \/ i = 6 \/ i = 7 \/ i = 8 \/ i = 9 \/ i = 10
          \/ i = 11 \/ i = 12 \/ i = 13
      BY <2>2
    <3>2. QED
      BY <3>1, RegularIs
  <2>3. QED
    BY <2>1, <2>2, RegularIs
<1>2. Good(Composite, 4)
  <2>1. DOMAIN Composite = 1 .. 15
    BY CompositeIs, LenProperties
  <2>2. ASSUME NEW i \in 1 .. 15, i # 2 PROVE Composite[i][1] # "time"
    <3>1. \/ i = 1 \/ i = 3 \/ i = 4 \/ i = 5 \/ i = 6 \/ i = 7 \/ i = 8 \/ i = 9 \/ i = 10
          \/ i = 11 \/ i = 12 \/ i = 13 \/ i = 14 \/ i = 15
      BY <2>2
    <3>2. QED
      BY <3>1, CompositeIs
  <2>3. QED
    BY <2>1, <2>2, CompositeIs
<1>3. Good(Composite2, 4)
  <2>1. DOMAIN Composite2 = 1 .. 17
    BY Composite2Is, LenProperties
  <2>2. ASSUME NEW i \in 1 .. 17, i # 2 PROVE Composite2[i][1] # "time"
    <3>1. \/ i = 1 \/ i = 3 \/ i = 4 \/ i = 5 \/ i = 6 \/ i = 7 \/ i = 8 \/ i = 9 \/ i = 10
          \/ i = 11 \/ i = 12 \/ i = 13 \/ i = 14 \/ i = 15 \/ i = 16 \/ i = 17
      BY <2>2
    <3>2. QED
      BY <3>1, Composite2Is
  <2>3. QED
    BY <2>1, <2>2, Composite2Is
<1>4. ASSUME NEW s, Good(s, 4) PROVE Good(Wide(s), 8)
  <2>1. <<"time", 8>> \in Field
    BY DEF Field, Names
  <2>2. /\ Wide(s) \in Seq(Field) /\ DOMAIN Wide(s) = DOMAIN s /\ Len(Wide(s)) = Len(s)
        /\ Wide(s)[2] = <<"time", 8>>
        /\ \A i \in DOMAIN s : i # 2 => Wide(s)[i] = s[i]
    BY <1>4, <2>1, ExceptSeq DEF Wide
  <2>3. QED
    BY <1>4, <2>2
<1>5. /\ Good(Wide(Regular), 8) /\ Good(Wide(Composite), 8) /\ Good(Wide(Composite2), 8)
  BY <1>1, <1>2, <1>3, <1>4
<1> DEFINE w == IF k \in {"C", "S", "C2"} THEN 4 ELSE 8
<1>6. Good(Union[k], w)
  <2> HIDE DEF Good
  <2>1. \/ k = "C" \/ k = "S" \/ k = "C2" \/ k = "C64" \/ k = "S64" \/ k = "C642"
    BY KindsAre
  <2>2. QED
    BY <1>1, <1>2, <1>3, <1>5, <2>1, KindsAre
<1>7. QED
  BY <1>6

\* Where it is, and what is read there through the member of the composite packets.
LEMMA TimeIsRead ==
    ASSUME NEW k \in Kinds
    PROVE  Read("C", k, "time") = IF k \in {"C", "S", "C2"} THEN "own" ELSE "low"
<1> DEFINE w(j) == IF j \in {"C", "S", "C2"} THEN 4 ELSE 8
           first == Width(<< <<"type", 1>> >>)
<1>1. ASSUME NEW j \in Kinds
      PROVE  /\ "time" \in FieldsOf(j)
             /\ Place[j]["time"] = [first |-> first, width |-> w(j)]
  <2>1. Union[j][2][1] = "time" /\ Union[j][2][2] = w(j) /\ 2 \in DOMAIN Union[j]
    BY TimeIsSecond
  <2>2. "time" \in FieldsOf(j)
    BY <2>1 DEF FieldsOf
  <2>3. (CHOOSE i \in DOMAIN Union[j] : Union[j][i][1] = "time") = 2
    BY <2>1, TimeIsSecond
  <2>4. SubSeq(Union[j], 1, 2 - 1) = << <<"type", 1>> >>
    <3>1. Union[j] \in Seq(Field) /\ Union[j][1] = <<"type", 1>> /\ 1 \in DOMAIN Union[j]
      BY TimeIsSecond
    <3>2. <<"type", 1>> \in Field /\ << <<"type", 1>> >> \in Seq(Field)
      BY DEF Field, Names
    <3>3. Len(Union[j]) \in Nat /\ Len(Union[j]) >= 1
      BY <3>1, LenProperties
    <3>4. /\ SubSeq(Union[j], 1, 2 - 1) \in Seq(Field) /\ Len(SubSeq(Union[j], 1, 2 - 1)) = 1
          /\ SubSeq(Union[j], 1, 2 - 1)[1] = Union[j][1]
      BY <3>1, <3>3, SubSeqProperties
    <3>5. \A i \in 1 .. 1 : SubSeq(Union[j], 1, 2 - 1)[i] = << <<"type", 1>> >>[i]
      BY <3>1, <3>4
    <3>6. Len(<< <<"type", 1>> >>) = 1
      OBVIOUS
    <3>7. QED
      BY <3>2, <3>4, <3>5, <3>6, SeqEqual
  <2>5. Place[j]["time"] = [first |-> Width(SubSeq(Union[j], 1, 2 - 1)), width |-> Union[j][2][2]]
    BY <2>2, <2>3 DEF Place
  <2>6. QED
    BY <2>1, <2>2, <2>4, <2>5
<1>2. "C" \in Kinds /\ Place["C"]["time"] = [first |-> first, width |-> 4]
  BY <1>1, KindsAre
<1> HIDE DEF first
<1>3. CASE k \in {"C", "S", "C2"}
  BY <1>1, <1>2, <1>3 DEF Read
<1>4. CASE k \notin {"C", "S", "C2"}
  <2>1. "time" \in FieldsOf(k) /\ Place[k]["time"] = [first |-> first, width |-> 8]
    BY <1>1, <1>4
  <2>2. Place["C"]["time"] # Place[k]["time"]
    BY <1>2, <2>1
  <2>3. /\ Place["C"]["time"].first = Place[k]["time"].first
        /\ Place["C"]["time"].width < Place[k]["time"].width
    BY <1>2, <2>1
  <2>4. QED
    BY <1>4, <2>1, <2>2, <2>3 DEF Read
<1>5. QED
  BY <1>3, <1>4

-----------------------------------------------------------------------------
(* What is printed of a packet and parsed again.                           *)

\* The fields that are printed and parsed again.
Printable == {"time", "raw0", "raw1", "raw2", "q", "mag", "omega", "acc", "v", "r", "motion"}

\* The columns of the file, and the fields the replay takes them for.
LEMMA ColumnsAre ==
    /\ DOMAIN Columns = 1 .. 13
    /\ FieldForColumn[1] = "type" /\ FieldForColumn[12] = "none"
    /\ \A i \in 1 .. 13 : i \notin {1, 12} =>
         Columns[i] \in Printable /\ FieldForColumn[i] = Columns[i]
    /\ \A g \in Printable : \E i \in 1 .. 13 : i \notin {1, 12} /\ Columns[i] = g
    /\ \A i, j \in 1 .. 13 : FieldForColumn[i] = FieldForColumn[j] => i = j
<1>1. /\ Columns[1] = "type" /\ Columns[2] = "time" /\ Columns[3] = "raw0"
      /\ Columns[4] = "raw1" /\ Columns[5] = "raw2" /\ Columns[6] = "q" /\ Columns[7] = "mag"
      /\ Columns[8] = "omega" /\ Columns[9] = "acc" /\ Columns[10] = "v" /\ Columns[11] = "r"
      /\ Columns[12] = "temp" /\ Columns[13] = "motion" /\ DOMAIN Columns = 1 .. 13
  BY DEF Columns
<1>2. /\ DOMAIN Header = 1 .. 13 /\ Header[1] = "packettype" /\ Header[12] = "temp_"
      /\ Header[13] = "devicemotionstatus"
      /\ \A i \in 2 .. 11 : Header[i] = Columns[i]
  BY <1>1 DEF Header
<1>3. /\ HeaderMap["packettype"] = "type" /\ HeaderMap["devicemotionstatus"] = "motion"
      /\ "packettype" \in DOMAIN HeaderMap /\ "devicemotionstatus" \in DOMAIN HeaderMap
      /\ "temp_" \notin DOMAIN HeaderMap
  BY DEF HeaderMap
<1>4. ASSUME NEW g \in Printable, g # "motion"
      PROVE  g \in DOMAIN HeaderMap /\ HeaderMap[g] = g
  BY <1>4 DEF HeaderMap, Printable
<1>5. \A i \in 1 .. 13 :
        FieldForColumn[i] = IF Header[i] \in DOMAIN HeaderMap THEN HeaderMap[Header[i]] ELSE "none"
  BY <1>2 DEF FieldForColumn
<1>6. ASSUME NEW i \in 2 .. 11
      PROVE  Columns[i] \in Printable \ {"motion"} /\ FieldForColumn[i] = Columns[i]
  <2>1. Columns[i] \in Printable \ {"motion"}
    <3>1. \/ i = 2 \/ i = 3 \/ i = 4 \/ i = 5 \/ i = 6 \/ i = 7 \/ i = 8 \/ i = 9 \/ i = 10
          \/ i = 11
      BY <1>6
    <3>2. QED
      BY <1>1, <3>1 DEF Printable
  <2>2. Header[i] = Columns[i] /\ i \in 1 .. 13
    BY <1>2
  <2>3. QED
    BY <1>4, <1>5, <2>1, <2>2
<1>7. FieldForColumn[1] = "type" /\ FieldForColumn[12] = "none" /\ FieldForColumn[13] = "motion"
  BY <1>2, <1>3, <1>5
<1>8. ASSUME NEW i \in 1 .. 13, i \notin {1, 12}
      PROVE  Columns[i] \in Printable /\ FieldForColumn[i] = Columns[i]
  <2>1. i \in 2 .. 11 \/ i = 13
    BY <1>8
  <2>2. QED
    BY <1>1, <1>6, <1>7, <2>1 DEF Printable
<1>9. ASSUME NEW g \in Printable
      PROVE  \E i \in 1 .. 13 : i \notin {1, 12} /\ Columns[i] = g
  <2>1. /\ 2 \in 1 .. 13 /\ 3 \in 1 .. 13 /\ 4 \in 1 .. 13 /\ 5 \in 1 .. 13 /\ 6 \in 1 .. 13
        /\ 7 \in 1 .. 13 /\ 8 \in 1 .. 13 /\ 9 \in 1 .. 13 /\ 10 \in 1 .. 13
        /\ 11 \in 1 .. 13 /\ 13 \in 1 .. 13
    OBVIOUS
  <2>2. QED
    BY <1>1, <2>1 DEF Printable
<1>10. /\ FieldForColumn[2] = "time" /\ FieldForColumn[3] = "raw0" /\ FieldForColumn[4] = "raw1"
       /\ FieldForColumn[5] = "raw2" /\ FieldForColumn[6] = "q" /\ FieldForColumn[7] = "mag"
       /\ FieldForColumn[8] = "omega" /\ FieldForColumn[9] = "acc" /\ FieldForColumn[10] = "v"
       /\ FieldForColumn[11] = "r"
  BY <1>1, <1>6
<1>11. ASSUME NEW i \in 1 .. 13, NEW j \in 1 .. 13, FieldForColumn[i] = FieldForColumn[j]
       PROVE  i = j
  <2>1. \A n \in 1 .. 13 :
          \/ n = 1 \/ n = 2 \/ n = 3 \/ n = 4 \/ n = 5 \/ n = 6 \/ n = 7 \/ n = 8 \/ n = 9
          \/ n = 10 \/ n = 11 \/ n = 12 \/ n = 13
    OBVIOUS
  <2>2. QED
    BY <1>7, <1>10, <1>11, <2>1
<1>12. QED
  BY <1>1, <1>7, <1>8, <1>9, <1>11

\* The kinds of packets that the replay knows.
LEMMA KindsParsed ==
    ASSUME NEW n, Replayable(n)
    PROVE  /\ n \in PacketTypes /\ KindOf[n] \in {"C", "C2", "C64", "C642"}
<1>1. DOMAIN Parsed = {"C", "C2", "C64", "C642"}
  BY DEF Parsed
<1>2. QED
  BY <1>1 DEF Replayable

\* A printed field is what is kept of it, or was never written.
LEMMA PrintedIsKept ==
    ASSUME NEW t \in PacketTypes, KindOf[t] \in {"C", "C2", "C64", "C642"}, NEW g \in Printable,
           Cell(t, g) # "empty"
    PROVE  Cell(t, g) = Kept(KindOf[t], g)
<1> DEFINE k == KindOf[t]
<1>1. k \in Kinds
  BY KindIs
<1>2. CASE g = "time"
  <2>1. Cell(t, g) = Read("C", k, "time")
    BY <1>2 DEF Cell, Format, FormatComposite, FormatComposite2, FormatRegular
  <2>2. Read("C", k, "time") = IF k \in {"C", "C2"} THEN "own" ELSE "low"
    BY <1>1, TimeIsRead
  <2>3. Kept(k, g) = IF k \in {"C", "C2"} THEN "own" ELSE "low"
    BY <1>2 DEF Kept
  <2>4. QED
    BY <2>1, <2>2, <2>3
<1>3. CASE g # "time" /\ k = "C"
  <2>1. Format(k) = FormatComposite
    BY <1>3 DEF Format
  <2>2. g \in DOMAIN Format(k)
    BY <1>3, <2>1 DEF Cell, Printable
  <2>3. Format(k)[g] = "C" /\ g \in FieldsOf("C")
    BY <1>3, <2>1, <2>2, FieldsHave DEF FormatComposite, Printable
  <2>4. Cell(t, g) = Printed(g, "own")
    BY <1>1, <1>3, <2>2, <2>3, OwnRead DEF Cell, Printable
  <2>5. Kept(k, g) = IF g = "motion" THEN "own" ELSE "rounded"
    BY <1>3, <2>1, <2>2 DEF Kept, Printable, FormatComposite
  <2>6. QED
    BY <1>3, <2>4, <2>5 DEF Printed, Printable
<1>4. CASE g # "time" /\ k = "C2"
  <2>1. Format(k) = FormatComposite2
    BY <1>4 DEF Format
  <2>2. g \in DOMAIN Format(k)
    BY <1>4, <2>1 DEF Cell, Printable
  <2>3. Format(k)[g] = "C2" /\ g \in FieldsOf("C2")
    BY <1>4, <2>1, <2>2, FieldsHave DEF FormatComposite2, Printable
  <2>4. Cell(t, g) = Printed(g, "own")
    BY <1>1, <1>4, <2>2, <2>3, OwnRead DEF Cell, Printable
  <2>5. Kept(k, g) = IF g = "motion" THEN "own" ELSE "rounded"
    BY <1>4 DEF Kept, Printable
  <2>6. QED
    BY <1>4, <2>4, <2>5 DEF Printed, Printable
<1>5. CASE g # "time" /\ k \in {"C64", "C642"}
  <2>1. Format(k) = <<>>
    BY <1>5 DEF Format
  <2>2. g \notin DOMAIN Format(k)
    BY <2>1
  <2>3. Cell(t, g) = "empty"
    BY <1>5, <2>2 DEF Cell, Printable
  <2>4. QED
    BY <2>3
<1>6. QED
  BY <1>2, <1>3, <1>4, <1>5


-----------------------------------------------------------------------------
(* The getters.                                                            *)

\* The getters with a case for every short kind read the packet's own field.
LEMMA ByKindIsOwn ==
    ASSUME NEW t \in PacketTypes, NEW g \in {"q", "acc", "omega", "mag", "motion"}
    PROVE  ByKind(t, g) \in {"own", Refused}
<1>1. CASE KindOf[t] \in {"C", "S", "C2"}
  <2>1. KindOf[t] \in Kinds /\ g \in FieldsOf(KindOf[t])
    BY <1>1, KindsAre, FieldsHave
  <2>2. QED
    BY <1>1, <2>1, OwnRead DEF ByKind
<1>2. CASE KindOf[t] \notin {"C", "S", "C2"}
  BY <1>2 DEF ByKind
<1>3. QED
  BY <1>1, <1>2

\* Whatever the type of the newest packet is.
LEMMA GettersAreRight == last \in PacketTypes => GettersReadOwn
<1> SUFFICES ASSUME last \in PacketTypes PROVE GettersReadOwn
  OBVIOUS
<1> DEFINE k == KindOf[last]
           Own == {"own", Refused}
<1>1. k \in Kinds /\ {"C", "S", "C2"} \subseteq Kinds
  BY KindIs, KindsAre
<1>2. \A queued \in BOOLEAN : GetOrientation(last, queued) \in Own
  BY ByKindIsOwn DEF GetOrientation
<1>3. {GetAcceleration(last), GetAngularVelocity(last), GetMagneticField(last),
       GetMovementState(last)} \subseteq Own
  BY ByKindIsOwn DEF GetAcceleration, GetAngularVelocity, GetMagneticField, GetMovementState
<1>4. GetLastTimestamp(last) \in {"own", "low"}
  BY <1>1, TimeIsRead DEF GetLastTimestamp
<1>5. ASSUME k = "C2" \/ SystemOf(last) \in {IMU, AHRS}
      PROVE  {GetVelocity(last), GetPosition(last)} \subseteq Own
  <2>1. CASE k = "C2"
    <3>1. Read("C2", k, "v") = "own" /\ Read("C2", k, "r") = "own"
      BY <1>1, <2>1, FieldsHave, OwnRead
    <3>2. QED
      BY <3>1 DEF GetVelocity, GetPosition
  <2>2. CASE SystemOf(last) \in {IMU, AHRS}
    <3>1. SystemOf(last) \notin {INS, RESERVED}
      BY <2>2 DEF IMU, AHRS, INS, RESERVED
    <3>2. QED
      BY <3>1 DEF GetVelocity, GetPosition
  <2>3. QED
    BY <1>5, <2>1, <2>2
<1>6. k = "S" => \A g \in FieldsOf("S") : UnpackRegular(last)[g] = "own"
  BY <1>1, OwnRead DEF UnpackRegular
<1>7. k = "C" => \A g \in FieldsOf("C") : UnpackComposite(last)[g] = "own"
  BY <1>1, OwnRead DEF UnpackComposite
<1>8. k = "C2" => \A g \in FieldsOf("C2") : UnpackComposite2(last)[g] = "own"
  BY <1>1, OwnRead DEF UnpackComposite2
<1>9. QED
  BY <1>2, <1>3, <1>4, <1>5, <1>6, <1>7, <1>8 DEF GettersReadOwn

\* A getter gives the field it is named for, or refuses, whatever packet came last
\* (the getters of common/FS_Trifecta_Device.c).
THEOREM GettersGiveOwnFields == Spec => []GettersReadOwn
<1>1. TypeOK => GettersReadOwn
  BY GettersAreRight DEF TypeOK
<1>2. QED
  BY <1>1, TypeCorrect, PTL

-----------------------------------------------------------------------------
(* What a replayed packet holds.                                           *)

\* A field of a decoded row is what is in the one column of its name, when rows of
\* the kind are asked for it, and else zero.
LEMMA FieldOfPacket ==
    ASSUME NEW row, Replayable(row.number), NEW g \in DOMAIN Packet(row)
    PROVE  /\ Packet(row)[g] # "zero" => g \in Printable \cap Parsed[KindOf[row.number]]
           /\ g \in Printable \cap Parsed[KindOf[row.number]] =>
                \E i \in 1 .. 13 :
                    /\ Columns[i] = g
                    /\ Packet(row)[g] = IF CellOf(row, i) = "empty" THEN "zero"
                                        ELSE CellOf(row, i)
<1> DEFINE k == KindOf[row.number]
           columns == {i \in DOMAIN Columns : FieldForColumn[i] = g}
           value == CellOf(row, CHOOSE i \in columns : TRUE)
<1>1. g \in FieldsOf(k) /\ g # "type"
  BY DEF Packet
<1>2. Packet(row)[g] = IF g \notin Parsed[k] \/ columns = {} THEN "zero"
                       ELSE IF value = "empty" THEN "zero" ELSE value
  BY <1>1 DEF Packet
<1>3. ASSUME g \in Parsed[k] PROVE g # "none"
  <2>1. "none" \notin ParsedComposite /\ "none" \notin ParsedComposite2
    BY DEF ParsedComposite, ParsedComposite2
  <2>2. Parsed[k] \in {ParsedComposite, ParsedComposite2}
    BY KindsParsed DEF Parsed, ParsedComposite64, ParsedComposite64_2
  <2>3. QED
    BY <1>3, <2>1, <2>2
<1>4. ASSUME NEW i \in columns, g \in Parsed[k]
      PROVE  i \in 1 .. 13 /\ Columns[i] = g /\ g \in Printable
  <2>1. i \in 1 .. 13 /\ FieldForColumn[i] = g
    BY ColumnsAre
  <2>2. i \notin {1, 12}
    BY <1>1, <1>3, <1>4, <2>1, ColumnsAre
  <2>3. QED
    BY <2>1, <2>2, ColumnsAre
<1>5. ASSUME g \in Printable PROVE columns # {}
  <2>1. PICK i \in 1 .. 13 : i \notin {1, 12} /\ Columns[i] = g
    BY <1>5, ColumnsAre
  <2>2. FieldForColumn[i] = g /\ i \in DOMAIN Columns
    BY <2>1, ColumnsAre
  <2>3. QED
    BY <2>2
<1>6. Packet(row)[g] # "zero" => g \in Printable \cap Parsed[k]
  <2> SUFFICES ASSUME Packet(row)[g] # "zero" PROVE g \in Printable \cap Parsed[k]
    OBVIOUS
  <2>1. g \in Parsed[k] /\ columns # {}
    BY <1>2
  <2>2. QED
    BY <1>4, <2>1
<1>7. ASSUME g \in Printable \cap Parsed[k]
      PROVE  \E i \in 1 .. 13 :
                 /\ Columns[i] = g
                 /\ Packet(row)[g] = IF CellOf(row, i) = "empty" THEN "zero"
                                     ELSE CellOf(row, i)
  <2> DEFINE i == CHOOSE j \in columns : TRUE
  <2>1. columns # {} /\ i \in columns
    BY <1>5, <1>7
  <2>2. i \in 1 .. 13 /\ Columns[i] = g
    BY <1>4, <1>7, <2>1
  <2>3. Packet(row)[g] = IF CellOf(row, i) = "empty" THEN "zero" ELSE CellOf(row, i)
    BY <1>2, <1>7, <2>1
  <2> HIDE DEF i
  <2>4. QED
    BY <2>2, <2>3
<1>8. QED
  BY <1>6, <1>7

\* What is kept of a packet is printed, and rows of its kind are asked for it.
LEMMA KeptIsPrinted ==
    ASSUME NEW t \in PacketTypes, KindOf[t] \in {"C", "C2", "C64", "C642"}, NEW g,
           Kept(KindOf[t], g) # "zero"
    PROVE  /\ g \in Printable \cap Parsed[KindOf[t]]
           /\ Cell(t, g) # "empty"
<1> DEFINE k == KindOf[t]
<1>1. \/ g = "time"
      \/ g \in {"motion", "raw0", "raw1", "raw2", "q", "mag", "omega", "acc"} /\ k \in {"C", "C2"}
      \/ g \in {"v", "r"} /\ k = "C2"
  BY DEF Kept
<1>2. \A view, j, h : Read(view, j, h) # "empty" /\ Printed(h, Read(view, j, h)) # "empty"
  BY DEF Read, Printed
<1>3. /\ Parsed["C"] = ParsedComposite /\ Parsed["C2"] = ParsedComposite2
      /\ Parsed["C64"] = ParsedComposite /\ Parsed["C642"] = ParsedComposite2
  BY DEF Parsed, ParsedComposite64, ParsedComposite64_2
<1>4. g \in Printable
  BY <1>1 DEF Printable
<1>5. g \in Parsed[k]
  <2>1. CASE g = "time"
    BY <1>3, <2>1 DEF ParsedComposite, ParsedComposite2
  <2>2. CASE g # "time"
    BY <1>1, <1>3, <2>2 DEF ParsedComposite, ParsedComposite2
  <2>3. QED
    BY <2>1, <2>2
<1>6. Cell(t, g) # "empty"
  <2>1. CASE g = "time"
    BY <1>2, <2>1 DEF Cell
  <2>2. CASE g # "time"
    <3>1. g \in DOMAIN Format(k) /\ g # "type"
      <4>1. k = "C" \/ k = "C2"
        BY <1>1, <2>2
      <4>2. k = "C" => Format(k) = FormatComposite
        BY DEF Format
      <4>3. k = "C2" => Format(k) = FormatComposite2
        BY DEF Format
      <4>4. QED
        BY <1>1, <2>2, <4>1, <4>2, <4>3 DEF FormatComposite, FormatComposite2
    <3>2. Cell(t, g) = Printed(g, Read(Format(k)[g], k, g))
      BY <2>2, <3>1 DEF Cell
    <3>3. QED
      BY <1>2, <3>2
  <2>3. QED
    BY <2>1, <2>2
<1>7. QED
  BY <1>4, <1>5, <1>6

\* A row is decoded to what is kept of its packet, and what was cut of it is missing.
LEMMA PacketIsKept ==
    ASSUME NEW row, Replayable(row.number), row.number = row.of, row.whole \in Nat
    PROVE  \A g \in DOMAIN Packet(row) :
             /\ Packet(row)[g] \in {"zero", "part", Kept(KindOf[row.of], g)}
             /\ row.whole = Len(Columns) => Packet(row)[g] = Kept(KindOf[row.of], g)
<1> SUFFICES ASSUME NEW g \in DOMAIN Packet(row)
             PROVE  /\ Packet(row)[g] \in {"zero", "part", Kept(KindOf[row.of], g)}
                    /\ row.whole = 13 => Packet(row)[g] = Kept(KindOf[row.of], g)
  BY ColumnsLength
<1> DEFINE t == row.of
           k == KindOf[t]
<1>1. t \in PacketTypes /\ k \in {"C", "C2", "C64", "C642"}
  BY KindsParsed
<1>2. CASE g \notin Printable \cap Parsed[k]
  <2>1. Packet(row)[g] = "zero"
    BY <1>2, FieldOfPacket
  <2>2. Kept(k, g) = "zero"
    BY <1>1, <1>2, KeptIsPrinted
  <2>3. QED
    BY <2>1, <2>2
<1>3. CASE g \in Printable \cap Parsed[k]
  <2>1. PICK i \in 1 .. 13 :
            /\ Columns[i] = g
            /\ Packet(row)[g] = IF CellOf(row, i) = "empty" THEN "zero" ELSE CellOf(row, i)
    BY <1>3, FieldOfPacket
  <2>2. Cell(t, g) = "empty" => Kept(k, g) = "zero"
    BY <1>1, KeptIsPrinted
  <2>3. Cell(t, g) # "empty" => Cell(t, g) = Kept(k, g)
    BY <1>1, <1>3, PrintedIsKept
  <2>4. CASE i <= row.whole
    <3>1. CellOf(row, i) = Cell(t, g)
      BY <2>1, <2>4 DEF CellOf
    <3>2. QED
      BY <2>1, <2>2, <2>3, <3>1
  <2>5. CASE ~(i <= row.whole)
    <3>1. CellOf(row, i) \in {"part", "empty"}
      BY <2>5 DEF CellOf
    <3>2. row.whole # 13
      BY <2>5
    <3>3. QED
      BY <2>1, <3>1, <3>2
  <2>6. QED
    BY <2>4, <2>5
<1>4. QED
  BY <1>2, <1>3

\* Of a row that was cut in its first column nothing is decoded.
LEMMA NothingOfStub ==
    ASSUME NEW row, Replayable(row.number), row.whole = 0
    PROVE  \A g \in DOMAIN Packet(row) : Packet(row)[g] = "zero"
<1> SUFFICES ASSUME NEW g \in DOMAIN Packet(row), Packet(row)[g] # "zero" PROVE FALSE
  OBVIOUS
<1>1. PICK i \in 1 .. 13 :
          /\ Columns[i] = g /\ g \in Printable
          /\ Packet(row)[g] = IF CellOf(row, i) = "empty" THEN "zero" ELSE CellOf(row, i)
  BY FieldOfPacket
<1>2. Columns[1] = "type" /\ "type" \notin Printable
  BY DEF Columns, Printable
<1>3. ~(i <= row.whole) /\ i # row.whole + 1
  BY <1>1, <1>2
<1>4. CellOf(row, i) = "empty"
  BY <1>3 DEF CellOf
<1>5. QED
  BY <1>1, <1>4

\* What was recorded is what is replayed, wherever the file was cut.
LEMMA DecodedIsKept == Inv => DecodedIsRecorded
<1> SUFFICES ASSUME Inv, reply.row # 0, reply.rc = 0
             PROVE  LET row == rows[reply.row]
                        packet == Packet(row)
                    IN  IF row.whole = Len(Columns)
                        THEN /\ row.number = row.of
                             /\ \A g \in DOMAIN packet : packet[g] = Kept(KindOf[row.of], g)
                        ELSE /\ reply.row = Len(rows) /\ phase = "killed"
                             /\ \A g \in DOMAIN packet :
                                    packet[g] \in {"zero", "part", Kept(KindOf[row.of], g)}
  BY DEF DecodedIsRecorded
<1> DEFINE row == rows[reply.row]
<1>1. /\ reply.row \in DOMAIN rows /\ row \in Row /\ row.whole \in Nat
  <2>1. rows \in Seq(Row) /\ Len(rows) \in Nat /\ reply.row \in 0 .. Len(rows)
    BY LenProperties DEF Inv, TypeOK
  <2>2. reply.row \in 1 .. Len(rows)
    BY <2>1
  <2>3. rows[reply.row] \in Row
    BY <2>1, <2>2, ElementOfSeq
  <2>4. QED
    BY <2>1, <2>2, <2>3, LenProperties, ColumnsLength, SMTT(30) DEF Row
<1>2. Replayable(row.number)
  BY DEF Inv, ReplayInv, ReplyInv, Readable
<1>3. /\ row.whole > 0 => row.number = row.of
      /\ row.whole # Len(Columns) => reply.row = Len(rows) /\ phase = "killed"
  BY <1>1 DEF Inv, ReplayInv, RowsInv
<1> HIDE DEF row
<1>4. CASE row.whole > 0
  <2>1. \A g \in DOMAIN Packet(row) :
          /\ Packet(row)[g] \in {"zero", "part", Kept(KindOf[row.of], g)}
          /\ row.whole = Len(Columns) => Packet(row)[g] = Kept(KindOf[row.of], g)
    BY <1>1, <1>2, <1>3, <1>4, PacketIsKept
  <2>2. QED
    BY <1>3, <1>4, <2>1 DEF row
<1>5. CASE row.whole = 0
  <2>1. \A g \in DOMAIN Packet(row) : Packet(row)[g] = "zero"
    BY <1>2, <1>5, NothingOfStub
  <2>2. row.whole # Len(Columns)
    BY <1>5, ColumnsLength
  <2>3. QED
    BY <1>3, <2>1, <2>2 DEF row
<1>6. QED
  BY <1>1, <1>4, <1>5

\* A replayed packet is the one that was saved, as far as rows keep it, of every
\* type that the saver prints and the replay parses (format_packet and
\* fs_replay_parse_packet); only a row that the crash cut lacks something.
THEOREM RecordedIsReplayed == Spec => []DecodedIsRecorded
  BY DecodedIsKept, Inductive, PTL
=============================================================================
