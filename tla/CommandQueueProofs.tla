------------------------- MODULE CommandQueueProofs -------------------------
(***************************************************************************)
(* Proofs about the command path, for buffers and queues of any length.    *)
(*                                                                         *)
(* fs_segment_commands and the drain of the queue are folds over a         *)
(* sequence.  That a fold is the last of a sequence of states, each made   *)
(* of the one before, is shown first; properties of the states are then    *)
(* shown one after the other, by Induction.                                *)
(***************************************************************************)
EXTENDS CommandQueue, FiniteSetTheorems, SequenceTheorems, WellFoundedInduction, TLAPS

-----------------------------------------------------------------------------
(* Numbers.                                                                *)

\* A set of numbers that is not empty has a least one.
LEMMA LeastExists ==
    ASSUME NEW S \in SUBSET Nat, S # {}
    PROVE  \E x \in S : \A y \in S : x <= y
<1>1. PICK x \in S : \A y \in S : <<y, x>> \notin OpToRel(<, Nat)
  BY NatLessThanWellFounded, WFMin
<1>2. \A y \in S : ~(y < x)
  BY <1>1 DEF OpToRel
<1>3. QED
  BY <1>2

\* What holds at first, and of every next number, holds up to the last.
LEMMA Induction ==
    ASSUME NEW m \in Nat, NEW S, 0 \in S, \A n \in 0 .. m - 1 : n \in S => n + 1 \in S
    PROVE  \A n \in 0 .. m : n \in S
<1> DEFINE T == (0 .. m) \ S
<1> SUFFICES ASSUME T # {} PROVE FALSE
  OBVIOUS
<1>0. T \in SUBSET Nat
  OBVIOUS
<1> HIDE DEF T
<1>1. PICK x \in T : \A y \in T : x <= y
  BY <1>0, LeastExists
<1> USE DEF T
<1>2. x \in 0 .. m /\ x # 0 /\ x \notin S
  OBVIOUS
<1>3. x - 1 \in 0 .. m - 1 /\ x - 1 \notin T
  BY <1>1, <1>2
<1>4. x - 1 \in S /\ x - 1 + 1 = x
  BY <1>2, <1>3
<1>5. QED
  BY <1>2, <1>3, <1>4

\* The greatest of some numbers up to m.
LEMMA MaxIs ==
    ASSUME NEW m \in Nat, NEW S \in SUBSET (0 .. m), S # {}
    PROVE  Max(S) \in S /\ \A x \in S : x <= Max(S)
<1> DEFINE T == {m - x : x \in S}
<1>1. T \in SUBSET Nat /\ T # {}
  <2>1. ASSUME NEW x \in S PROVE m - x \in Nat
    BY <2>1
  <2>2. T \in SUBSET Nat
    BY <2>1
  <2>3. PICK x : x \in S
    OBVIOUS
  <2>4. m - x \in T
    BY <2>3
  <2>5. QED
    BY <2>2, <2>4
<1>2. \A z \in S : m - z \in T /\ z \in Nat
  OBVIOUS
<1>3. PICK x \in S : \A v \in T : m - x <= v
  <2>1. \A y \in T : \E x \in S : y = m - x
    OBVIOUS
  <2> HIDE DEF T
  <2>2. PICK y \in T : \A v \in T : y <= v
    BY <1>1, LeastExists
  <2>3. QED
    BY <2>1, <2>2
<1> HIDE DEF T
<1>4. \A z \in S : z <= x
  <2> TAKE z \in S
  <2>1. m - x <= m - z /\ m \in Nat /\ x \in Nat /\ z \in Nat
    BY <1>2, <1>3
  <2>2. QED
    BY <2>1
<1>5. \E z \in S : \A v \in S : z >= v
  BY <1>4
<1>6. QED
  BY <1>5 DEF Max

-----------------------------------------------------------------------------
(* Folds.                                                                  *)

\* The states of fs_segment_commands after some of the bytes of a buffer, D.
ScanStates(q, buf, D, f) ==
    f = [s \in SUBSET D |->
            IF s = {} THEN Scan(q) ELSE ScanByte(f[s \ {Max(s)}], buf[Max(s)])]

Scans(q, buf) == CHOOSE f : ScanStates(q, buf, DOMAIN buf, f)
Scanned(q, buf, n) == Scans(q, buf)[1 .. n]

\* The attributes after some of the commands of a queue.
DrainStates(dev, cmds, D, f) ==
    f = [s \in SUBSET D |->
            IF s = {} THEN dev ELSE Handle(f[s \ {Max(s)}], cmds[Max(s)])]

Drains(dev, cmds) == CHOOSE f : DrainStates(dev, cmds, DOMAIN cmds, f)
Drained(dev, cmds, n) == Drains(dev, cmds)[1 .. n]
AllHandled(dev, cmds) == FoldLeft(Handle, dev, cmds)

\* They begin with those before the drain and end with those after it.
Drain(dev, cmds) ==
    /\ AllHandled(dev, cmds) = Drained(dev, cmds, Len(cmds))
    /\ Drained(dev, cmds, 0) = dev
    /\ \A n \in 1 .. Len(cmds) :
         Drained(dev, cmds, n) = Handle(Drained(dev, cmds, n - 1), cmds[n])

\* The greatest of the numbers up to n + 1 and what is left of them.
LEMMA LastOfInterval ==
    ASSUME NEW n \in Nat
    PROVE  /\ 1 .. n + 1 # {} /\ Max(1 .. n + 1) = n + 1
           /\ (1 .. n + 1) \ {Max(1 .. n + 1)} = 1 .. n
<1>1. (1 .. n + 1) \in SUBSET (0 .. n + 1) /\ n + 1 \in 1 .. n + 1
  OBVIOUS
<1>2. Max(1 .. n + 1) \in 1 .. n + 1 /\ \A x \in 1 .. n + 1 : x <= Max(1 .. n + 1)
  <2> DEFINE S == 1 .. n + 1
  <2>1. S \in SUBSET (0 .. n + 1) /\ S # {} /\ n + 1 \in Nat
    BY <1>1
  <2> HIDE DEF S
  <2>2. Max(S) \in S /\ \A x \in S : x <= Max(S)
    BY <2>1, MaxIs
  <2>3. QED
    BY <2>2 DEF S
<1>3. Max(1 .. n + 1) = n + 1
  BY <1>1, <1>2
<1>4. QED
  BY <1>1, <1>3

\* There are such states, each made of the one before.
LEMMA ScansExist ==
    ASSUME NEW q, NEW buf, NEW N \in Nat
    PROVE  \E f : ScanStates(q, buf, 1 .. N, f)
<1> DEFINE S == {m \in 0 .. N : \E f : ScanStates(q, buf, 1 .. m, f)}
<1>1. 0 \in S
  <2> DEFINE f == [s \in {{}} |-> Scan(q)]
  <2>1. SUBSET (1 .. 0) = {{}}
    OBVIOUS
  <2>2. \A s \in {{}} : f[s] = IF s = {} THEN Scan(q) ELSE ScanByte(f[s \ {Max(s)}], buf[Max(s)])
    OBVIOUS
  <2>3. f = [s \in {{}} |-> f[s]]
    OBVIOUS
  <2> HIDE DEF f
  <2>4. ScanStates(q, buf, 1 .. 0, f)
    BY <2>1, <2>2, <2>3 DEF ScanStates
  <2>5. QED
    BY <2>4
<1>2. ASSUME NEW m \in 0 .. N - 1, m \in S PROVE m + 1 \in S
  <2>1. PICK f : ScanStates(q, buf, 1 .. m, f)
    BY <1>2
  <2> DEFINE g == [s \in SUBSET (1 .. m + 1) |->
                     IF m + 1 \in s THEN ScanByte(f[s \ {m + 1}], buf[m + 1]) ELSE f[s]]
  <2>2. ASSUME NEW s \in SUBSET (1 .. m + 1)
        PROVE  g[s] = IF s = {} THEN Scan(q) ELSE ScanByte(g[s \ {Max(s)}], buf[Max(s)])
    <3>1. CASE m + 1 \in s
      <4>1. Max(s) = m + 1
        <5>1. s \in SUBSET (0 .. m + 1) /\ s # {} /\ m + 1 \in Nat
          BY <3>1
        <5>2. Max(s) \in s /\ m + 1 <= Max(s)
          <6> HIDE DEF g
          <6>1. QED
            BY <3>1, <5>1, MaxIs
        <5>3. Max(s) \in 1 .. m + 1
          BY <5>2
        <5>4. QED
          BY <5>2, <5>3
      <4>2. /\ s \ {m + 1} \in SUBSET (1 .. m + 1) /\ m + 1 \notin s \ {m + 1}
        OBVIOUS
      <4>3. g[s \ {m + 1}] = f[s \ {m + 1}]
        BY <4>2
      <4>4. QED
        BY <3>1, <4>1, <4>3
    <3>2. CASE m + 1 \notin s
      <4>1. s \in SUBSET (1 .. m)
        BY <3>2
      <4>2. g[s] = f[s]
        BY <3>2
      <4>3. f[s] = IF s = {} THEN Scan(q) ELSE ScanByte(f[s \ {Max(s)}], buf[Max(s)])
        BY <2>1, <4>1 DEF ScanStates
      <4>4. g[s \ {Max(s)}] = f[s \ {Max(s)}]
        BY <3>2, <4>1
      <4>5. QED
        BY <4>2, <4>3, <4>4
    <3>3. QED
      BY <3>1, <3>2
  <2>3. g = [s \in SUBSET (1 .. m + 1) |-> g[s]]
    OBVIOUS
  <2> HIDE DEF g
  <2>4. ScanStates(q, buf, 1 .. m + 1, g)
    BY <2>2, <2>3 DEF ScanStates
  <2>5. m + 1 \in 0 .. N
    OBVIOUS
  <2>6. QED
    BY <2>4, <2>5
<1>3. \A m \in 0 .. N : m \in S
  <2> HIDE DEF S
  <2>1. QED
    BY <1>1, <1>2, Induction
<1>4. QED
  BY <1>3

\* So fs_segment_commands goes through the states after each byte.
LEMMA Segmentation ==
    ASSUME NEW q, NEW B, NEW buf \in Seq(B)
    PROVE  /\ Segment(q, buf) = Scanned(q, buf, Len(buf))
           /\ Scanned(q, buf, 0) = Scan(q)
           /\ \A n \in 0 .. Len(buf) - 1 :
                Scanned(q, buf, n + 1) = ScanByte(Scanned(q, buf, n), buf[n + 1])
<1> DEFINE f == Scans(q, buf)
<1>1. Len(buf) \in Nat /\ DOMAIN buf = 1 .. Len(buf)
  BY LenProperties
<1>2. ScanStates(q, buf, DOMAIN buf, f)
  BY <1>1, ScansExist DEF Scans
<1>3. Segment(q, buf) = f[DOMAIN buf]
  BY DEF Segment, FoldLeft, MapThenFoldSet, Scans, ScanStates
<1> HIDE DEF f
<1>4. f[1 .. 0] = Scan(q)
  <2>1. 1 .. 0 = {}
    OBVIOUS
  <2>2. QED
    BY <1>2, <2>1 DEF ScanStates
<1>5. ASSUME NEW n \in 0 .. Len(buf) - 1
      PROVE  f[1 .. n + 1] = ScanByte(f[1 .. n], buf[n + 1])
  <2>1. n \in Nat /\ 1 .. n + 1 \in SUBSET DOMAIN buf
    BY <1>1
  <2>2. QED
    BY <1>2, <2>1, LastOfInterval DEF ScanStates
<1>6. QED
  BY <1>1, <1>3, <1>4, <1>5 DEF Scanned, f

\* The same of the drain.
LEMMA DrainsExist ==
    ASSUME NEW dev, NEW cmds, NEW N \in Nat
    PROVE  \E f : DrainStates(dev, cmds, 1 .. N, f)
<1> DEFINE S == {m \in 0 .. N : \E f : DrainStates(dev, cmds, 1 .. m, f)}
<1>1. 0 \in S
  <2> DEFINE f == [s \in {{}} |-> dev]
  <2>1. SUBSET (1 .. 0) = {{}}
    OBVIOUS
  <2>2. \A s \in {{}} : f[s] = IF s = {} THEN dev ELSE Handle(f[s \ {Max(s)}], cmds[Max(s)])
    OBVIOUS
  <2>3. f = [s \in {{}} |-> f[s]]
    OBVIOUS
  <2> HIDE DEF f
  <2>4. DrainStates(dev, cmds, 1 .. 0, f)
    BY <2>1, <2>2, <2>3 DEF DrainStates
  <2>5. QED
    BY <2>4
<1>2. ASSUME NEW m \in 0 .. N - 1, m \in S PROVE m + 1 \in S
  <2>1. PICK f : DrainStates(dev, cmds, 1 .. m, f)
    BY <1>2
  <2> DEFINE g == [s \in SUBSET (1 .. m + 1) |->
                     IF m + 1 \in s THEN Handle(f[s \ {m + 1}], cmds[m + 1]) ELSE f[s]]
  <2>2. ASSUME NEW s \in SUBSET (1 .. m + 1)
        PROVE  g[s] = IF s = {} THEN dev ELSE Handle(g[s \ {Max(s)}], cmds[Max(s)])
    <3>1. CASE m + 1 \in s
      <4>1. Max(s) = m + 1
        <5>1. s \in SUBSET (0 .. m + 1) /\ s # {} /\ m + 1 \in Nat
          BY <3>1
        <5>2. Max(s) \in s /\ m + 1 <= Max(s)
          <6> HIDE DEF g
          <6>1. QED
            BY <3>1, <5>1, MaxIs
        <5>3. Max(s) \in 1 .. m + 1
          BY <5>2
        <5>4. QED
          BY <5>2, <5>3
      <4>2. /\ s \ {m + 1} \in SUBSET (1 .. m + 1) /\ m + 1 \notin s \ {m + 1}
        OBVIOUS
      <4>3. g[s \ {m + 1}] = f[s \ {m + 1}]
        BY <4>2
      <4>4. QED
        BY <3>1, <4>1, <4>3
    <3>2. CASE m + 1 \notin s
      <4>1. s \in SUBSET (1 .. m)
        BY <3>2
      <4>2. g[s] = f[s]
        BY <3>2
      <4>3. f[s] = IF s = {} THEN dev ELSE Handle(f[s \ {Max(s)}], cmds[Max(s)])
        BY <2>1, <4>1 DEF DrainStates
      <4>4. g[s \ {Max(s)}] = f[s \ {Max(s)}]
        BY <3>2, <4>1
      <4>5. QED
        BY <4>2, <4>3, <4>4
    <3>3. QED
      BY <3>1, <3>2
  <2>3. g = [s \in SUBSET (1 .. m + 1) |-> g[s]]
    OBVIOUS
  <2> HIDE DEF g
  <2>4. DrainStates(dev, cmds, 1 .. m + 1, g)
    BY <2>2, <2>3 DEF DrainStates
  <2>5. m + 1 \in 0 .. N
    OBVIOUS
  <2>6. QED
    BY <2>4, <2>5
<1>3. \A m \in 0 .. N : m \in S
  <2> HIDE DEF S
  <2>1. QED
    BY <1>1, <1>2, Induction
<1>4. QED
  BY <1>3

\* And fs_handle_received_commands goes through those after each command.
LEMMA Draining ==
    ASSUME NEW dev, NEW B, NEW cmds \in Seq(B)
    PROVE  Drain(dev, cmds)
<1> DEFINE f == Drains(dev, cmds)
<1>1. Len(cmds) \in Nat /\ DOMAIN cmds = 1 .. Len(cmds)
  BY LenProperties
<1>2. DrainStates(dev, cmds, DOMAIN cmds, f)
  BY <1>1, DrainsExist DEF Drains
<1>3. AllHandled(dev, cmds) = f[DOMAIN cmds]
  BY DEF AllHandled, FoldLeft, MapThenFoldSet, Drains, DrainStates
<1> HIDE DEF f
<1>4. f[1 .. 0] = dev
  <2>1. 1 .. 0 = {}
    OBVIOUS
  <2>2. QED
    BY <1>2, <2>1 DEF DrainStates
<1>5. ASSUME NEW n \in 1 .. Len(cmds)
      PROVE  f[1 .. n] = Handle(f[1 .. n - 1], cmds[n])
  <2>1. n - 1 \in Nat /\ n - 1 + 1 = n /\ 1 .. n \in SUBSET DOMAIN cmds
    BY <1>1
  <2>2. 1 .. n # {} /\ Max(1 .. n) = n /\ (1 .. n) \ {Max(1 .. n)} = 1 .. n - 1
    BY <2>1, LastOfInterval
  <2>3. QED
    BY <1>2, <2>1, <2>2 DEF DrainStates
<1>6. QED
  BY <1>1, <1>3, <1>4, <1>5 DEF Drain, Drained, f

-----------------------------------------------------------------------------
(* Types.                                                                  *)

\* The bytes of commands are neither terminators nor line ends.
Marks == {Terminator, LineEnd}

\* Queued commands of bytes in P.
Queued(P, queue) ==
    /\ queue \in Seq(Seq(P)) /\ Len(queue) <= CommandQueueLength
    /\ \A i \in 1 .. Len(queue) : Len(queue[i]) < CommandLength

\* The locals of fs_segment_commands, when the bytes of commands are in P.
Locals(P) ==
    [queue : Seq(Seq(P)), payload : Seq(P), reading : BOOLEAN, ret : {"none", "full", "broken"}]

ScanType(P, s) ==
    /\ s \in Locals(P)
    /\ Queued(P, s.queue) /\ Len(s.payload) < CommandLength

\* The queue takes one more command when it is not full.
LEMMA QueueOneMore ==
    ASSUME NEW P, NEW queue, Queued(P, queue), Len(queue) < CommandQueueLength,
           NEW cmd \in Seq(P), Len(cmd) < CommandLength
    PROVE  Queued(P, Append(queue, cmd))
<1>1. /\ Append(queue, cmd) \in Seq(Seq(P)) /\ Len(Append(queue, cmd)) = Len(queue) + 1
      /\ \A i \in 1 .. Len(queue) : Append(queue, cmd)[i] = queue[i]
      /\ Append(queue, cmd)[Len(queue) + 1] = cmd
      /\ Len(queue) \in Nat
  BY AppendProperties, LenProperties DEF Queued
<1>2. Len(queue) + 1 <= CommandQueueLength
  BY <1>1, CommandConstants
<1>3. ASSUME NEW i \in 1 .. Len(queue) + 1 PROVE Len(Append(queue, cmd)[i]) < CommandLength
  <2>1. i \in 1 .. Len(queue) \/ i = Len(queue) + 1
    BY <1>1
  <2>2. QED
    BY <1>1, <2>1 DEF Queued
<1>4. QED
  BY <1>1, <1>2, <1>3 DEF Queued

\* Every byte keeps the types.
LEMMA ScanByteType ==
    ASSUME NEW P, NEW s, ScanType(P, s), NEW c \in P \cup Marks
    PROVE  ScanType(P, ScanByte(s, c))
<1> DEFINE New(queue, payload, reading, ret) ==
               [queue |-> queue, payload |-> payload, reading |-> reading, ret |-> ret]
<1>0. <<>> \in Seq(P) /\ Len(<<>>) = 0 /\ 0 < CommandLength /\ CommandLength \in Nat
  BY EmptySeq, CommandConstants
<1>a. /\ s.payload \in Seq(P) /\ Len(s.payload) < CommandLength /\ Queued(P, s.queue)
      /\ s.reading \in BOOLEAN /\ s.ret \in {"none", "full", "broken"}
      /\ s.queue \in Seq(Seq(P))
      /\ s = New(s.queue, s.payload, s.reading, s.ret)
  BY DEF ScanType, Queued, Locals
<1>b. ASSUME NEW queue, NEW payload \in Seq(P), NEW reading, NEW ret, Queued(P, queue),
             Len(payload) < CommandLength, reading = TRUE \/ reading = FALSE,
             ret \in {"none", "full", "broken"}
      PROVE  ScanType(P, New(queue, payload, reading, ret))
  <2>1. queue \in Seq(Seq(P)) /\ reading \in BOOLEAN
    BY <1>b DEF Queued
  <2>2. New(queue, payload, reading, ret) \in Locals(P)
    BY <1>b, <2>1 DEF Locals
  <2>3. QED
    BY <1>b, <2>2 DEF ScanType
<1>1. CASE s.ret # "none"
  BY <1>1 DEF ScanByte
<1>2. CASE s.ret = "none" /\ c = Terminator
  <2>1. ScanByte(s, c) = EndCommand(s)
    BY <1>2 DEF ScanByte, Terminator, LineEnd
  <2>2. CASE Len(s.queue) < CommandQueueLength
    <3>1. Queued(P, Append(s.queue, s.payload))
      BY <1>a, <2>2, QueueOneMore
    <3>2. EndCommand(s) = New(Append(s.queue, s.payload), <<>>, FALSE, s.ret)
      BY <1>a, <2>2 DEF EndCommand
    <3>3. QED
      BY <1>0, <1>a, <2>1, <3>1, <3>2, <1>b
  <2>3. CASE ~(Len(s.queue) < CommandQueueLength)
    <3>1. EndCommand(s) = New(s.queue, s.payload, s.reading, "full")
      BY <1>a, <2>3 DEF EndCommand
    <3>2. QED
      BY <1>a, <2>1, <3>1, <1>b
  <2>4. QED
    BY <2>2, <2>3
<1>3. CASE s.ret = "none" /\ c = LineEnd
  <2>1. ScanByte(s, c) = EndLine(s)
    BY <1>3 DEF ScanByte, Terminator, LineEnd
  <2>2. \/ EndLine(s) = New(s.queue, s.payload, s.reading, "broken")
        \/ EndLine(s) = New(s.queue, <<>>, s.reading, s.ret)
    BY <1>a DEF EndLine
  <2>3. QED
    BY <1>0, <1>a, <2>1, <2>2, <1>b
<1>4. CASE s.ret = "none" /\ c \notin Marks
  <2>1. ScanByte(s, c) = AddByte(s, c)
    BY <1>4 DEF ScanByte, Marks
  <2>2. c \in P
    BY <1>4
  <2>3. CASE Len(s.payload) < CommandLength - 1
    <3>1. /\ Append(s.payload, c) \in Seq(P) /\ Len(Append(s.payload, c)) = Len(s.payload) + 1
          /\ Len(s.payload) \in Nat
      BY <1>a, <2>2, AppendProperties, LenProperties
    <3>2. Len(Append(s.payload, c)) < CommandLength
      BY <1>0, <2>3, <3>1
    <3>3. AddByte(s, c) = New(s.queue, Append(s.payload, c), TRUE, s.ret)
      <4>1. AddByte(s, c) = [s EXCEPT !.reading = TRUE, !.payload = Append(s.payload, c)]
        BY <2>3 DEF AddByte
      <4>2. QED
        BY <1>a, <4>1
    <3>4. QED
      BY <1>a, <2>1, <3>1, <3>2, <3>3, <1>b
  <2>4. CASE ~(Len(s.payload) < CommandLength - 1)
    <3>1. AddByte(s, c) = New(s.queue, <<>>, TRUE, s.ret)
      <4>1. AddByte(s, c) = [s EXCEPT !.reading = TRUE, !.payload = <<>>]
        BY <2>4 DEF AddByte
      <4>2. QED
        BY <1>a, <4>1
    <3>2. QED
      BY <1>0, <1>a, <2>1, <3>1, <1>b
  <2>5. QED
    BY <2>3, <2>4
<1>5. QED
  BY <1>1, <1>2, <1>3, <1>4 DEF Marks

\* So fs_segment_commands keeps them.
LEMMA SegmentType ==
    ASSUME NEW P, NEW q, Queued(P, q), NEW buf \in Seq(P \cup Marks)
    PROVE  /\ \A n \in 0 .. Len(buf) : ScanType(P, Scanned(q, buf, n))
           /\ ScanType(P, Segment(q, buf))
<1> DEFINE S == {n \in 0 .. Len(buf) : ScanType(P, Scanned(q, buf, n))}
<1>1. Len(buf) \in Nat
  BY LenProperties
<1>2. 0 \in S
  <2>1. Scanned(q, buf, 0) = Scan(q)
    BY Segmentation
  <2>2. ScanType(P, Scan(q))
    <3>1. <<>> \in Seq(P) /\ Len(<<>>) = 0 /\ 0 < CommandLength
      BY EmptySeq, CommandConstants
    <3>2. QED
      BY <3>1 DEF Scan, ScanType, Queued, Locals
  <2>3. QED
    BY <1>1, <2>1, <2>2
<1>3. ASSUME NEW n \in 0 .. Len(buf) - 1, n \in S PROVE n + 1 \in S
  <2>1. Scanned(q, buf, n + 1) = ScanByte(Scanned(q, buf, n), buf[n + 1])
    BY Segmentation
  <2>2. n + 1 \in 1 .. Len(buf) /\ n + 1 \in 0 .. Len(buf) /\ buf[n + 1] \in P \cup Marks
    <3>1. n + 1 \in 1 .. Len(buf)
      BY <1>1
    <3>2. QED
      BY <1>1, <3>1, ElementOfSeq
  <2>3. ScanType(P, Scanned(q, buf, n))
    BY <1>3
  <2>4. QED
    BY <2>1, <2>2, <2>3, ScanByteType
<1>4. \A n \in 0 .. Len(buf) : n \in S
  <2> HIDE DEF S
  <2>1. QED
    BY <1>1, <1>2, <1>3, Induction
<1>5. Segment(q, buf) = Scanned(q, buf, Len(buf)) /\ Len(buf) \in 0 .. Len(buf)
  BY <1>1, Segmentation
<1>6. QED
  BY <1>4, <1>5

\* What an attribute is given are bytes of the command.
LEMMA ValueType ==
    ASSUME NEW P, NEW params \in Seq(P), NEW a
    PROVE  Value(a, params) \in Seq(P) /\ Number(params) \in Seq(P)
<1>1. Len(params) \in Nat /\ \A i \in 1 .. Len(params) : params[i] \in P
  BY LenProperties, ElementOfSeq
<1>2. ASSUME NEW m \in Int, m <= Len(params) PROVE SubSeq(params, 1, m) \in Seq(P)
  <2>1. \A i \in 1 .. m : params[i] \in P
    BY <1>1, <1>2
  <2>2. QED
    BY <2>1, SubSeqProperties
<1>3. Number(params) \in Seq(P)
  <2> DEFINE S == {n \in 0 .. Len(params) : \A i \in 1 .. n : params[i] \in Digits}
  <2>1. S \in SUBSET (0 .. Len(params)) /\ 0 \in S
    BY <1>1
  <2>2. Number(params) = SubSeq(params, 1, Max(S))
    BY DEF Number
  <2> HIDE DEF S
  <2>3. Max(S) \in 0 .. Len(params)
    BY <1>1, <2>1, MaxIs
  <2>4. QED
    BY <1>1, <1>2, <2>2, <2>3
<1>4. Stored(params) \in Seq(P)
  <2>1. FieldLength \in Nat
    BY CommandConstants
  <2>2. CASE Len(params) < FieldLength - 2
    BY <1>1, <1>2, <2>2 DEF Stored
  <2>3. CASE ~(Len(params) < FieldLength - 2)
    <3>1. FieldLength - 2 \in Int /\ FieldLength - 2 <= Len(params)
      BY <1>1, <2>1, <2>3
    <3>2. QED
      BY <1>2, <2>3, <3>1 DEF Stored
  <2>4. QED
    BY <2>2, <2>3
<1>5. QED
  BY <1>3, <1>4 DEF Value

\* A command changes only the attribute whose letter it starts with, to its value.
LEMMA HandleChanges ==
    ASSUME NEW P, NEW dev \in [Attributes -> Seq(P)], NEW cmd \in Seq(P)
    PROVE  /\ Handle(dev, cmd) \in [Attributes -> Seq(P)]
           /\ \A a \in Attributes :
                \/ Handle(dev, cmd)[a] = dev[a]
                \/ cmd # <<>> /\ Head(cmd) = a /\ Handle(dev, cmd)[a] = Value(a, Tail(cmd))
<1>1. CASE /\ cmd # <<>> /\ Head(cmd) \in Attributes
           /\ Head(cmd) = BaudRate => Number(Tail(cmd)) # <<>>
  <2>1. Handle(dev, cmd) = [dev EXCEPT ![Head(cmd)] = Value(Head(cmd), Tail(cmd))]
    BY <1>1 DEF Handle
  <2>2. Tail(cmd) \in Seq(P)
    BY <1>1, HeadTailProperties
  <2>3. Value(Head(cmd), Tail(cmd)) \in Seq(P)
    BY <2>2, ValueType
  <2>4. QED
    BY <1>1, <2>1, <2>3
<1>2. CASE ~(/\ cmd # <<>> /\ Head(cmd) \in Attributes
             /\ Head(cmd) = BaudRate => Number(Tail(cmd)) # <<>>)
  <2>1. Handle(dev, cmd) = dev
    BY <1>2 DEF Handle
  <2>2. QED
    BY <2>1
<1>3. QED
  BY <1>1, <1>2

\* After n commands each attribute is what it was or the value of one of them.
Changed(P, dev, cmds, d, n) ==
    /\ d \in [Attributes -> Seq(P)]
    /\ \A a \in Attributes :
         \/ d[a] = dev[a]
         \/ \E k \in 1 .. n : /\ cmds[k] # <<>> /\ Head(cmds[k]) = a
                              /\ d[a] = Value(a, Tail(cmds[k]))

\* An attribute that a drain has changed is the value of one of the commands.
LEMMA DrainChanges ==
    ASSUME NEW P, NEW dev \in [Attributes -> Seq(P)], NEW cmds \in Seq(Seq(P))
    PROVE  Changed(P, dev, cmds, AllHandled(dev, cmds), Len(cmds))
<1>1. /\ Len(cmds) \in Nat
      /\ AllHandled(dev, cmds) = Drained(dev, cmds, Len(cmds))
      /\ Drained(dev, cmds, 0) = dev
      /\ \A n \in 1 .. Len(cmds) :
           Drained(dev, cmds, n) = Handle(Drained(dev, cmds, n - 1), cmds[n])
  <2>1. Len(cmds) \in Nat /\ Drain(dev, cmds)
    BY LenProperties, Draining
  <2>2. QED
    BY <2>1 DEF Drain
<1> DEFINE S == {n \in 0 .. Len(cmds) : Changed(P, dev, cmds, Drained(dev, cmds, n), n)}
<1>2. 0 \in S
  <2>1. Changed(P, dev, cmds, dev, 0)
    BY DEF Changed
  <2>2. QED
    BY <1>1, <2>1
<1>3. ASSUME NEW n \in 0 .. Len(cmds) - 1, n \in S PROVE n + 1 \in S
  <2>1. /\ n + 1 \in 1 .. Len(cmds) /\ n + 1 \in 0 .. Len(cmds)
        /\ \A k \in 1 .. n : k \in 1 .. n + 1
        /\ n + 1 \in 1 .. n + 1 /\ n + 1 - 1 = n
    BY <1>1
  <2>2. cmds[n + 1] \in Seq(P)
    BY <2>1, ElementOfSeq
  <2>3. PICK d : /\ Changed(P, dev, cmds, d, n)
                 /\ Drained(dev, cmds, n + 1) = Handle(d, cmds[n + 1])
    BY <1>1, <1>3, <2>1
  <2>4. PICK e : e = Handle(d, cmds[n + 1])
    OBVIOUS
  <2>5. d \in [Attributes -> Seq(P)]
    BY <2>3 DEF Changed
  <2>6. /\ e \in [Attributes -> Seq(P)]
        /\ \A a \in Attributes :
             \/ e[a] = d[a]
             \/ /\ cmds[n + 1] # <<>> /\ Head(cmds[n + 1]) = a
                /\ e[a] = Value(a, Tail(cmds[n + 1]))
    <3>1. PICK c \in Seq(P) : c = cmds[n + 1]
      BY <2>2
    <3>2. /\ Handle(d, c) \in [Attributes -> Seq(P)]
          /\ \A a \in Attributes :
               \/ Handle(d, c)[a] = d[a]
               \/ c # <<>> /\ Head(c) = a /\ Handle(d, c)[a] = Value(a, Tail(c))
      BY <2>5, HandleChanges
    <3>3. QED
      BY <2>4, <3>1, <3>2, Zenon
  <2>7. Changed(P, dev, cmds, e, n + 1)
    BY <2>1, <2>3, <2>6 DEF Changed
  <2>8. QED
    BY <2>1, <2>3, <2>4, <2>7
<1>4. \A n \in 0 .. Len(cmds) : n \in S
  <2> HIDE DEF S
  <2>1. QED
    BY <1>1, <1>2, <1>3, Induction
<1>5. QED
  BY <1>1, <1>4

\* What a byte does to the locals of fs_segment_commands, case by case.
ByteStep(s, c, t) ==
    \/ s.ret # "none" /\ t = s
    \/ /\ s.ret = "none" /\ c = Terminator /\ Len(s.queue) < CommandQueueLength
       /\ t.queue = Append(s.queue, s.payload) /\ t.payload = <<>> /\ ~t.reading
       /\ t.ret = "none"
    \/ /\ s.ret = "none" /\ c = Terminator /\ ~(Len(s.queue) < CommandQueueLength)
       /\ t.queue = s.queue /\ t.ret = "full"
    \/ /\ s.ret = "none" /\ c = LineEnd /\ s.reading
       /\ t.queue = s.queue /\ t.ret = "broken"
    \/ /\ s.ret = "none" /\ c = LineEnd /\ ~s.reading
       /\ t.queue = s.queue /\ t.payload = <<>> /\ ~t.reading /\ t.ret = "none"
    \/ /\ s.ret = "none" /\ c \notin Marks /\ Len(s.payload) < CommandLength - 1
       /\ t.queue = s.queue /\ t.payload = Append(s.payload, c) /\ t.reading
       /\ t.ret = "none"
    \/ /\ s.ret = "none" /\ c \notin Marks /\ ~(Len(s.payload) < CommandLength - 1)
       /\ t.queue = s.queue /\ t.payload = <<>> /\ t.reading /\ t.ret = "none"

\* It does one of these.
LEMMA ScanByteSteps ==
    ASSUME NEW P, NEW s \in Locals(P), NEW c
    PROVE  ByteStep(s, c, ScanByte(s, c))
<1>0. s.reading \in BOOLEAN
  BY DEF Locals
<1>1. CASE s.ret # "none"
  BY <1>1 DEF ScanByte, ByteStep
<1>2. CASE s.ret = "none" /\ c = Terminator
  <2>1. ScanByte(s, c) = EndCommand(s)
    BY <1>2 DEF ScanByte, Terminator, LineEnd
  <2>2. CASE Len(s.queue) < CommandQueueLength
    <3>1. EndCommand(s) = [s EXCEPT !.queue = Append(s.queue, s.payload), !.payload = <<>>,
                                    !.reading = FALSE]
      BY <2>2 DEF EndCommand
    <3>2. QED
      BY <1>2, <2>1, <2>2, <3>1 DEF ByteStep, Locals
  <2>3. CASE ~(Len(s.queue) < CommandQueueLength)
    BY <1>2, <2>1, <2>3 DEF EndCommand, ByteStep, Locals
  <2>4. QED
    BY <2>2, <2>3
<1>3. CASE s.ret = "none" /\ c = LineEnd
  <2>1. ScanByte(s, c) = EndLine(s)
    BY <1>3 DEF ScanByte, Terminator, LineEnd
  <2>2. CASE s.reading
    BY <1>3, <2>1, <2>2 DEF EndLine, ByteStep, Locals
  <2>3. CASE ~s.reading
    BY <1>3, <2>1, <2>3 DEF EndLine, ByteStep, Locals
  <2>4. QED
    BY <1>0, <2>2, <2>3
<1>4. CASE s.ret = "none" /\ c \notin Marks
  <2>1. ScanByte(s, c) = AddByte(s, c)
    BY <1>4 DEF ScanByte, Marks
  <2>2. CASE Len(s.payload) < CommandLength - 1
    <3>1. AddByte(s, c) = [s EXCEPT !.reading = TRUE, !.payload = Append(s.payload, c)]
      BY <2>2 DEF AddByte
    <3>2. QED
      BY <1>4, <2>1, <2>2, <3>1 DEF ByteStep, Locals
  <2>3. CASE ~(Len(s.payload) < CommandLength - 1)
    <3>1. AddByte(s, c) = [s EXCEPT !.reading = TRUE, !.payload = <<>>]
      BY <2>3 DEF AddByte
    <3>2. QED
      BY <1>4, <2>1, <2>3, <3>1 DEF ByteStep, Locals
  <2>4. QED
    BY <2>2, <2>3
<1>5. QED
  BY <1>1, <1>2, <1>3, <1>4 DEF Marks

-----------------------------------------------------------------------------
(* The call on a buffer.                                                   *)

\* The bytes of commands.
CommandBytes == (UNION {Range(buf) : buf \in Buffers}) \ Marks

\* What a call leaves, with the drain given a name.
LEMMA AfterBufferIs ==
    ASSUME NEW cmds, NEW dev, NEW buf
    PROVE  AfterBuffer(cmds, dev, buf) =
             IF Segment(cmds, buf).ret # "none"
             THEN [commands |-> Segment(cmds, buf).queue, device |-> dev]
             ELSE [commands |-> <<>>, device |-> AllHandled(dev, Segment(cmds, buf).queue)]
<1>1. QED
  BY DEF AfterBuffer, AllHandled

\* The bytes of a buffer are bytes of commands or marks.
LEMMA BufferType ==
    ASSUME NEW buf \in Buffers
    PROVE  buf \in Seq(CommandBytes \cup Marks)
<1>1. buf \in Seq(Range(buf)) /\ Range(buf) \subseteq CommandBytes \cup Marks
  <2>1. buf \in Seq(Range(buf))
    BY CommandConstants
  <2> DEFINE All == UNION {Range(b) : b \in Buffers}
  <2>2. Range(buf) \subseteq All
    OBVIOUS
  <2>3. CommandBytes = All \ Marks
    BY DEF CommandBytes
  <2> HIDE DEF All
  <2>4. QED
    BY <2>1, <2>2, <2>3
<1>2. \A i \in 1 .. Len(buf) : buf[i] \in CommandBytes \cup Marks
  BY <1>1, ElementOfSeq
<1>3. /\ buf = [i \in 1 .. Len(buf) |-> buf[i]] /\ Len(buf) \in Nat
  BY <1>1, LenProperties
<1>4. QED
  BY <1>2, <1>3, SeqDef

\* The types, by the names used here.
LEMMA Types ==
    CommandTypeOK <=> Queued(CommandBytes, commands) /\ device \in [Attributes -> Seq(CommandBytes)]
<1>1. Payload = Seq(CommandBytes)
  BY DEF Payload, CommandBytes, Marks
<1>2. QED
  BY <1>1 DEF CommandTypeOK, Queued

\* A call on a buffer keeps the types.
LEMMA AfterBufferType ==
    ASSUME CommandTypeOK, NEW buf \in Buffers
    PROVE  /\ Queued(CommandBytes, AfterBuffer(commands, device, buf).commands)
           /\ AfterBuffer(commands, device, buf).device \in [Attributes -> Seq(CommandBytes)]
<1> DEFINE s == Segment(commands, buf)
<1>1. Queued(CommandBytes, commands) /\ device \in [Attributes -> Seq(CommandBytes)]
  BY Types
<1>2. ScanType(CommandBytes, s)
  BY <1>1, BufferType, SegmentType
<1>3. Queued(CommandBytes, s.queue) /\ s.queue \in Seq(Seq(CommandBytes))
  BY <1>2 DEF ScanType, Queued
<1> HIDE DEF s
<1>4. CASE s.ret # "none"
  <2>1. AfterBuffer(commands, device, buf) = [commands |-> s.queue, device |-> device]
    BY <1>4, AfterBufferIs DEF s
  <2>2. QED
    BY <1>1, <1>3, <2>1
<1>5. CASE s.ret = "none"
  <2>1. AfterBuffer(commands, device, buf) =
          [commands |-> <<>>, device |-> AllHandled(device, s.queue)]
    BY <1>5, AfterBufferIs DEF s
  <2>2. AllHandled(device, s.queue) \in [Attributes -> Seq(CommandBytes)]
    BY <1>1, <1>3, DrainChanges DEF Changed
  <2>3. Queued(CommandBytes, <<>>)
    BY EmptySeq, CommandConstants DEF Queued
  <2>4. QED
    BY <2>1, <2>2, <2>3
<1>6. QED
  BY <1>4, <1>5

\* The commands and the attributes keep their types: the queue its length, each
\* command less than FS_MAX_CMD_LENGTH bytes, none of them a terminator or line end.
THEOREM TypeCorrect == CommandSpec => []CommandTypeOK
<1>1. CommandInit => CommandTypeOK
  <2> SUFFICES ASSUME CommandInit PROVE CommandTypeOK
    OBVIOUS
  <2>1. Queued(CommandBytes, <<>>) /\ <<>> \in Seq(CommandBytes)
    BY EmptySeq, CommandConstants DEF Queued
  <2>2. QED
    BY <2>1, Types DEF CommandInit
<1>2. CommandTypeOK /\ [CommandNext]_commandVars => CommandTypeOK'
  <2> SUFFICES ASSUME CommandTypeOK, [CommandNext]_commandVars PROVE CommandTypeOK'
    OBVIOUS
  <2>1. Queued(CommandBytes, commands') /\ device' \in [Attributes -> Seq(CommandBytes)]
    <3>1. ASSUME NEW buf \in Buffers, HandleBuffer(buf)
          PROVE  Queued(CommandBytes, commands') /\ device' \in [Attributes -> Seq(CommandBytes)]
      BY <3>1, AfterBufferType DEF HandleBuffer
    <3>2. CASE UNCHANGED commandVars
      BY <3>2, Types DEF commandVars
    <3>3. QED
      BY <3>1, <3>2 DEF CommandNext
  <2>2. Payload = Seq(CommandBytes)
    BY DEF Payload, CommandBytes, Marks
  <2>3. QED
    BY <2>1, <2>2 DEF CommandTypeOK, Queued
<1>3. QED
  BY <1>1, <1>2, PTL DEF CommandSpec

-----------------------------------------------------------------------------
(* A full queue.                                                           *)

\* The buffer is a fragment as far as its nth byte.
FragmentTo(buf, n) ==
    \A i \in 1 .. n :
        /\ buf[i] # Terminator
        /\ i > 1 /\ buf[i] = LineEnd => buf[i - 1] = LineEnd

\* After n bytes of the buffer a full queue is as it was, and the call has failed
\* unless they are a fragment; it is within a command if the last is no line end.
Stuck(q, buf, s, n) ==
    /\ s.queue = q
    /\ s.ret = "none" <=> FragmentTo(buf, n)
    /\ s.ret = "none" => (s.reading <=> n > 0 /\ buf[n] # LineEnd)

\* A fragment, one byte longer.
LEMMA FragmentNext ==
    ASSUME NEW buf, NEW n \in Nat
    PROVE  FragmentTo(buf, n + 1) <=>
             /\ FragmentTo(buf, n)
             /\ buf[n + 1] # Terminator
             /\ n > 0 /\ buf[n + 1] = LineEnd => buf[n] = LineEnd
<1>1. \A i \in 1 .. n + 1 : i \in 1 .. n \/ i = n + 1
  OBVIOUS
<1>2. \A i \in 1 .. n : i \in 1 .. n + 1
  OBVIOUS
<1>3. n + 1 \in 1 .. n + 1 /\ n + 1 - 1 = n /\ (n + 1 > 1 <=> n > 0)
  OBVIOUS
<1>4. ASSUME FragmentTo(buf, n + 1)
      PROVE  /\ FragmentTo(buf, n) /\ buf[n + 1] # Terminator
             /\ n > 0 /\ buf[n + 1] = LineEnd => buf[n] = LineEnd
  BY <1>2, <1>3, <1>4 DEF FragmentTo
<1>5. ASSUME FragmentTo(buf, n), buf[n + 1] # Terminator,
             n > 0 /\ buf[n + 1] = LineEnd => buf[n] = LineEnd
      PROVE  FragmentTo(buf, n + 1)
  BY <1>1, <1>3, <1>5 DEF FragmentTo
<1>6. QED
  BY <1>4, <1>5

\* fs_segment_commands cannot change a full queue, and gets through fragments only.
LEMMA SegmentStuck ==
    ASSUME NEW P, NEW q, Queued(P, q), Len(q) = CommandQueueLength,
           NEW buf \in Seq(P \cup Marks)
    PROVE  Stuck(q, buf, Segment(q, buf), Len(buf))
<1> DEFINE S == {n \in 0 .. Len(buf) : Stuck(q, buf, Scanned(q, buf, n), n)}
<1>1. Len(buf) \in Nat /\ CommandQueueLength \in Nat
  BY LenProperties, CommandConstants
<1>2. 0 \in S
  <2>1. Scanned(q, buf, 0) = Scan(q)
    BY Segmentation
  <2>2. Stuck(q, buf, Scan(q), 0)
    BY DEF Stuck, Scan, FragmentTo
  <2>3. QED
    BY <1>1, <2>1, <2>2
<1>3. ASSUME NEW n \in 0 .. Len(buf) - 1, n \in S PROVE n + 1 \in S
  <2>1. PICK s : s = Scanned(q, buf, n)
    OBVIOUS
  <2>2. PICK t : t = ScanByte(s, buf[n + 1])
    OBVIOUS
  <2>3. n \in Nat /\ n + 1 \in 0 .. Len(buf) /\ n + 1 > 0
    BY <1>1
  <2>4. t = Scanned(q, buf, n + 1)
    BY <2>1, <2>2, Segmentation
  <2>5. s \in Locals(P)
    <3>1. n \in 0 .. Len(buf)
      BY <1>1
    <3>2. QED
      BY <2>1, <3>1, SegmentType DEF ScanType
  <2>6. ByteStep(s, buf[n + 1], t)
    BY <2>2, <2>5, ScanByteSteps
  <2>7. Stuck(q, buf, s, n) /\ s.reading \in BOOLEAN
    BY <1>3, <2>1, <2>5 DEF Locals
  <2>8. ~(Len(s.queue) < CommandQueueLength)
    BY <1>1, <2>7 DEF Stuck
  <2>9. Stuck(q, buf, t, n + 1)
    <3> DEFINE c == buf[n + 1]
    <3>1. t.queue = q
      BY <2>6, <2>7, <2>8 DEF Stuck, ByteStep
    <3>2. CASE s.ret # "none"
      BY <2>3, <2>6, <2>7, <3>1, <3>2, FragmentNext DEF Stuck, ByteStep
    <3>3. CASE s.ret = "none" /\ c = Terminator
      BY <2>3, <2>6, <2>7, <2>8, <3>1, <3>3, FragmentNext
         DEF Stuck, ByteStep, Marks, Terminator, LineEnd
    <3>4. CASE s.ret = "none" /\ c = LineEnd
      BY <2>3, <2>6, <2>7, <3>1, <3>4, FragmentNext
         DEF Stuck, ByteStep, Marks, Terminator, LineEnd
    <3>5. CASE s.ret = "none" /\ c \notin Marks
      BY <2>3, <2>6, <2>7, <3>1, <3>5, FragmentNext DEF Stuck, ByteStep, Marks
    <3>6. QED
      BY <3>2, <3>3, <3>4, <3>5 DEF Marks
  <2>10. QED
    BY <2>3, <2>4, <2>9
<1>4. \A n \in 0 .. Len(buf) : n \in S
  <2> HIDE DEF S
  <2>1. QED
    BY <1>1, <1>2, <1>3, Induction
<1>5. Segment(q, buf) = Scanned(q, buf, Len(buf)) /\ Len(buf) \in 0 .. Len(buf)
  BY <1>1, Segmentation
<1>6. QED
  BY <1>4, <1>5

\* Whatever the buffers are, a full queue refuses each that ends or breaks off a
\* command and handles what it holds, and no more, on each that does not.
THEOREM FullQueueIsDeaf == CommandSpec => []FullQueueHearsNothing
<1>1. CommandTypeOK => FullQueueHearsNothing
  <2> SUFFICES ASSUME CommandTypeOK, Len(commands) = CommandQueueLength, NEW buf \in Buffers
               PROVE  AfterBuffer(commands, device, buf) =
                        IF Fragment(buf)
                        THEN [commands |-> <<>>, device |-> AllHandled(device, commands)]
                        ELSE [commands |-> commands, device |-> device]
    BY DEF FullQueueHearsNothing, AllHandled
  <2> DEFINE s == Segment(commands, buf)
  <2>1. Queued(CommandBytes, commands)
    BY Types
  <2>2. Stuck(commands, buf, s, Len(buf))
    BY <2>1, BufferType, SegmentStuck
  <2> HIDE DEF s
  <2>3. s.queue = commands /\ (s.ret = "none" <=> Fragment(buf))
    BY <2>2 DEF Stuck, FragmentTo, Fragment
  <2>4. QED
    BY <2>3, AfterBufferIs DEF s
<1>2. QED
  BY <1>1, TypeCorrect, PTL

-----------------------------------------------------------------------------
(* No splicing.                                                            *)

\* A part of a sequence, one element longer.
LEMMA OneLonger ==
    ASSUME NEW B, NEW buf \in Seq(B), NEW n \in Nat, NEW i \in 1 .. n + 1, n + 1 <= Len(buf)
    PROVE  Append(SubSeq(buf, i, n), buf[n + 1]) = SubSeq(buf, i, n + 1)
<1> DEFINE short == SubSeq(buf, i, n)
           long == SubSeq(buf, i, n + 1)
<1>0. Len(buf) \in Nat /\ i \in Int /\ n \in Int /\ n + 1 \in Int /\ buf[n + 1] \in B
  <2>1. Len(buf) \in Nat
    BY LenProperties
  <2>2. n + 1 \in 1 .. Len(buf)
    BY <2>1
  <2>3. QED
    BY <2>1, <2>2, ElementOfSeq
<1>1. \A k \in i .. n + 1 : buf[k] \in B
  <2> TAKE k \in i .. n + 1
  <2>1. k \in 1 .. Len(buf)
    BY <1>0
  <2>2. QED
    BY <2>1, ElementOfSeq
<1>2. /\ short \in Seq(B) /\ Len(short) = n - i + 1
      /\ \A k \in 1 .. n - i + 1 : short[k] = buf[i + k - 1]
  <2>1. \A k \in i .. n : buf[k] \in B
    BY <1>0, <1>1
  <2>2. /\ short \in Seq(B) /\ Len(short) = IF i <= n THEN n - i + 1 ELSE 0
        /\ \A k \in 1 .. n - i + 1 : short[k] = buf[i + k - 1]
    BY <1>0, <2>1, SubSeqProperties
  <2>3. (IF i <= n THEN n - i + 1 ELSE 0) = n - i + 1
    BY <1>0
  <2> HIDE DEF short
  <2>4. QED
    BY <2>2, <2>3
<1>3. /\ long \in Seq(B) /\ Len(long) = n - i + 2
      /\ \A k \in 1 .. n - i + 2 : long[k] = buf[i + k - 1]
  <2>2. /\ long \in Seq(B) /\ Len(long) = IF i <= n + 1 THEN n + 1 - i + 1 ELSE 0
        /\ \A k \in 1 .. n + 1 - i + 1 : long[k] = buf[i + k - 1]
    BY <1>0, <1>1, SubSeqProperties
  <2>3. (IF i <= n + 1 THEN n + 1 - i + 1 ELSE 0) = n - i + 2 /\ n + 1 - i + 1 = n - i + 2
    BY <1>0
  <2> HIDE DEF long
  <2>4. QED
    BY <2>2, <2>3
<1> HIDE DEF short, long
<1>4. /\ Append(short, buf[n + 1]) \in Seq(B)
      /\ Len(Append(short, buf[n + 1])) = n - i + 2
      /\ \A k \in 1 .. n - i + 1 : Append(short, buf[n + 1])[k] = buf[i + k - 1]
      /\ Append(short, buf[n + 1])[n - i + 2] = buf[n + 1]
  <2>1. /\ Append(short, buf[n + 1]) \in Seq(B)
        /\ Len(Append(short, buf[n + 1])) = Len(short) + 1
        /\ \A k \in 1 .. Len(short) : Append(short, buf[n + 1])[k] = short[k]
        /\ Append(short, buf[n + 1])[Len(short) + 1] = buf[n + 1]
    BY <1>0, <1>2, AppendProperties
  <2>2. n - i + 1 + 1 = n - i + 2
    BY <1>0
  <2>3. QED
    BY <1>2, <2>1, <2>2
<1>5. ASSUME NEW k \in 1 .. n - i + 2 PROVE Append(short, buf[n + 1])[k] = long[k]
  <2>1. k \in 1 .. n - i + 1 \/ (k = n - i + 2 /\ i + k - 1 = n + 1)
    BY <1>0
  <2>2. QED
    BY <1>3, <1>4, <2>1
<1>6. Append(short, buf[n + 1]) = long
  BY <1>3, <1>4, <1>5, SeqEqual
<1>7. QED
  BY <1>6 DEF short, long

\* A command that was queued before, or whose bytes stand together in the buffer.
Stood(q, buf, cmd) ==
    cmd \in Range(q) \/ \E i, j \in Nat : i > 0 /\ j <= Len(buf) /\ cmd = SubSeq(buf, i, j)

\* After n bytes of the buffer: the queue holds such commands, and the payload
\* the bytes that came last.
Whole(q, buf, s, n) ==
    /\ \A k \in 1 .. Len(s.queue) : Stood(q, buf, s.queue[k])
    /\ s.ret = "none" => /\ Len(s.payload) <= n
                         /\ s.payload = SubSeq(buf, n - Len(s.payload) + 1, n)

\* A byte keeps them so.
LEMMA ScanByteWhole ==
    ASSUME NEW P, NEW q, NEW buf \in Seq(P \cup Marks), NEW n \in Nat, n + 1 <= Len(buf),
           NEW s, ScanType(P, s), Whole(q, buf, s, n)
    PROVE  Whole(q, buf, ScanByte(s, buf[n + 1]), n + 1)
<1>0. PICK t : t = ScanByte(s, buf[n + 1])
  OBVIOUS
<1>1. ByteStep(s, buf[n + 1], t)
  BY <1>0, ScanByteSteps DEF ScanType
<1>2. /\ Len(buf) \in Nat /\ Len(s.payload) \in Nat /\ Len(<<>>) = 0
      /\ s.payload \in Seq(P) /\ s.queue \in Seq(Seq(P)) /\ Len(s.queue) \in Nat
  <2>1. s.payload \in Seq(P) /\ s.queue \in Seq(Seq(P))
    BY DEF ScanType, Locals
  <2>2. QED
    BY <2>1, LenProperties, EmptySeq
<1>a. s.ret = "none" => /\ Len(s.payload) <= n
                        /\ s.payload = SubSeq(buf, n - Len(s.payload) + 1, n)
  BY DEF Whole
<1>b. \A k \in 1 .. Len(s.queue) : Stood(q, buf, s.queue[k])
  BY DEF Whole
<1>3. <<>> = SubSeq(buf, n + 1 - Len(<<>>) + 1, n + 1)
  <2>1. n + 1 \in Int /\ n + 2 \in Int /\ n + 1 < n + 2 /\ n + 1 - Len(<<>>) + 1 = n + 2
    BY <1>2
  <2>2. SubSeq(buf, n + 2, n + 1) = <<>>
    BY <2>1, SubSeqEmpty
  <2>3. QED
    BY <2>1, <2>2
<1>4. CASE t.queue = s.queue /\ t.ret # "none"
  BY <1>0, <1>4 DEF Whole
<1>5. CASE t.queue = s.queue /\ t.payload = <<>>
  BY <1>0, <1>2, <1>3, <1>5 DEF Whole
<1>6. CASE /\ s.ret = "none" /\ t.queue = s.queue
           /\ t.payload = Append(s.payload, buf[n + 1]) /\ buf[n + 1] \notin Marks
  <2>1. buf[n + 1] \in P
    <3>1. n + 1 \in 1 .. Len(buf)
      BY <1>2
    <3>2. QED
      BY <1>6, <3>1, ElementOfSeq
  <2>2. Len(Append(s.payload, buf[n + 1])) = Len(s.payload) + 1
    BY <1>2, <2>1, AppendProperties
  <2>3. /\ Len(s.payload) <= n /\ s.payload = SubSeq(buf, n - Len(s.payload) + 1, n)
        /\ n - Len(s.payload) + 1 \in 1 .. n + 1
    <3>1. Len(s.payload) <= n /\ s.payload = SubSeq(buf, n - Len(s.payload) + 1, n)
      BY <1>a, <1>6
    <3>2. \A l \in Nat : l <= n => n - l + 1 \in 1 .. n + 1
      OBVIOUS
    <3>3. n - Len(s.payload) + 1 \in 1 .. n + 1
      BY <1>2, <3>1, <3>2, Zenon
    <3>4. QED
      BY <3>1, <3>3
  <2>4. Append(SubSeq(buf, n - Len(s.payload) + 1, n), buf[n + 1])
          = SubSeq(buf, n - Len(s.payload) + 1, n + 1)
    BY <2>3, OneLonger
  <2>5. Len(t.payload) <= n + 1 /\ n + 1 - Len(t.payload) + 1 = n - Len(s.payload) + 1
    BY <1>2, <1>6, <2>2, <2>3
  <2>6. t.payload = SubSeq(buf, n + 1 - Len(t.payload) + 1, n + 1)
    BY <1>6, <2>3, <2>4, <2>5
  <2>7. \A k \in 1 .. Len(t.queue) : Stood(q, buf, t.queue[k])
    BY <1>b, <1>6
  <2>8. QED
    BY <1>0, <2>5, <2>6, <2>7 DEF Whole
<1>7. CASE s.ret = "none" /\ t.queue = Append(s.queue, s.payload) /\ t.payload = <<>>
  <2>1. /\ Len(t.queue) = Len(s.queue) + 1
        /\ \A k \in 1 .. Len(s.queue) : t.queue[k] = s.queue[k]
        /\ t.queue[Len(s.queue) + 1] = s.payload
    BY <1>2, <1>7, AppendProperties
  <2>2. Stood(q, buf, s.payload)
    <3>1. /\ n - Len(s.payload) + 1 \in Nat /\ n - Len(s.payload) + 1 > 0 /\ n <= Len(buf)
          /\ s.payload = SubSeq(buf, n - Len(s.payload) + 1, n)
      <4>1. Len(s.payload) <= n /\ s.payload = SubSeq(buf, n - Len(s.payload) + 1, n)
        BY <1>a, <1>7
      <4>2. \A l \in Nat : l <= n => n - l + 1 \in Nat /\ n - l + 1 > 0 /\ n <= Len(buf)
        BY <1>2
      <4>3. QED
        BY <1>2, <4>1, <4>2, Zenon
    <3>2. QED
      BY <3>1 DEF Stood
  <2>3. \A k \in 1 .. Len(s.queue) + 1 : k \in 1 .. Len(s.queue) \/ k = Len(s.queue) + 1
    BY <1>2
  <2>4. \A k \in 1 .. Len(t.queue) : Stood(q, buf, t.queue[k])
    BY <2>1, <2>2, <2>3, <1>b
  <2>5. QED
    BY <1>0, <1>2, <1>3, <1>7, <2>4 DEF Whole
<1>8. CASE s.ret # "none" /\ t = s
  BY <1>0, <1>8 DEF Whole
<1>9. QED
  BY <1>1, <1>4, <1>5, <1>6, <1>7, <1>8 DEF ByteStep

\* So fs_segment_commands queues nothing that is spliced.
LEMMA SegmentWhole ==
    ASSUME NEW P, NEW q, Queued(P, q), NEW buf \in Seq(P \cup Marks)
    PROVE  Whole(q, buf, Segment(q, buf), Len(buf))
<1> DEFINE S == {n \in 0 .. Len(buf) : Whole(q, buf, Scanned(q, buf, n), n)}
<1>1. Len(buf) \in Nat
  BY LenProperties
<1>2. 0 \in S
  <2>1. Scanned(q, buf, 0) = Scan(q)
    BY Segmentation
  <2>2. Whole(q, buf, Scan(q), 0)
    <3>1. \A k \in 1 .. Len(q) : q[k] \in Range(q)
      BY LenProperties DEF Queued, Range
    <3>2. Len(<<>>) = 0 /\ SubSeq(buf, 0 - Len(<<>>) + 1, 0) = <<>>
      BY EmptySeq, SubSeqEmpty
    <3>3. QED
      BY <3>1, <3>2 DEF Whole, Scan, Stood
  <2>3. QED
    BY <1>1, <2>1, <2>2
<1>3. ASSUME NEW n \in 0 .. Len(buf) - 1, n \in S PROVE n + 1 \in S
  <2>1. n \in Nat /\ n \in 0 .. Len(buf) /\ n + 1 \in 0 .. Len(buf) /\ n + 1 <= Len(buf)
    BY <1>1
  <2>2. PICK s : s = Scanned(q, buf, n)
    OBVIOUS
  <2>3. ScanType(P, s) /\ Whole(q, buf, s, n)
    BY <1>3, <2>1, <2>2, SegmentType
  <2>4. Whole(q, buf, ScanByte(s, buf[n + 1]), n + 1)
    BY <2>1, <2>3, ScanByteWhole
  <2>5. Scanned(q, buf, n + 1) = ScanByte(s, buf[n + 1])
    BY <2>2, Segmentation
  <2>6. QED
    BY <2>1, <2>4, <2>5
<1>4. \A n \in 0 .. Len(buf) : n \in S
  <2> HIDE DEF S
  <2>1. QED
    BY <1>1, <1>2, <1>3, Induction
<1>5. Segment(q, buf) = Scanned(q, buf, Len(buf)) /\ Len(buf) \in 0 .. Len(buf)
  BY <1>1, Segmentation
<1>6. QED
  BY <1>4, <1>5

\* The bytes of a command stand together in one of these.
PartOf(sources, cmd) ==
    \E src \in sources : \E i, j \in 1 .. Len(src) :
        src[i] = Head(cmd) /\ Tail(cmd) = SubSeq(src, i + 1, j)

\* A command that stood together is part of the buffer or of the queue.
LEMMA PartsOfStood ==
    ASSUME NEW P, NEW B, NEW q \in Seq(Seq(P)), NEW buf \in Seq(B),
           NEW cmd \in Seq(P), Stood(q, buf, cmd), cmd # <<>>
    PROVE  PartOf({buf} \cup Range(q), cmd)
<1>1. CASE cmd \in Range(q)
  <2>1. 1 \in 1 .. Len(cmd) /\ Len(cmd) \in 1 .. Len(cmd)
    BY EmptySeq
  <2>2. cmd[1] = Head(cmd) /\ Tail(cmd) = SubSeq(cmd, 1 + 1, Len(cmd))
    BY TailIsSubSeq
  <2>3. QED
    BY <1>1, <2>1, <2>2 DEF PartOf
<1>2. CASE \E i, j \in Nat : i > 0 /\ j <= Len(buf) /\ cmd = SubSeq(buf, i, j)
  <2>1. PICK i \in Nat, j \in Nat : i > 0 /\ j <= Len(buf) /\ cmd = SubSeq(buf, i, j)
    BY <1>2
  <2>2. ~(j < i)
    BY <2>1, SubSeqEmpty
  <2>3. i \in 1 .. Len(buf) /\ j \in 1 .. Len(buf) /\ j \in i .. Len(buf)
    BY <2>1, <2>2, LenProperties
  <2>4. buf[i] = Head(cmd) /\ Tail(cmd) = SubSeq(buf, i + 1, j)
    BY <2>1, <2>3, HeadTailOfSubSeq
  <2>5. QED
    BY <2>3, <2>4 DEF PartOf
<1>3. QED
  BY <1>1, <1>2 DEF Stood

\* Whatever the buffers are, an attribute that a call changes is given bytes that
\* stood together behind its letter, in this buffer or in one queued command.
THEOREM NothingIsSpliced == CommandSpec => []NoSplicedCommand
<1>1. CommandTypeOK => NoSplicedCommand
  <2> SUFFICES ASSUME CommandTypeOK, NEW buf \in Buffers, NEW a \in Attributes,
                      AfterBuffer(commands, device, buf).device[a] # device[a]
               PROVE  \E src \in {buf} \cup Range(commands) : \E i, j \in 1 .. Len(src) :
                        /\ src[i] = a
                        /\ AfterBuffer(commands, device, buf).device[a]
                             = Value(a, SubSeq(src, i + 1, j))
    BY DEF NoSplicedCommand
  <2> DEFINE s == Segment(commands, buf)
  <2>1. /\ Queued(CommandBytes, commands) /\ device \in [Attributes -> Seq(CommandBytes)]
        /\ buf \in Seq(CommandBytes \cup Marks)
    BY Types, BufferType
  <2>2. ScanType(CommandBytes, s) /\ Whole(commands, buf, s, Len(buf))
    BY <2>1, SegmentType, SegmentWhole
  <2>3. s.queue \in Seq(Seq(CommandBytes)) /\ commands \in Seq(Seq(CommandBytes))
    BY <2>1, <2>2 DEF ScanType, Locals, Queued
  <2> HIDE DEF s
  <2>4. AfterBuffer(commands, device, buf).device = AllHandled(device, s.queue)
    <3>1. CASE s.ret # "none"
      BY <3>1, AfterBufferIs DEF s
    <3>2. CASE s.ret = "none"
      BY <3>2, AfterBufferIs DEF s
    <3>3. QED
      BY <3>1, <3>2
  <2>5. Changed(CommandBytes, device, s.queue, AllHandled(device, s.queue), Len(s.queue))
    BY <2>1, <2>3, DrainChanges
  <2>6. PICK k \in 1 .. Len(s.queue) :
          /\ s.queue[k] # <<>> /\ Head(s.queue[k]) = a
          /\ AllHandled(device, s.queue)[a] = Value(a, Tail(s.queue[k]))
    BY <2>4, <2>5 DEF Changed
  <2>7. PICK cmd \in Seq(CommandBytes) : cmd = s.queue[k] /\ Stood(commands, buf, cmd)
    BY <2>2, <2>3, ElementOfSeq DEF Whole
  <2>8. PartOf({buf} \cup Range(commands), cmd)
    <3>1. cmd # <<>>
      BY <2>6, <2>7
    <3>2. QED
      BY <2>1, <2>3, <2>7, <3>1, PartsOfStood
  <2>9. QED
    BY <2>4, <2>6, <2>7, <2>8 DEF PartOf
<1>2. QED
  BY <1>1, TypeCorrect, PTL

-----------------------------------------------------------------------------
(* The reference.                                                          *)

\* The place of the last terminator or line end up to n, and the number of
\* terminators up to n.
LastMark(buf, n)  == Max({0} \cup {i \in 1 .. n : buf[i] \in Marks})
EndsTo(buf, n) == Cardinality({i \in Ends(buf) : i <= n})

\* The last mark, one byte on.
LEMMA LastMarkNext ==
    ASSUME NEW buf, NEW n \in Nat
    PROVE  /\ LastMark(buf, n) \in 0 .. n
           /\ buf[n + 1] \in Marks => LastMark(buf, n + 1) = n + 1
           /\ buf[n + 1] \notin Marks => LastMark(buf, n + 1) = LastMark(buf, n)
<1> DEFINE S(k) == {0} \cup {i \in 1 .. k : buf[i] \in Marks}
<1>1. ASSUME NEW k \in Nat
      PROVE  LastMark(buf, k) \in S(k) /\ \A x \in S(k) : x <= LastMark(buf, k)
  <2> DEFINE T == S(k)
  <2>1. T \in SUBSET (0 .. k) /\ T # {}
    OBVIOUS
  <2>2. LastMark(buf, k) = Max(T)
    BY DEF LastMark
  <2> HIDE DEF T
  <2>3. LastMark(buf, k) \in T /\ \A x \in T : x <= LastMark(buf, k)
    BY <2>1, <2>2, MaxIs
  <2>4. QED
    BY <2>3 DEF T
<1>2. LastMark(buf, n) \in 0 .. n
  BY <1>1
<1>3. LastMark(buf, n + 1) \in S(n + 1) /\ \A x \in S(n + 1) : x <= LastMark(buf, n + 1)
  BY <1>1
<1>4. ASSUME buf[n + 1] \in Marks PROVE LastMark(buf, n + 1) = n + 1
  <2>1. n + 1 \in S(n + 1) /\ \A x \in S(n + 1) : x \in Nat /\ x <= n + 1
    BY <1>4
  <2> HIDE DEF S
  <2>2. /\ LastMark(buf, n + 1) \in Nat
        /\ LastMark(buf, n + 1) <= n + 1 /\ n + 1 <= LastMark(buf, n + 1)
    BY <1>3, <2>1
  <2>3. QED
    BY <2>2
<1>5. ASSUME buf[n + 1] \notin Marks PROVE LastMark(buf, n + 1) = LastMark(buf, n)
  <2>1. {i \in 1 .. n + 1 : buf[i] \in Marks} = {i \in 1 .. n : buf[i] \in Marks}
    <3>1. \A i \in 1 .. n + 1 : i \in 1 .. n \/ i = n + 1
      OBVIOUS
    <3>2. \A i \in 1 .. n : i \in 1 .. n + 1
      OBVIOUS
    <3>3. QED
      BY <1>5, <3>1, <3>2
  <2>2. QED
    BY <2>1 DEF LastMark
<1>6. QED
  BY <1>2, <1>4, <1>5

\* The piece in front of a place, one byte on.
LEMMA PieceNext ==
    ASSUME NEW B, NEW buf \in Seq(B), NEW n \in Nat
    PROVE  /\ Piece(buf, n + 1) = SubSeq(buf, 1 + LastMark(buf, n), n)
           /\ n = 0 \/ buf[n] \in Marks => Piece(buf, n + 1) = <<>>
           /\ n + 1 <= Len(buf) /\ buf[n + 1] \notin Marks =>
                Piece(buf, n + 2) = Append(Piece(buf, n + 1), buf[n + 1])
<1>1. ASSUME NEW k \in Nat PROVE Piece(buf, k + 1) = SubSeq(buf, 1 + LastMark(buf, k), k)
  <2>1. PICK e : e = k + 1 /\ e - 1 = k
    OBVIOUS
  <2>2. Piece(buf, e) = SubSeq(buf, 1 + Max({0} \cup {i \in 1 .. k : buf[i] \in Marks}), k)
    BY <2>1 DEF Piece, Begin, Marks
  <2>3. QED
    BY <2>1, <2>2 DEF LastMark
<1>2. ASSUME n = 0 \/ buf[n] \in Marks PROVE Piece(buf, n + 1) = <<>>
  <2>1. LastMark(buf, n) = n
    <3>1. CASE n = 0
      BY <3>1, LastMarkNext
    <3>2. CASE n # 0
      <4>1. n - 1 \in Nat /\ n - 1 + 1 = n /\ buf[n] \in Marks
        BY <1>2, <3>2
      <4>2. buf[n - 1 + 1] \in Marks => LastMark(buf, n - 1 + 1) = n - 1 + 1
        BY <4>1, LastMarkNext
      <4>3. QED
        BY <4>1, <4>2
    <3>3. QED
      BY <3>1, <3>2
  <2>2. SubSeq(buf, 1 + n, n) = <<>>
    BY SubSeqEmpty
  <2>3. QED
    BY <1>1, <2>1, <2>2
<1>3. ASSUME n + 1 <= Len(buf), buf[n + 1] \notin Marks
      PROVE  Piece(buf, n + 2) = Append(Piece(buf, n + 1), buf[n + 1])
  <2>1. LastMark(buf, n + 1) = LastMark(buf, n) /\ 1 + LastMark(buf, n) \in 1 .. n + 1
    BY <1>3, LastMarkNext
  <2>2. Append(SubSeq(buf, 1 + LastMark(buf, n), n), buf[n + 1])
          = SubSeq(buf, 1 + LastMark(buf, n), n + 1)
    BY <1>3, <2>1, OneLonger
  <2>3. Piece(buf, n + 2) = SubSeq(buf, 1 + LastMark(buf, n + 1), n + 1)
    <3>1. n + 1 \in Nat /\ n + 1 + 1 = n + 2
      OBVIOUS
    <3>2. Piece(buf, n + 1 + 1) = SubSeq(buf, 1 + LastMark(buf, n + 1), n + 1)
      BY <1>1, <3>1
    <3>3. QED
      BY <3>1, <3>2
  <2>4. QED
    BY <1>1, <2>1, <2>2, <2>3
<1>4. QED
  BY <1>1, <1>2, <1>3

\* The number of terminators, one byte on.
LEMMA EndsToNext ==
    ASSUME NEW B, NEW buf \in Seq(B), NEW n \in Nat
    PROVE  /\ EndsTo(buf, n) \in Nat /\ EndsTo(buf, 0) = 0
           /\ EndsTo(buf, n) <= Cardinality(Ends(buf))
           /\ EndsTo(buf, Len(buf)) = Cardinality(Ends(buf))
           /\ n + 1 \in Ends(buf) => EndsTo(buf, n + 1) = EndsTo(buf, n) + 1
           /\ n + 1 \notin Ends(buf) => EndsTo(buf, n + 1) = EndsTo(buf, n)
           /\ \A e \in Ends(buf) : e <= n => EndsTo(buf, e) \in 1 .. EndsTo(buf, n)
<1> DEFINE S(k) == {i \in Ends(buf) : i <= k}
<1>0. Len(buf) \in Nat
  BY LenProperties
<1>1. IsFiniteSet(Ends(buf)) /\ Cardinality(Ends(buf)) \in Nat /\ Ends(buf) \subseteq Nat \ {0}
  <2>1. Ends(buf) \subseteq 1 .. Len(buf)
    BY DEF Ends
  <2>2. IsFiniteSet(1 .. Len(buf))
    BY <1>0, FS_Interval
  <2>3. QED
    BY <2>1, <2>2, FS_Subset, FS_CardinalityType
<1>2. ASSUME NEW k \in Nat
      PROVE  /\ IsFiniteSet(S(k)) /\ EndsTo(buf, k) = Cardinality(S(k)) /\ EndsTo(buf, k) \in Nat
             /\ EndsTo(buf, k) <= Cardinality(Ends(buf))
  <2>1. S(k) \subseteq Ends(buf) /\ EndsTo(buf, k) = Cardinality(S(k))
    BY DEF EndsTo
  <2> HIDE DEF S
  <2>2. QED
    BY <1>1, <2>1, FS_Subset, FS_CardinalityType
<1>3. EndsTo(buf, 0) = 0
  <2>1. S(0) = {}
    BY <1>1
  <2>2. QED
    BY <1>2, <2>1, FS_EmptySet
<1>4. EndsTo(buf, Len(buf)) = Cardinality(Ends(buf))
  <2>1. S(Len(buf)) = Ends(buf)
    BY <1>0 DEF Ends
  <2>2. QED
    BY <1>0, <1>2, <2>1
<1>5. ASSUME NEW k \in Nat, k + 1 \in Ends(buf) PROVE EndsTo(buf, k + 1) = EndsTo(buf, k) + 1
  <2>1. S(k + 1) = S(k) \cup {k + 1} /\ k + 1 \notin S(k)
    BY <1>1, <1>5
  <2>2. k + 1 \in Nat
    OBVIOUS
  <2> HIDE DEF S
  <2>3. QED
    BY <1>2, <2>1, <2>2, FS_AddElement
<1>6. ASSUME n + 1 \notin Ends(buf) PROVE EndsTo(buf, n + 1) = EndsTo(buf, n)
  <2>1. S(n + 1) = S(n) /\ n + 1 \in Nat
    BY <1>1, <1>6
  <2>2. QED
    BY <1>2, <2>1
<1>7. ASSUME NEW e \in Ends(buf), e <= n PROVE EndsTo(buf, e) \in 1 .. EndsTo(buf, n)
  <2>1. e - 1 \in Nat /\ e - 1 + 1 = e /\ e \in Nat
    BY <1>1
  <2>2. EndsTo(buf, e) = EndsTo(buf, e - 1) + 1 /\ EndsTo(buf, e - 1) \in Nat
    BY <1>2, <1>5, <2>1
  <2>3. S(e) \subseteq S(n)
    BY <1>1, <1>7, <2>1
  <2>4. Cardinality(S(e)) <= Cardinality(S(n)) /\ EndsTo(buf, n) \in Nat
    BY <1>2, <2>3, FS_Subset
  <2>5. EndsTo(buf, e) <= EndsTo(buf, n)
    BY <1>2, <2>1, <2>4
  <2>6. QED
    BY <2>2, <2>4, <2>5
<1>8. QED
  BY <1>2, <1>3, <1>4, <1>5, <1>6, <1>7

\* After n bytes of a clean buffer that fits: the queue holds what it held and the
\* pieces in front of the terminators so far, ...
NeatQueue(q, buf, queue, n) ==
    /\ Len(queue) = Len(q) + EndsTo(buf, n)
    /\ \A i \in 1 .. Len(q) : queue[i] = q[i]
    /\ \A e \in Ends(buf) : e <= n => queue[Len(q) + EndsTo(buf, e)] = Piece(buf, e)
    /\ \A m \in 1 .. EndsTo(buf, n) : \E e \in Ends(buf) : e <= n /\ EndsTo(buf, e) = m

\* ... and the payload is the piece in front of the next byte, if there is one.
Neat(q, buf, s, n) ==
    /\ s.ret = "none"
    /\ NeatQueue(q, buf, s.queue, n)
    /\ n < Len(buf) => s.payload = Piece(buf, n + 1) /\ (s.reading <=> s.payload # <<>>)

\* The queue is neat after a byte that does not end a command.
LEMMA NeatQueueSame ==
    ASSUME NEW B, NEW buf \in Seq(B), NEW n \in Nat, n + 1 \notin Ends(buf),
           NEW q, NEW queue, NeatQueue(q, buf, queue, n)
    PROVE  NeatQueue(q, buf, queue, n + 1)
<1>1. EndsTo(buf, n + 1) = EndsTo(buf, n)
  BY EndsToNext
<1>2. \A e \in Ends(buf) : e <= n + 1 <=> e <= n
  <2>1. Ends(buf) \subseteq Nat
    BY LenProperties DEF Ends
  <2>2. QED
    BY <2>1
<1>3. QED
  BY <1>1, <1>2 DEF NeatQueue

\* And after one that does, when its piece was pushed.
LEMMA NeatQueueMore ==
    ASSUME NEW P, NEW B, NEW buf \in Seq(B), NEW n \in Nat, n + 1 \in Ends(buf),
           NEW q \in Seq(Seq(P)), NEW queue \in Seq(Seq(P)), NEW cmd \in Seq(P),
           NeatQueue(q, buf, queue, n), cmd = Piece(buf, n + 1)
    PROVE  NeatQueue(q, buf, Append(queue, cmd), n + 1)
<1>0. PICK new : new = Append(queue, cmd)
  OBVIOUS
<1>1. /\ EndsTo(buf, n) \in Nat /\ EndsTo(buf, n + 1) = EndsTo(buf, n) + 1
      /\ \A e \in Ends(buf) : e <= n => EndsTo(buf, e) \in 1 .. EndsTo(buf, n)
  BY EndsToNext
<1>2. Len(queue) = Len(q) + EndsTo(buf, n) /\ Len(q) \in Nat
  BY LenProperties DEF NeatQueue
<1>3. /\ Len(new) = Len(queue) + 1
      /\ \A i \in 1 .. Len(queue) : new[i] = queue[i]
      /\ new[Len(queue) + 1] = cmd
  BY <1>0, AppendProperties
<1>4. Ends(buf) \subseteq Nat
  BY LenProperties DEF Ends
<1>5. Len(new) = Len(q) + EndsTo(buf, n + 1)
  BY <1>1, <1>2, <1>3
<1>6. ASSUME NEW i \in 1 .. Len(q) PROVE new[i] = q[i]
  <2>1. i \in 1 .. Len(queue)
    BY <1>1, <1>2
  <2>2. QED
    BY <1>3, <2>1 DEF NeatQueue
<1>7. ASSUME NEW e \in Ends(buf), e <= n + 1
      PROVE  new[Len(q) + EndsTo(buf, e)] = Piece(buf, e)
  <2>1. CASE e <= n
    <3>1. Len(q) + EndsTo(buf, e) \in 1 .. Len(queue)
      BY <1>1, <1>2, <2>1
    <3>2. queue[Len(q) + EndsTo(buf, e)] = Piece(buf, e)
      BY <2>1 DEF NeatQueue
    <3>3. QED
      BY <1>3, <3>1, <3>2
  <2>2. CASE e = n + 1
    <3>1. Len(q) + EndsTo(buf, e) = Len(queue) + 1
      BY <1>1, <1>2, <2>2
    <3>2. QED
      BY <1>3, <2>2, <3>1
  <2>3. QED
    BY <1>4, <1>7, <2>1, <2>2
<1>8. ASSUME NEW m \in 1 .. EndsTo(buf, n + 1)
      PROVE  \E e \in Ends(buf) : e <= n + 1 /\ EndsTo(buf, e) = m
  <2>1. CASE m \in 1 .. EndsTo(buf, n)
    <3>1. PICK e \in Ends(buf) : e <= n /\ EndsTo(buf, e) = m
      BY <2>1 DEF NeatQueue
    <3>2. e <= n + 1
      BY <1>4, <3>1
    <3>3. QED
      BY <3>1, <3>2
  <2>2. CASE m = EndsTo(buf, n + 1)
    BY <2>2
  <2>3. QED
    BY <1>1, <2>1, <2>2
<1>9. QED
  BY <1>0, <1>5, <1>6, <1>7, <1>8 DEF NeatQueue

\* The buffer is clean and its commands fit into the queue.
Fits(q, buf) == Clean(buf) /\ Len(q) + Cardinality(Ends(buf)) <= CommandQueueLength

\* A byte of such a buffer keeps the state neat.
LEMMA ScanByteNeat ==
    ASSUME NEW P, NEW q, Queued(P, q), NEW buf \in Seq(P \cup Marks), Fits(q, buf),
           NEW n \in Nat, n + 1 <= Len(buf), NEW s, ScanType(P, s), Neat(q, buf, s, n)
    PROVE  Neat(q, buf, ScanByte(s, buf[n + 1]), n + 1)
<1>0. PICK t : t = ScanByte(s, buf[n + 1])
  OBVIOUS
<1>1. ByteStep(s, buf[n + 1], t)
  BY <1>0, ScanByteSteps DEF ScanType
<1>2. /\ Len(buf) \in Nat /\ n + 1 \in 1 .. Len(buf) /\ n < Len(buf) /\ n + 1 + 1 = n + 2
      /\ q \in Seq(Seq(P)) /\ Len(q) \in Nat
      /\ s.payload \in Seq(P) /\ s.queue \in Seq(Seq(P))
      /\ CommandLength \in Nat /\ CommandQueueLength \in Nat /\ Cardinality(Ends(buf)) \in Nat
  <2>1. q \in Seq(Seq(P)) /\ s.payload \in Seq(P) /\ s.queue \in Seq(Seq(P))
    BY DEF ScanType, Locals, Queued
  <2>2. Len(buf) \in Nat /\ Len(q) \in Nat
    BY <2>1, LenProperties
  <2>3. Cardinality(Ends(buf)) \in Nat
    BY <2>2, EndsToNext
  <2>4. QED
    BY <2>1, <2>2, <2>3, CommandConstants
<1>3. /\ s.ret = "none" /\ NeatQueue(q, buf, s.queue, n)
      /\ s.payload = Piece(buf, n + 1) /\ (s.reading <=> s.payload # <<>>)
  BY <1>2 DEF Neat
<1>4. CASE buf[n + 1] = Terminator
  <2>1. n + 1 \in Ends(buf) /\ buf[n + 1] \in Marks
    BY <1>2, <1>4 DEF Ends, Marks
  <2>2. Len(s.queue) < CommandQueueLength
    <3>1. /\ EndsTo(buf, n) \in Nat /\ EndsTo(buf, n + 1) = EndsTo(buf, n) + 1
          /\ EndsTo(buf, n + 1) <= Cardinality(Ends(buf))
      BY <1>2, <2>1, EndsToNext
    <3>2. Len(s.queue) = Len(q) + EndsTo(buf, n)
      BY <1>3 DEF NeatQueue
    <3>3. Len(q) + Cardinality(Ends(buf)) <= CommandQueueLength
      BY DEF Fits
    <3>4. QED
      BY <1>2, <3>1, <3>2, <3>3
  <2>3. /\ t.queue = Append(s.queue, s.payload) /\ t.payload = <<>> /\ ~t.reading
        /\ t.ret = "none"
    BY <1>1, <1>3, <1>4, <2>1, <2>2 DEF ByteStep, Terminator, LineEnd
  <2>4. NeatQueue(q, buf, t.queue, n + 1)
    BY <1>2, <1>3, <2>1, <2>3, NeatQueueMore
  <2>5. Piece(buf, n + 2) = <<>>
    <3>1. n + 1 \in Nat /\ (n + 1 = 0 \/ buf[n + 1] \in Marks)
      BY <2>1
    <3>2. Piece(buf, n + 1 + 1) = <<>>
      BY <3>1, PieceNext
    <3>3. QED
      BY <1>2, <3>2
  <2>6. QED
    BY <1>0, <1>2, <2>3, <2>4, <2>5 DEF Neat
<1>5. CASE buf[n + 1] = LineEnd
  <2>1. n + 1 \notin Ends(buf) /\ buf[n + 1] \in Marks
    BY <1>5 DEF Ends, Marks, Terminator, LineEnd
  <2>2. Piece(buf, n + 1) = <<>>
    <3>1. n = 0 \/ buf[n] \in Marks
      <4>1. CASE n # 0
        <5>1. n \in 1 .. Len(buf) - 1
          BY <1>2, <4>1
        <5>2. buf[n] \in {LineEnd, Terminator}
          BY <1>5, <5>1 DEF Fits, Clean
        <5>3. QED
          BY <5>2 DEF Marks
      <4>2. QED
        BY <4>1
    <3>2. QED
      BY <3>1, PieceNext
  <2>3. t.queue = s.queue /\ t.payload = <<>> /\ ~t.reading /\ t.ret = "none"
    BY <1>1, <1>3, <1>5, <2>1, <2>2 DEF ByteStep, Terminator, LineEnd
  <2>4. NeatQueue(q, buf, t.queue, n + 1)
    BY <1>3, <2>1, <2>3, NeatQueueSame
  <2>5. Piece(buf, n + 2) = <<>>
    <3>1. n + 1 \in Nat /\ (n + 1 = 0 \/ buf[n + 1] \in Marks)
      BY <2>1
    <3>2. Piece(buf, n + 1 + 1) = <<>>
      BY <3>1, PieceNext
    <3>3. QED
      BY <1>2, <3>2
  <2>6. QED
    BY <1>0, <1>2, <2>3, <2>4, <2>5 DEF Neat
<1>6. CASE buf[n + 1] \notin Marks
  <2>1. n + 1 \notin Ends(buf) /\ buf[n + 1] # Terminator /\ buf[n + 1] # LineEnd
    BY <1>6 DEF Ends, Marks
  <2>2. /\ t.queue = s.queue /\ t.ret = "none" /\ t.reading
        /\ Len(s.payload) < CommandLength - 1 => t.payload = Append(s.payload, buf[n + 1])
    BY <1>1, <1>3, <2>1 DEF ByteStep
  <2>3. NeatQueue(q, buf, t.queue, n + 1)
    BY <1>3, <2>1, <2>2, NeatQueueSame
  <2>4. Piece(buf, n + 2) = Append(s.payload, buf[n + 1])
    BY <1>3, <1>6, PieceNext
  <2>5. /\ Append(s.payload, buf[n + 1]) # <<>>
        /\ Len(Append(s.payload, buf[n + 1])) = Len(s.payload) + 1 /\ Len(s.payload) \in Nat
    <3>1. buf[n + 1] \in P
      BY <1>2, <1>6, ElementOfSeq
    <3>2. /\ Len(Append(s.payload, buf[n + 1])) = Len(s.payload) + 1 /\ Len(s.payload) \in Nat
          /\ Len(<<>>) = 0
      BY <1>2, <3>1, AppendProperties, LenProperties, EmptySeq
    <3>3. Len(s.payload) + 1 # 0
      BY <3>2
    <3>4. QED
      BY <3>2, <3>3, Zenon
  <2>6. ASSUME n + 1 < Len(buf) PROVE t.payload = Append(s.payload, buf[n + 1])
    <3>1. n + 2 \in 1 .. Len(buf)
      BY <1>2, <2>6
    <3>2. Len(Piece(buf, n + 2)) < CommandLength
      BY <3>1 DEF Fits, Clean
    <3>3. Len(s.payload) < CommandLength - 1
      BY <1>2, <2>4, <2>5, <3>2
    <3>4. QED
      BY <2>2, <3>3
  <2>7. QED
    BY <1>0, <1>2, <2>2, <2>3, <2>4, <2>5, <2>6 DEF Neat
<1>7. QED
  BY <1>4, <1>5, <1>6 DEF Marks

\* So fs_segment_commands leaves it neat.
LEMMA SegmentNeat ==
    ASSUME NEW P, NEW q, Queued(P, q), NEW buf \in Seq(P \cup Marks), Fits(q, buf)
    PROVE  Neat(q, buf, Segment(q, buf), Len(buf))
<1> DEFINE S == {n \in 0 .. Len(buf) : Neat(q, buf, Scanned(q, buf, n), n)}
<1>1. Len(buf) \in Nat /\ Len(q) \in Nat
  BY LenProperties DEF Queued
<1>2. 0 \in S
  <2>1. Scanned(q, buf, 0) = Scan(q)
    BY Segmentation
  <2>2. NeatQueue(q, buf, q, 0)
    <3>1. EndsTo(buf, 0) = 0
      BY EndsToNext
    <3>2. \A e \in Ends(buf) : ~(e <= 0)
      BY <1>1 DEF Ends
    <3>3. QED
      BY <1>1, <3>1, <3>2 DEF NeatQueue
  <2>3. Piece(buf, 0 + 1) = <<>>
    BY PieceNext
  <2>4. Neat(q, buf, Scan(q), 0)
    BY <2>2, <2>3 DEF Neat, Scan
  <2>5. QED
    BY <1>1, <2>1, <2>4
<1>3. ASSUME NEW n \in 0 .. Len(buf) - 1, n \in S PROVE n + 1 \in S
  <2>1. n \in Nat /\ n \in 0 .. Len(buf) /\ n + 1 \in 0 .. Len(buf) /\ n + 1 <= Len(buf)
    BY <1>1
  <2>2. PICK s : s = Scanned(q, buf, n)
    OBVIOUS
  <2>3. ScanType(P, s) /\ Neat(q, buf, s, n)
    BY <1>3, <2>1, <2>2, SegmentType
  <2>4. Neat(q, buf, ScanByte(s, buf[n + 1]), n + 1)
    BY <2>1, <2>3, ScanByteNeat
  <2>5. Scanned(q, buf, n + 1) = ScanByte(s, buf[n + 1])
    BY <2>2, Segmentation
  <2>6. QED
    BY <2>1, <2>4, <2>5
<1>4. \A n \in 0 .. Len(buf) : n \in S
  <2> HIDE DEF S
  <2>1. QED
    BY <1>1, <1>2, <1>3, Induction
<1>5. Segment(q, buf) = Scanned(q, buf, Len(buf)) /\ Len(buf) \in 0 .. Len(buf)
  BY <1>1, Segmentation
<1>6. QED
  BY <1>4, <1>5

\* A neat queue is the old queue and the commands of the reference.
LEMMA NeatIsReference ==
    ASSUME NEW P, NEW q \in Seq(Seq(P)), NEW B, NEW buf \in Seq(B),
           NEW queue \in Seq(Seq(P)), NeatQueue(q, buf, queue, Len(buf))
    PROVE  queue = q \o Commands(buf)
<1> DEFINE c == Commands(buf)
           K == Cardinality(Ends(buf))
<1>1. /\ Len(buf) \in Nat /\ Len(q) \in Nat /\ Len(queue) \in Nat
      /\ EndsTo(buf, Len(buf)) = K /\ K \in Nat /\ Len(queue) = Len(q) + K
  <2>1. Len(buf) \in Nat /\ Len(q) \in Nat /\ Len(queue) \in Nat
    BY LenProperties
  <2>2. EndsTo(buf, Len(buf)) = K /\ EndsTo(buf, Len(buf)) \in Nat
    BY <2>1, EndsToNext
  <2>3. QED
    BY <2>1, <2>2 DEF NeatQueue
<1> HIDE DEF K
<1>2. ASSUME NEW m \in 1 .. K PROVE c[m] = queue[Len(q) + m]
  <2>1. c[m] = Piece(buf, CHOOSE e \in Ends(buf) : EndsTo(buf, e) = m)
    BY DEF Commands, EndsTo, K
  <2>2. \E e \in Ends(buf) : EndsTo(buf, e) = m
    BY <1>1 DEF NeatQueue
  <2>3. PICK e \in Ends(buf) : EndsTo(buf, e) = m /\ c[m] = Piece(buf, e)
    BY <2>1, <2>2
  <2>4. e <= Len(buf)
    BY <1>1 DEF Ends
  <2>5. QED
    BY <2>3, <2>4 DEF NeatQueue
<1>3. c = [m \in 1 .. K |-> c[m]]
  BY DEF Commands, K
<1> HIDE DEF c
<1>4. \A m \in 1 .. K : queue[Len(q) + m] \in Seq(P)
  <2> TAKE m \in 1 .. K
  <2>1. Len(q) + m \in 1 .. Len(queue)
    BY <1>1
  <2>2. QED
    BY <2>1, ElementOfSeq
<1>5. c \in Seq(Seq(P)) /\ Len(c) = K
  <2>1. c \in [1 .. K -> Seq(P)]
    BY <1>2, <1>3, <1>4
  <2>2. c \in Seq(Seq(P))
    BY <1>1, <2>1, SeqDef
  <2>3. QED
    BY <1>1, <2>1, <2>2
<1>6. /\ q \o c \in Seq(Seq(P)) /\ Len(q \o c) = Len(q) + K
      /\ \A i \in 1 .. Len(q) + K : (q \o c)[i] = IF i <= Len(q) THEN q[i] ELSE c[i - Len(q)]
  BY <1>5, ConcatProperties
<1>7. ASSUME NEW i \in 1 .. Len(queue) PROVE queue[i] = (q \o c)[i]
  <2>1. CASE i \in 1 .. Len(q)
    <3>1. queue[i] = q[i] /\ i <= Len(q) /\ i \in 1 .. Len(q) + K
      BY <1>1, <2>1 DEF NeatQueue
    <3>2. QED
      BY <1>6, <3>1
  <2>2. CASE i \notin 1 .. Len(q)
    <3>1. /\ i - Len(q) \in 1 .. K /\ Len(q) + (i - Len(q)) = i /\ ~(i <= Len(q))
          /\ i \in 1 .. Len(q) + K
      BY <1>1, <2>2
    <3>2. (q \o c)[i] = c[i - Len(q)] /\ c[i - Len(q)] = queue[i]
      BY <1>2, <1>6, <3>1
    <3>3. QED
      BY <3>2
  <2>3. QED
    BY <2>1, <2>2
<1>8. Len(queue) = Len(q \o c)
  BY <1>1, <1>6
<1>9. queue = q \o c
  BY <1>6, <1>7, <1>8, SeqEqual
<1>10. QED
  BY <1>9 DEF c

\* Whatever the buffers are: a clean one that fits is handled command by command,
\* as the reference cuts it, after what the queue held.
THEOREM BufferMeetsReference == CommandSpec => []CleanBufferMeetsReference
<1>1. CommandTypeOK => CleanBufferMeetsReference
  <2> SUFFICES ASSUME CommandTypeOK, NEW buf \in Buffers, Fits(commands, buf)
               PROVE  AfterBuffer(commands, device, buf) =
                        [commands |-> <<>>,
                         device |-> AllHandled(device, commands \o Commands(buf))]
    BY DEF CleanBufferMeetsReference, Fits, AllHandled
  <2> DEFINE s == Segment(commands, buf)
  <2>1. Queued(CommandBytes, commands) /\ buf \in Seq(CommandBytes \cup Marks)
    BY Types, BufferType
  <2>2. ScanType(CommandBytes, s) /\ Neat(commands, buf, s, Len(buf))
    BY <2>1, SegmentType, SegmentNeat
  <2> HIDE DEF s
  <2>3. /\ s.queue \in Seq(Seq(CommandBytes)) /\ commands \in Seq(Seq(CommandBytes))
        /\ s.ret = "none" /\ NeatQueue(commands, buf, s.queue, Len(buf))
    BY <2>1, <2>2 DEF ScanType, Locals, Queued, Neat
  <2>4. s.queue = commands \o Commands(buf)
    BY <2>1, <2>3, NeatIsReference
  <2>5. QED
    BY <2>3, <2>4, AfterBufferIs DEF s
<1>2. QED
  BY <1>1, TypeCorrect, PTL
=============================================================================
