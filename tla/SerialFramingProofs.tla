------------------------ MODULE SerialFramingProofs ------------------------
(***************************************************************************)
(* Proofs about the serial receive path, for streams of any frames, cut    *)
(* into reads anywhere, and buffers of any length.                         *)
(*                                                                         *)
(* A place in the stream is the number of bytes before it.  What is in     *)
(* data_buffer and on the line are the last bytes of the stream, so a      *)
(* delimiter found in the buffer is one of a frame of the stream.  A       *)
(* buffer handled as commands holds no whole frame, and so the bytes that  *)
(* are collected between two of its terminators are those of one reply.    *)
(***************************************************************************)
EXTENDS SerialFraming, CommandQueueProofs

-----------------------------------------------------------------------------
(* Numbers.                                                                *)

\* The least of some numbers.
LEMMA MinIs ==
    ASSUME NEW S \in SUBSET Nat, S # {}
    PROVE  Min(S) \in S /\ \A x \in S : Min(S) <= x
<1>1. \E x \in S : \A y \in S : x <= y
  BY LeastExists
<1>2. QED
  BY <1>1 DEF Min

-----------------------------------------------------------------------------
(* Sequences put together.                                                 *)

\* The first sequences of s put together, one after the other.
FlatUpto(s, m, f) == f = [i \in 1 .. m |-> IF i = 1 THEN s[i] ELSE f[i - 1] \o s[i]]
Flattening(s, f)  == FlatUpto(s, Len(s), f)

\* Each is the one before with one more sequence.
LEMMA FlattenStep ==
    ASSUME NEW s, NEW m \in Nat, NEW f, FlatUpto(s, m, f), NEW i \in 1 .. m
    PROVE  f[i] = IF i = 1 THEN s[i] ELSE f[i - 1] \o s[i]
<1>1. QED
  BY DEF FlatUpto

\* And so for all of them.
LEMMA FlatteningStep ==
    ASSUME NEW s, Len(s) \in Nat, NEW f, Flattening(s, f), NEW i \in 1 .. Len(s)
    PROVE  f[i] = IF i = 1 THEN s[i] ELSE f[i - 1] \o s[i]
<1>1. QED
  BY FlattenStep DEF Flattening

\* There is one such function.
LEMMA FlatteningExists ==
    ASSUME NEW B, NEW s \in Seq(Seq(B))
    PROVE  \E f : Flattening(s, f)
<1> DEFINE S == {m \in 0 .. Len(s) : \E f : FlatUpto(s, m, f)}
<1>1. Len(s) \in Nat
  BY LenProperties
<1>2. 0 \in S
  <2> DEFINE f == [i \in {} |-> <<>>]
  <2>1. 1 .. 0 = {}
    OBVIOUS
  <2>2. FlatUpto(s, 0, f)
    BY <2>1 DEF FlatUpto
  <2> HIDE DEF f
  <2>3. QED
    BY <1>1, <2>2
<1>3. ASSUME NEW m \in 0 .. Len(s) - 1, m \in S PROVE m + 1 \in S
  <2>1. PICK f : FlatUpto(s, m, f)
    BY <1>3
  <2> DEFINE g == [i \in 1 .. m + 1 |->
                     IF i = 1 THEN s[i]
                     ELSE IF i = m + 1 THEN f[m] \o s[i] ELSE f[i]]
  <2>2. ASSUME NEW i \in 1 .. m + 1
        PROVE  g[i] = IF i = 1 THEN s[i] ELSE g[i - 1] \o s[i]
    <3>1. CASE i = 1
      BY <3>1
    <3>2. CASE i # 1 /\ i = m + 1
      <4>1. m \in 1 .. m /\ m \in 1 .. m + 1 /\ m # m + 1 /\ i - 1 = m
        BY <3>2
      <4>2. f[m] = IF m = 1 THEN s[m] ELSE f[m - 1] \o s[m]
        BY <2>1, <4>1, FlattenStep
      <4>3. g[m] = f[m]
        BY <4>1, <4>2
      <4>4. QED
        BY <3>2, <4>1, <4>3
    <3>3. CASE i # 1 /\ i # m + 1
      <4>1. i \in 1 .. m /\ i - 1 \in 1 .. m /\ i - 1 \in 1 .. m + 1 /\ i - 1 # m + 1
        BY <3>3
      <4>2. f[i] = f[i - 1] \o s[i]
        <5>1. m \in Nat
          BY <1>1
        <5>2. f[i] = IF i = 1 THEN s[i] ELSE f[i - 1] \o s[i]
          BY <2>1, <4>1, <5>1, FlattenStep
        <5>3. QED
          BY <3>3, <5>2
      <4>3. f[i - 1] = g[i - 1]
        <5>1. f[i - 1] = IF i - 1 = 1 THEN s[i - 1] ELSE f[i - 1 - 1] \o s[i - 1]
          BY <2>1, <4>1, FlattenStep, SMTT(30)
        <5>2. QED
          BY <4>1, <5>1
      <4>4. QED
        BY <3>3, <4>1, <4>2, <4>3
    <3>4. QED
      BY <3>1, <3>2, <3>3
  <2>3. g = [i \in 1 .. m + 1 |-> g[i]]
    OBVIOUS
  <2> HIDE DEF g
  <2>4. FlatUpto(s, m + 1, g)
    BY <2>2, <2>3 DEF FlatUpto
  <2>5. m + 1 \in 0 .. Len(s)
    BY <1>1
  <2>6. QED
    BY <2>4, <2>5
<1>4. \A m \in 0 .. Len(s) : m \in S
  <2> HIDE DEF S
  <2>1. QED
    BY <1>1, <1>2, <1>3, Induction
<1>5. Len(s) \in S
  BY <1>1, <1>4
<1>6. QED
  BY <1>5 DEF Flattening

\* FlattenSeq is its last value.
LEMMA FlattenIs ==
    ASSUME NEW B, NEW s \in Seq(Seq(B)), Len(s) # 0
    PROVE  \E f : Flattening(s, f) /\ FlattenSeq(s) = f[Len(s)]
<1>1. PICK f : f = (CHOOSE g : Flattening(s, g))
  OBVIOUS
<1>2. Flattening(s, f)
  BY <1>1, FlatteningExists
<1>3. FlattenSeq(s) = f[Len(s)]
  BY <1>1 DEF FlattenSeq, Flattening, FlatUpto
<1>4. QED
  BY <1>2, <1>3

\* One more sequence is put behind.
LEMMA FlattenAppend ==
    ASSUME NEW B, NEW s \in Seq(Seq(B)), NEW t \in Seq(B)
    PROVE  FlattenSeq(Append(s, t)) = FlattenSeq(s) \o t
<1> DEFINE a == Append(s, t)
<1>1. /\ a \in Seq(Seq(B)) /\ Len(a) = Len(s) + 1 /\ a[Len(s) + 1] = t
      /\ \A i \in 1 .. Len(s) : a[i] = s[i]
      /\ Len(s) \in Nat
  BY AppendProperties, LenProperties
<1> HIDE DEF a
<1>2. Len(a) # 0 /\ Len(a) \in Nat
  BY <1>1
<1>3. PICK f : Flattening(a, f) /\ FlattenSeq(a) = f[Len(a)]
  BY <1>1, <1>2, FlattenIs
<1>4. CASE Len(s) = 0
  <2>1. s = <<>>
    BY <1>4, EmptySeq
  <2>2. FlattenSeq(s) = s
    BY <1>4 DEF FlattenSeq
  <2>3. Len(a) = 1 /\ 1 \in 1 .. Len(a) /\ a[1] = t
    BY <1>1, <1>4
  <2>4. FlattenSeq(a) = t
    BY <1>1, <1>3, <2>3, FlatteningStep
  <2>5. <<>> \o t = t
    BY ConcatEmptySeq
  <2>6. QED
    BY <2>1, <2>2, <2>4, <2>5 DEF a
<1>5. CASE Len(s) # 0
  <2>1. PICK g : Flattening(s, g) /\ FlattenSeq(s) = g[Len(s)]
    BY <1>5, FlattenIs
  <2> DEFINE S == {i \in 0 .. Len(s) : i = 0 \/ f[i] = g[i]}
  <2>2. 0 \in S
    BY <1>1
  <2>3. ASSUME NEW i \in 0 .. Len(s) - 1, i \in S PROVE i + 1 \in S
    <3>1. /\ i + 1 \in 0 .. Len(s) /\ i + 1 \in 1 .. Len(s) /\ i + 1 \in 1 .. Len(a)
          /\ i + 1 - 1 = i /\ (i + 1 = 1 <=> i = 0)
      BY <1>1
    <3>2. f[i + 1] = IF i + 1 = 1 THEN s[i + 1] ELSE f[i] \o s[i + 1]
      <4>1. f[i + 1] = IF i + 1 = 1 THEN a[i + 1] ELSE f[i + 1 - 1] \o a[i + 1]
        BY <1>2, <1>3, <3>1, FlatteningStep
      <4>2. QED
        BY <1>1, <3>1, <4>1
    <3>3. g[i + 1] = IF i + 1 = 1 THEN s[i + 1] ELSE g[i] \o s[i + 1]
      <4>1. g[i + 1] = IF i + 1 = 1 THEN s[i + 1] ELSE g[i + 1 - 1] \o s[i + 1]
        BY <1>1, <2>1, <3>1, FlatteningStep
      <4>2. QED
        BY <3>1, <4>1
    <3>4. QED
      BY <2>3, <3>1, <3>2, <3>3
  <2>4. \A i \in 0 .. Len(s) : i \in S
    <3> HIDE DEF S
    <3>1. QED
      BY <1>1, <2>2, <2>3, Induction
  <2>5. f[Len(s)] = g[Len(s)]
    BY <1>1, <1>5, <2>4
  <2>6. Len(a) \in 1 .. Len(a) /\ Len(a) # 1 /\ Len(a) - 1 = Len(s)
    BY <1>1, <1>5
  <2>7. f[Len(a)] = f[Len(s)] \o t
    <3>1. f[Len(a)] = IF Len(a) = 1 THEN a[Len(a)] ELSE f[Len(a) - 1] \o a[Len(a)]
      BY <1>2, <1>3, <2>6, FlatteningStep
    <3>2. QED
      BY <1>1, <2>6, <3>1
  <2>8. QED
    BY <1>3, <2>1, <2>5, <2>7 DEF a
<1>6. QED
  BY <1>4, <1>5

-----------------------------------------------------------------------------
(* The stream.                                                             *)

\* The first n frames put together, and the place where the last of them ends.
FirstFrames(s, n) == FlattenSeq(SubSeq(s, 1, n))
EndAt(s, n)       == Len(FirstFrames(s, n))

\* One more frame.
LEMMA FirstFramesNext ==
    ASSUME NEW B, NEW s \in Seq(Seq(B)), NEW n \in 0 .. Len(s) - 1
    PROVE  FirstFrames(s, n + 1) = FirstFrames(s, n) \o s[n + 1]
<1>1. Len(s) \in Nat /\ n \in Nat /\ n + 1 \in 1 .. Len(s) /\ n + 1 <= Len(s) /\ 1 \in 1 .. n + 1
  BY LenProperties
<1>2. SubSeq(s, 1, n + 1) = Append(SubSeq(s, 1, n), s[n + 1])
  BY <1>1, OneLonger
<1>3. SubSeq(s, 1, n) \in Seq(Seq(B)) /\ s[n + 1] \in Seq(B)
  <2>1. \A i \in 1 .. n : s[i] \in Seq(B)
    BY <1>1, ElementOfSeq
  <2>2. QED
    BY <1>1, <2>1, SubSeqProperties, ElementOfSeq
<1>4. QED
  BY <1>2, <1>3, FlattenAppend DEF FirstFrames

\* Each of the first n frames stands at its place in flat, and nothing else does.
Placed(s, n, flat) ==
    /\ \A m \in 1 .. n :
         /\ EndAt(s, m - 1) \in Nat /\ EndAt(s, m) = EndAt(s, m - 1) + Len(s[m])
         /\ EndAt(s, m) <= Len(flat)
         /\ \A i \in 1 .. Len(s[m]) : flat[EndAt(s, m - 1) + i] = s[m][i]
    /\ \A x \in 1 .. Len(flat) : \E m \in 1 .. n : EndAt(s, m - 1) < x /\ x <= EndAt(s, m)

\* They do.
LEMMA FramesArePlaced ==
    ASSUME NEW B, NEW s \in Seq(Seq(B))
    PROVE  /\ FlattenSeq(s) \in Seq(B) /\ FirstFrames(s, Len(s)) = FlattenSeq(s)
           /\ FirstFrames(s, 0) = <<>> /\ EndAt(s, 0) = 0
           /\ Placed(s, Len(s), FlattenSeq(s))
<1> DEFINE S == {n \in 0 .. Len(s) :
                   FirstFrames(s, n) \in Seq(B) /\ Placed(s, n, FirstFrames(s, n))}
<1>1. Len(s) \in Nat /\ \A n \in 1 .. Len(s) : s[n] \in Seq(B) /\ Len(s[n]) \in Nat
  BY LenProperties, ElementOfSeq
<1>2. FirstFrames(s, 0) = <<>> /\ EndAt(s, 0) = 0 /\ <<>> \in Seq(B) /\ Len(<<>>) = 0
  <2>1. SubSeq(s, 1, 0) = <<>> /\ Len(<<>>) = 0 /\ <<>> \in Seq(B)
    BY SubSeqEmpty, EmptySeq
  <2>2. FlattenSeq(<<>>) = <<>>
    BY <2>1 DEF FlattenSeq
  <2>3. QED
    BY <2>1, <2>2 DEF FirstFrames, EndAt
<1>3. 0 \in S
  <2>1. Len(FirstFrames(s, 0)) = 0
    BY <1>2
  <2>2. Placed(s, 0, FirstFrames(s, 0))
    BY <2>1 DEF Placed
  <2>3. FirstFrames(s, 0) \in Seq(B)
    BY <1>2, Zenon
  <2>4. 0 \in 0 .. Len(s)
    BY <1>1
  <2>5. QED
    BY <2>2, <2>3, <2>4
<1>4. ASSUME NEW n \in 0 .. Len(s) - 1, n \in S PROVE n + 1 \in S
  <2>0. n \in Nat /\ n + 1 \in 0 .. Len(s) /\ n + 1 \in 1 .. Len(s)
    BY <1>1
  <2>1. PICK f, g, t : f = FirstFrames(s, n) /\ g = FirstFrames(s, n + 1) /\ t = s[n + 1]
    OBVIOUS
  <2>2. f \in Seq(B) /\ Placed(s, n, f) /\ t \in Seq(B)
    BY <1>1, <1>4, <2>0, <2>1
  <2>a. Len(f) \in Nat /\ Len(t) \in Nat
    BY <2>2, LenProperties
  <2>3. g = f \o t
    BY <2>1, FirstFramesNext
  <2>4. /\ g \in Seq(B) /\ Len(g) = Len(f) + Len(t)
        /\ \A i \in 1 .. Len(f) + Len(t) : g[i] = IF i <= Len(f) THEN f[i] ELSE t[i - Len(f)]
    BY <2>2, <2>3, ConcatProperties
  <2>5. EndAt(s, n) = Len(f) /\ EndAt(s, n + 1) = Len(g)
    BY <2>1 DEF EndAt
  <2>6. ASSUME NEW m \in 1 .. n + 1
        PROVE  /\ EndAt(s, m - 1) \in Nat /\ EndAt(s, m) = EndAt(s, m - 1) + Len(s[m])
               /\ EndAt(s, m) <= Len(g)
               /\ \A i \in 1 .. Len(s[m]) : g[EndAt(s, m - 1) + i] = s[m][i]
    <3>1. CASE m \in 1 .. n
      <4>1. /\ EndAt(s, m - 1) \in Nat /\ EndAt(s, m) = EndAt(s, m - 1) + Len(s[m])
            /\ EndAt(s, m) <= Len(f)
            /\ \A i \in 1 .. Len(s[m]) : f[EndAt(s, m - 1) + i] = s[m][i]
        BY <2>2, <3>1 DEF Placed
      <4>2. m \in 1 .. Len(s)
        BY <2>0, <3>1
      <4>3. EndAt(s, m) <= Len(g) /\ Len(s[m]) \in Nat
        BY <1>1, <2>a, <2>4, <4>1, <4>2
      <4>4. ASSUME NEW i \in 1 .. Len(s[m]) PROVE g[EndAt(s, m - 1) + i] = s[m][i]
        <5>1. /\ EndAt(s, m - 1) + i \in 1 .. Len(f) + Len(t)
              /\ EndAt(s, m - 1) + i <= Len(f)
          <6>1. PICK e \in Nat, l \in Nat : e = EndAt(s, m - 1) /\ l = Len(s[m]) /\ e + l <= Len(f)
            BY <4>1, <4>3
          <6>2. i \in 1 .. l
            BY <6>1
          <6>3. e + i \in 1 .. Len(f) + Len(t) /\ e + i <= Len(f)
            BY <2>a, <6>1, <6>2, SMTT(30)
          <6>4. QED
            BY <6>1, <6>3
        <5>2. QED
          BY <2>4, <4>1, <5>1
      <4>5. QED
        BY <4>1, <4>3, <4>4
    <3>2. CASE m = n + 1
      <4>1. m - 1 = n /\ s[m] = t
        BY <2>0, <2>1, <3>2
      <4>2. ASSUME NEW i \in 1 .. Len(t) PROVE g[Len(f) + i] = t[i]
        <5>1. /\ Len(f) + i \in 1 .. Len(f) + Len(t) /\ ~(Len(f) + i <= Len(f))
              /\ Len(f) + i - Len(f) = i
          BY <2>a
        <5>2. QED
          BY <2>4, <5>1
      <4>3. EndAt(s, m - 1) = Len(f) /\ EndAt(s, m) = Len(g)
        BY <2>5, <3>2, <4>1
      <4>4. /\ EndAt(s, m - 1) \in Nat /\ EndAt(s, m) = EndAt(s, m - 1) + Len(s[m])
            /\ EndAt(s, m) <= Len(g)
        BY <2>4, <2>a, <4>1, <4>3
      <4>5. ASSUME NEW i \in 1 .. Len(s[m]) PROVE g[EndAt(s, m - 1) + i] = s[m][i]
        BY <4>1, <4>2, <4>3
      <4>6. QED
        BY <4>4, <4>5
    <3>3. QED
      BY <2>0, <3>1, <3>2
  <2>7. ASSUME NEW x \in 1 .. Len(g)
        PROVE  \E m \in 1 .. n + 1 : EndAt(s, m - 1) < x /\ x <= EndAt(s, m)
    <3>1. CASE x <= Len(f)
      <4>1. x \in 1 .. Len(f)
        BY <2>a, <3>1
      <4>2. PICK m \in 1 .. n : EndAt(s, m - 1) < x /\ x <= EndAt(s, m)
        BY <2>2, <4>1 DEF Placed
      <4>3. m \in 1 .. n + 1
        BY <2>0
      <4>4. QED
        BY <4>2, <4>3
    <3>2. CASE ~(x <= Len(f))
      <4>1. n + 1 \in 1 .. n + 1 /\ n + 1 - 1 = n /\ Len(f) < x /\ x <= Len(g)
        BY <2>0, <2>a, <2>4, <3>2
      <4>2. EndAt(s, n + 1 - 1) < x /\ x <= EndAt(s, n + 1)
        BY <2>5, <4>1
      <4>3. QED
        BY <4>1, <4>2
    <3>3. QED
      BY <3>1, <3>2
  <2>8. Placed(s, n + 1, g)
    BY <2>6, <2>7 DEF Placed
  <2>9. QED
    BY <2>0, <2>1, <2>4, <2>8
<1>5. \A n \in 0 .. Len(s) : n \in S
  <2> HIDE DEF S
  <2>1. QED
    BY <1>1, <1>3, <1>4, Induction
<1>6. Len(s) \in S
  BY <1>1, <1>5
<1>7. FirstFrames(s, Len(s)) = FlattenSeq(s)
  BY SubSeqFull DEF FirstFrames
<1>8. QED
  BY <1>2, <1>6, <1>7

-----------------------------------------------------------------------------
(* fs_scan_delimiters.                                                     *)

\* The first of some places.
LEMMA FirstOfIs ==
    ASSUME NEW S \in SUBSET (Nat \ {0})
    PROVE  /\ S = {} => FirstOf(S) = 0
           /\ S # {} => FirstOf(S) \in S /\ FirstOf(S) # 0 /\ \A x \in S : FirstOf(S) <= x
<1>1. CASE S = {}
  BY <1>1 DEF FirstOf
<1>2. CASE S # {}
  <2>1. FirstOf(S) = Min(S)
    BY <1>2 DEF FirstOf
  <2>2. S \in SUBSET Nat
    OBVIOUS
  <2>3. Min(S) \in S /\ \A x \in S : Min(S) <= x
    BY <1>2, <2>2, MinIs
  <2>4. QED
    BY <1>2, <2>1, <2>3
<1>3. QED
  BY <1>1, <1>2

\* The last of them.
LEMMA LastOfIs ==
    ASSUME NEW m \in Nat, NEW S \in SUBSET (1 .. m)
    PROVE  /\ S = {} => LastOf(S) = 0
           /\ S # {} => LastOf(S) \in S /\ LastOf(S) # 0 /\ \A x \in S : x <= LastOf(S)
<1>1. CASE S = {}
  BY <1>1 DEF LastOf
<1>2. CASE S # {}
  <2>1. LastOf(S) = Max(S)
    BY <1>2 DEF LastOf
  <2>2. S \in SUBSET (0 .. m)
    OBVIOUS
  <2>3. Max(S) \in S /\ \A x \in S : x <= Max(S)
    BY <1>2, <2>2, MaxIs
  <2>4. \A x \in S : x # 0
    OBVIOUS
  <2>5. QED
    BY <1>2, <2>1, <2>3, <2>4
<1>3. QED
  BY <1>1, <1>2

\* The first footer.
FirstFooter(buf) == FirstOf(Positions(buf, Footer))

\* A header is found in front of the first footer if there is one, and then it is
\* the nearest one.
LEMMA HeaderIs ==
    ASSUME NEW B, NEW buf \in Seq(B), NEW c
    PROVE  /\ HeaderIndex(buf, c) # 0 /\ FirstFooter(buf) > HeaderIndex(buf, c) =>
                /\ HeaderIndex(buf, c) \in 1 .. Len(buf) /\ buf[HeaderIndex(buf, c)] = c
                /\ FirstFooter(buf) \in 1 .. Len(buf) /\ buf[FirstFooter(buf)] = Footer
                /\ \A x \in 1 .. FirstFooter(buf) - 1 : buf[x] # Footer
           /\ \A x \in 1 .. Len(buf) : buf[x] = c /\ x < FirstFooter(buf) =>
                HeaderIndex(buf, c) # 0 /\ FirstFooter(buf) > HeaderIndex(buf, c)
<1> DEFINE P(d) == Positions(buf, d)
           F == {f \in P(Footer) : \E h \in P(c) : h < f}
           H(f) == {h \in P(c) : h < f}
           e == FirstFooter(buf)
<1>0. Len(buf) \in Nat
  BY LenProperties
<1>1. /\ \A d : P(d) \in SUBSET (1 .. Len(buf)) /\ P(d) \in SUBSET (Nat \ {0})
      /\ \A d : \A x \in 1 .. Len(buf) : x \in P(d) <=> buf[x] = d
  BY <1>0 DEF Positions
<1>2. HeaderIndex(buf, c) = LastOf(H(FirstOf(F)))
  BY DEF HeaderIndex
<1>3. /\ F \in SUBSET P(Footer) /\ \A f \in P(Footer) : f \in F <=> \E h \in P(c) : h < f
      /\ \A f : H(f) \in SUBSET P(c) /\ \A h \in P(c) : h \in H(f) <=> h < f
  OBVIOUS
<1>4. e = FirstOf(P(Footer))
  BY DEF FirstFooter
<1> HIDE DEF P, F, H, e
<1>5. F \in SUBSET (Nat \ {0}) /\ \A f : H(f) \in SUBSET (1 .. Len(buf))
  BY <1>1, <1>3
<1>6. ASSUME NEW x \in P(c), x < e
      PROVE  FirstOf(F) = e /\ e \in P(Footer) /\ x \in H(e)
  <2>1. P(Footer) # {}
    <3>1. CASE P(Footer) = {}
      <4>1. e = 0
        BY <1>1, <1>4, <3>1, FirstOfIs
      <4>2. QED
        BY <1>1, <1>6, <4>1
    <3>2. QED
      BY <3>1
  <2>2. e \in P(Footer) /\ \A f \in P(Footer) : e <= f
    BY <1>1, <1>4, <2>1, FirstOfIs
  <2>3. e \in F
    BY <1>3, <1>6, <2>2
  <2>4. FirstOf(F) \in F /\ FirstOf(F) <= e
    BY <1>5, <2>3, FirstOfIs
  <2>5. e <= FirstOf(F) /\ e \in Nat /\ FirstOf(F) \in Nat
    BY <1>1, <1>3, <2>2, <2>4
  <2>6. FirstOf(F) = e
    BY <2>4, <2>5
  <2>7. QED
    BY <1>3, <1>6, <2>2, <2>6
<1>7. ASSUME NEW x \in P(c), x < e
      PROVE  LastOf(H(e)) \in H(e) /\ LastOf(H(e)) # 0
  <2>1. H(e) # {}
    BY <1>6, <1>7
  <2>2. QED
    BY <1>0, <1>5, <2>1, LastOfIs
<1>8. ASSUME NEW x \in 1 .. Len(buf), buf[x] = c, x < e
      PROVE  HeaderIndex(buf, c) # 0 /\ e > HeaderIndex(buf, c)
  <2>1. x \in P(c)
    BY <1>1, <1>8
  <2>2. HeaderIndex(buf, c) = LastOf(H(e)) /\ LastOf(H(e)) \in H(e) /\ LastOf(H(e)) # 0
    BY <1>2, <1>6, <1>7, <1>8, <2>1
  <2>3. LastOf(H(e)) \in P(c) /\ LastOf(H(e)) < e
    BY <1>3, <2>2
  <2>4. LastOf(H(e)) \in Nat /\ e \in Nat
    BY <1>1, <1>6, <1>8, <2>1, <2>3
  <2>5. QED
    BY <2>2, <2>3, <2>4
<1>9. ASSUME HeaderIndex(buf, c) # 0, e > HeaderIndex(buf, c)
      PROVE  /\ HeaderIndex(buf, c) \in 1 .. Len(buf) /\ buf[HeaderIndex(buf, c)] = c
             /\ e \in 1 .. Len(buf) /\ buf[e] = Footer
             /\ \A x \in 1 .. e - 1 : buf[x] # Footer
  <2>1. H(FirstOf(F)) # {}
    BY <1>0, <1>2, <1>5, <1>9, LastOfIs
  <2>2. HeaderIndex(buf, c) \in H(FirstOf(F))
    BY <1>0, <1>2, <1>5, <2>1, LastOfIs
  <2>3. HeaderIndex(buf, c) \in P(c)
    BY <1>3, <2>2
  <2>4. HeaderIndex(buf, c) < e
    <3>1. HeaderIndex(buf, c) \in Nat
      BY <1>1, <2>3
    <3>2. P(Footer) # {} \/ e = 0
      BY <1>1, <1>4, FirstOfIs
    <3>3. e \in Nat
      <4>1. CASE P(Footer) # {}
        <5>1. e \in P(Footer)
          BY <1>1, <1>4, <4>1, FirstOfIs
        <5>2. QED
          BY <1>1, <5>1
      <4>2. QED
        BY <3>2, <4>1
    <3>4. QED
      BY <1>9, <3>1, <3>3
  <2>5. e \in P(Footer)
    BY <1>6, <2>3, <2>4
  <2>6. \A f \in P(Footer) : e <= f
    BY <1>1, <1>4, <2>5, FirstOfIs
  <2>7. e \in 1 .. Len(buf) /\ buf[e] = Footer
    BY <1>1, <2>5
  <2>8. ASSUME NEW x \in 1 .. e - 1 PROVE buf[x] # Footer
    <3>1. x \in 1 .. Len(buf) /\ ~(e <= x)
      BY <1>0, <2>7
    <3>2. QED
      BY <1>1, <2>6, <3>1
  <2>9. QED
    BY <1>1, <2>3, <2>7, <2>8
<1>10. QED
  BY <1>8, <1>9 DEF e

-----------------------------------------------------------------------------
(* Frames in the buffer.                                                   *)

\* A frame with packets, or text.  The line may have lost all of a text.
IsFrame(f) == Len(f) \in Nat /\ (HasPackets(f) \/ TextFrame(f))

\* A stream is made of them.
IsStream(B, s) == s \in Seq(Seq(B)) /\ \A n \in 1 .. Len(s) : IsFrame(s[n])

\* Delimiters stand first or last in a frame.
LEMMA DelimiterPlaces ==
    ASSUME NEW f, IsFrame(f), NEW i \in 1 .. Len(f)
    PROVE  /\ f[i] = Header => i = 1 /\ Base64Frame(f)
           /\ f[i] = HeaderV2 => i = 1 /\ BinaryFrame(f)
           /\ f[i] = Footer => i = Len(f) /\ HasPackets(f)
           /\ f[i] = Terminator => i = Len(f) /\ ~HasPackets(f)
<1>0. Len(f) \in Nat /\ i \in Nat
  BY DEF IsFrame
<1>1. /\ Delimiters = {Header, HeaderV2, Footer, Terminator}
      /\ Header # HeaderV2 /\ Header # Footer /\ Header # Terminator /\ HeaderV2 # Footer
      /\ HeaderV2 # Terminator /\ Footer # Terminator
  BY DEF Delimiters, Header, HeaderV2, Footer, Terminator
<1>2. CASE Base64Frame(f)
  <2>1. /\ Len(f) = 4 /\ f[1] = Header /\ f[4] = Footer
        /\ f[2] \notin Delimiters /\ f[3] \notin Delimiters
    BY <1>2, StreamConstants DEF Base64Frame
  <2>2. i = 1 \/ i = 2 \/ i = 3 \/ i = 4
    BY <1>0, <2>1
  <2>3. QED
    BY <1>1, <1>2, <2>1, <2>2 DEF HasPackets
<1>3. CASE BinaryFrame(f)
  <2>1. /\ Len(f) > 2 /\ f[1] = HeaderV2 /\ f[Len(f)] = Footer
        /\ \A x \in 2 .. Len(f) - 1 : f[x] \notin Delimiters
    BY <1>3 DEF BinaryFrame, Plain
  <2>2. i = 1 \/ i = Len(f) \/ i \in 2 .. Len(f) - 1
    BY <1>0
  <2>3. Len(f) # 1
    BY <2>1
  <2>4. QED
    BY <1>1, <1>3, <2>1, <2>2, <2>3 DEF HasPackets
<1>4. CASE TextFrame(f)
  <2>1. f[i] \notin {Header, HeaderV2, Footer} /\ (f[i] = Terminator => i = Len(f))
    BY <1>4 DEF TextFrame
  <2>2. f[1] \notin {Header, HeaderV2}
    <3>1. 1 \in 1 .. Len(f)
      BY <1>0
    <3>2. QED
      BY <1>4, <3>1 DEF TextFrame
  <2>3. ~HasPackets(f)
    BY <2>2 DEF HasPackets, Base64Frame, BinaryFrame
  <2>4. QED
    BY <2>1, <2>3
<1>5. QED
  BY <1>2, <1>3, <1>4 DEF IsFrame, HasPackets

\* A frame that holds packets begins with a header and ends with a footer.
LEMMA PacketFrameEnds ==
    ASSUME NEW f, IsFrame(f), HasPackets(f)
    PROVE  /\ f[1] \in {Header, HeaderV2} /\ f[Len(f)] = Footer /\ Len(f) > 2
           /\ 1 \in 1 .. Len(f) /\ Len(f) \in 1 .. Len(f)
<1>1. f[1] \in {Header, HeaderV2} /\ f[Len(f)] = Footer /\ Len(f) > 2
  BY DEF HasPackets, Base64Frame, BinaryFrame
<1>2. QED
  BY <1>1 DEF IsFrame

\* It is not empty.
LEMMA PacketsTakeBytes ==
    ASSUME NEW f, HasPackets(f)
    PROVE  Len(f) # 0
<1>1. QED
  BY DEF HasPackets, Base64Frame, BinaryFrame

\* The buffer holds the bytes of the stream behind place p.
Window(s, p, buf) ==
    /\ p \in Nat /\ p + Len(buf) <= Len(FlattenSeq(s))
    /\ \A i \in 1 .. Len(buf) : buf[i] = FlattenSeq(s)[p + i]

\* Ends of frames, in order.
LEMMA EndsInOrder ==
    ASSUME NEW B, NEW s, IsStream(B, s)
    PROVE  /\ \A n \in 0 .. Len(s) : EndAt(s, n) \in Nat /\ EndAt(s, n) <= Len(FlattenSeq(s))
           /\ EndAt(s, 0) = 0 /\ EndAt(s, Len(s)) = Len(FlattenSeq(s))
           /\ \A n \in 0 .. Len(s) : \A m \in 0 .. n : EndAt(s, m) <= EndAt(s, n)
<1>1. /\ s \in Seq(Seq(B)) /\ Len(s) \in Nat /\ FlattenSeq(s) \in Seq(B)
      /\ Len(FlattenSeq(s)) \in Nat
      /\ \A n \in 1 .. Len(s) : Len(s[n]) \in Nat
  BY FramesArePlaced, LenProperties DEF IsStream, IsFrame
<1>2. Placed(s, Len(s), FlattenSeq(s)) /\ EndAt(s, 0) = 0
  BY <1>1, FramesArePlaced
<1>3. EndAt(s, Len(s)) = Len(FlattenSeq(s))
  BY <1>1, FramesArePlaced DEF EndAt
<1>4. ASSUME NEW n \in 1 .. Len(s)
      PROVE  /\ EndAt(s, n - 1) \in Nat /\ EndAt(s, n) \in Nat
             /\ EndAt(s, n) <= Len(FlattenSeq(s)) /\ EndAt(s, n - 1) <= EndAt(s, n)
  <2>1. /\ EndAt(s, n - 1) \in Nat /\ EndAt(s, n) = EndAt(s, n - 1) + Len(s[n])
        /\ EndAt(s, n) <= Len(FlattenSeq(s)) /\ Len(s[n]) \in Nat
    BY <1>1, <1>2 DEF Placed
  <2>2. QED
    BY <2>1
<1>5. ASSUME NEW n \in 0 .. Len(s)
      PROVE  EndAt(s, n) \in Nat /\ EndAt(s, n) <= Len(FlattenSeq(s))
  <2>1. n = 0 \/ n \in 1 .. Len(s)
    BY <1>1
  <2>2. QED
    BY <1>1, <1>2, <1>4, <2>1
<1> DEFINE S == {n \in 0 .. Len(s) : \A m \in 0 .. n : EndAt(s, m) <= EndAt(s, n)}
<1>6. 0 \in S
  <2>1. 0 \in 0 .. Len(s) /\ \A m \in 0 .. 0 : m = 0
    BY <1>1
  <2>2. EndAt(s, 0) <= EndAt(s, 0)
    BY <1>2
  <2>3. QED
    BY <2>1, <2>2
<1>7. ASSUME NEW n \in 0 .. Len(s) - 1, n \in S PROVE n + 1 \in S
  <2>1. n + 1 \in 1 .. Len(s) /\ n + 1 \in 0 .. Len(s) /\ n + 1 - 1 = n /\ n \in 0 .. Len(s)
    BY <1>1
  <2>2. EndAt(s, n) <= EndAt(s, n + 1) /\ EndAt(s, n) \in Nat /\ EndAt(s, n + 1) \in Nat
    BY <1>4, <2>1
  <2>3. ASSUME NEW m \in 0 .. n + 1 PROVE EndAt(s, m) <= EndAt(s, n + 1)
    <3>1. m = n + 1 \/ (m \in 0 .. n /\ m \in 0 .. Len(s))
      BY <1>1
    <3>2. CASE m \in 0 .. n /\ m \in 0 .. Len(s)
      <4>1. EndAt(s, m) <= EndAt(s, n) /\ EndAt(s, m) \in Nat
        BY <1>5, <1>7, <3>2
      <4>2. QED
        BY <2>2, <4>1
    <3>3. QED
      BY <2>2, <3>1, <3>2
  <2>4. QED
    BY <2>1, <2>3
<1>8. \A n \in 0 .. Len(s) : n \in S
  <2> HIDE DEF S
  <2>1. QED
    BY <1>1, <1>6, <1>7, Induction
<1>9. QED
  BY <1>2, <1>3, <1>5, <1>8

\* All the frames put together.
LEMMA WholeStream ==
    ASSUME NEW B, NEW s, IsStream(B, s)
    PROVE  Len(s) \in Nat /\ FlattenSeq(s) \in Seq(B) /\ Len(FlattenSeq(s)) \in Nat
<1>1. QED
  BY FramesArePlaced, LenProperties DEF IsStream

\* A frame that is not empty ends behind those in front of it.
LEMMA EndsApart ==
    ASSUME NEW B, NEW s, IsStream(B, s), NEW n \in 1 .. Len(s), Len(s[n]) # 0,
           NEW m \in 0 .. n - 1
    PROVE  EndAt(s, m) < EndAt(s, n)
<1>1. Len(s) \in Nat /\ Placed(s, Len(s), FlattenSeq(s)) /\ Len(s[n]) \in Nat
  BY FramesArePlaced, LenProperties DEF IsStream, IsFrame
<1>2. EndAt(s, n - 1) \in Nat /\ EndAt(s, n) = EndAt(s, n - 1) + Len(s[n])
  BY <1>1 DEF Placed
<1>3. EndAt(s, m) \in Nat /\ EndAt(s, m) <= EndAt(s, n - 1)
  <2>1. m \in 0 .. Len(s) /\ n - 1 \in 0 .. Len(s)
    BY <1>1
  <2>2. QED
    BY <2>1, EndsInOrder
<1>4. QED
  BY <1>1, <1>2, <1>3

\* Byte x of the stream belongs to frame n.
InFrame(s, n, x) ==
    /\ EndAt(s, n - 1) < x /\ x <= EndAt(s, n)
    /\ x - EndAt(s, n - 1) \in 1 .. Len(s[n])
    /\ FlattenSeq(s)[x] = s[n][x - EndAt(s, n - 1)]

\* Every byte belongs to one.
LEMMA FrameOfByte ==
    ASSUME NEW B, NEW s, IsStream(B, s), NEW x \in 1 .. Len(FlattenSeq(s))
    PROVE  \E n \in 1 .. Len(s) : InFrame(s, n, x)
<1>1. s \in Seq(Seq(B)) /\ Len(s) \in Nat /\ \A n \in 1 .. Len(s) : Len(s[n]) \in Nat
  BY LenProperties DEF IsStream, IsFrame
<1>2. Placed(s, Len(s), FlattenSeq(s)) /\ Len(FlattenSeq(s)) \in Nat
  BY <1>1, FramesArePlaced, LenProperties
<1>3. PICK n \in 1 .. Len(s) : EndAt(s, n - 1) < x /\ x <= EndAt(s, n)
  BY <1>2 DEF Placed
<1>4. PICK a \in Nat, l \in Nat :
        /\ a = EndAt(s, n - 1) /\ l = Len(s[n]) /\ EndAt(s, n) = a + l
        /\ \A i \in 1 .. l : FlattenSeq(s)[a + i] = s[n][i]
  BY <1>1, <1>2, <1>3 DEF Placed
<1>5. x - a \in 1 .. l /\ a + (x - a) = x
  BY <1>2, <1>3, <1>4
<1>6. FlattenSeq(s)[x] = s[n][x - a]
  BY <1>4, <1>5
<1>7. QED
  BY <1>3, <1>4, <1>5, <1>6 DEF InFrame

\* And the place of a byte of a frame.
LEMMA ByteOfFrame ==
    ASSUME NEW B, NEW s, IsStream(B, s), NEW n \in 1 .. Len(s)
    PROVE  /\ EndAt(s, n) = EndAt(s, n - 1) + Len(s[n])
           /\ \A i \in 1 .. Len(s[n]) : FlattenSeq(s)[EndAt(s, n - 1) + i] = s[n][i]
<1>1. Placed(s, Len(s), FlattenSeq(s))
  BY FramesArePlaced DEF IsStream
<1>2. QED
  BY <1>1 DEF Placed

\* A delimiter that ends a frame, somewhere in the buffer.
LEMMA EndOfFrame ==
    ASSUME NEW B, NEW s, IsStream(B, s), NEW p, NEW C, NEW buf \in Seq(C), Window(s, p, buf),
           NEW e \in 1 .. Len(buf), buf[e] \in {Footer, Terminator}
    PROVE  \E n \in 1 .. Len(s) :
             /\ p + e = EndAt(s, n)
             /\ buf[e] = Footer => HasPackets(s[n])
             /\ buf[e] = Terminator => ~HasPackets(s[n]) /\ Len(s[n]) # 0
             /\ buf[e] = s[n][Len(s[n])]
<1>1. /\ p \in Nat /\ p + e \in 1 .. Len(FlattenSeq(s)) /\ buf[e] = FlattenSeq(s)[p + e]
  <2>1. Len(FlattenSeq(s)) \in Nat /\ Len(buf) \in Nat
    BY EndsInOrder, FramesArePlaced, LenProperties DEF IsStream
  <2>2. QED
    BY <2>1 DEF Window
<1>a. PICK x \in 1 .. Len(FlattenSeq(s)) : x = p + e
  BY <1>1
<1>2. PICK n \in 1 .. Len(s) : InFrame(s, n, x)
  BY FrameOfByte
<1>3. IsFrame(s[n])
  BY DEF IsStream
<1>4. PICK i \in 1 .. Len(s[n]) : i = x - EndAt(s, n - 1) /\ buf[e] = s[n][i]
  BY <1>1, <1>a, <1>2 DEF InFrame
<1>5. /\ i = Len(s[n])
      /\ s[n][i] = Footer => HasPackets(s[n])
      /\ s[n][i] = Terminator => ~HasPackets(s[n]) /\ Len(s[n]) # 0
  BY <1>3, <1>4, DelimiterPlaces
<1>6. p + e = EndAt(s, n)
  <2>1. EndAt(s, n) = EndAt(s, n - 1) + Len(s[n])
    BY ByteOfFrame
  <2>2. EndAt(s, n - 1) \in Nat /\ Len(s[n]) \in Nat
    <3>1. n - 1 \in 0 .. Len(s)
      BY LenProperties DEF IsStream
    <3>2. QED
      BY <1>3, <3>1, EndsInOrder DEF IsFrame
  <2>3. QED
    BY <1>1, <1>a, <1>4, <1>5, <2>1, <2>2
<1>7. QED
  BY <1>4, <1>5, <1>6

\* What the scanner takes for a frame is one: from its header to its footer.
LEMMA FrameFound ==
    ASSUME NEW B, NEW s, IsStream(B, s), NEW p, NEW C, NEW buf \in Seq(C), Window(s, p, buf),
           NEW c \in {Header, HeaderV2}, HeaderIndex(buf, c) # 0,
           FirstFooter(buf) > HeaderIndex(buf, c)
    PROVE  \E n \in 1 .. Len(s) :
             /\ p + HeaderIndex(buf, c) = EndAt(s, n - 1) + 1
             /\ p + FirstFooter(buf) = EndAt(s, n)
             /\ s[n][1] = c /\ HasPackets(s[n])
<1>1. PICK h, e : h = HeaderIndex(buf, c) /\ e = FirstFooter(buf)
  OBVIOUS
<1>2. /\ h \in 1 .. Len(buf) /\ buf[h] = c /\ e \in 1 .. Len(buf) /\ buf[e] = Footer /\ h < e
      /\ \A x \in 1 .. e - 1 : buf[x] # Footer
  <2>1. /\ h \in 1 .. Len(buf) /\ buf[h] = c /\ e \in 1 .. Len(buf) /\ buf[e] = Footer
        /\ \A x \in 1 .. e - 1 : buf[x] # Footer
    BY <1>1, HeaderIs
  <2>2. Len(buf) \in Nat /\ e > h
    BY <1>1, LenProperties
  <2>3. QED
    BY <2>1, <2>2
<1>3. /\ p \in Nat /\ Len(buf) \in Nat /\ Len(FlattenSeq(s)) \in Nat
      /\ p + h \in 1 .. Len(FlattenSeq(s)) /\ p + e \in 1 .. Len(FlattenSeq(s))
      /\ buf[h] = FlattenSeq(s)[p + h] /\ buf[e] = FlattenSeq(s)[p + e]
  <2>1. Len(FlattenSeq(s)) \in Nat /\ Len(buf) \in Nat
    BY FramesArePlaced, LenProperties DEF IsStream
  <2>2. QED
    BY <1>2, <2>1 DEF Window
<1>a. PICK x \in 1 .. Len(FlattenSeq(s)) : x = p + h
  BY <1>3
<1>4. PICK n \in 1 .. Len(s) : InFrame(s, n, x)
  BY FrameOfByte
<1>5. /\ EndAt(s, n - 1) \in Nat /\ Len(s[n]) \in Nat /\ IsFrame(s[n])
      /\ EndAt(s, n) = EndAt(s, n - 1) + Len(s[n])
      /\ \A i \in 1 .. Len(s[n]) : FlattenSeq(s)[EndAt(s, n - 1) + i] = s[n][i]
  <2>1. n - 1 \in 0 .. Len(s)
    BY LenProperties DEF IsStream
  <2>2. EndAt(s, n - 1) \in Nat
    BY <2>1, EndsInOrder
  <2>3. IsFrame(s[n]) /\ Len(s[n]) \in Nat
    BY DEF IsStream, IsFrame
  <2>4. QED
    BY <2>2, <2>3, ByteOfFrame
<1>6. PICK a \in Nat, l \in Nat : a = EndAt(s, n - 1) /\ l = Len(s[n])
  BY <1>5
<1>7. p + h = a + 1 /\ s[n][1] = c /\ HasPackets(s[n])
  <2>1. PICK i \in 1 .. l : i = x - a /\ s[n][i] = c
    BY <1>2, <1>3, <1>a, <1>4, <1>6 DEF InFrame
  <2>2. i = 1 /\ HasPackets(s[n])
    BY <1>5, <1>6, <2>1, DelimiterPlaces DEF HasPackets
  <2>3. QED
    BY <1>2, <1>3, <1>a, <1>6, <2>1, <2>2
<1>8. s[n][l] = Footer /\ l \in 1 .. l /\ l > 2
  BY <1>5, <1>6, <1>7, PacketFrameEnds
<1>9. p + e <= a + l
  <2> SUFFICES ASSUME ~(p + e <= a + l) PROVE FALSE
    OBVIOUS
  <2>1. PICK y \in 1 .. e - 1 : p + y = a + l
    <3>1. a + l - p \in 1 .. e - 1 /\ p + (a + l - p) = a + l
      BY <1>2, <1>3, <1>7, <1>8
    <3>2. QED
      BY <3>1
  <2>2. y \in 1 .. Len(buf)
    BY <1>2, <1>3
  <2>3. buf[y] = FlattenSeq(s)[a + l]
    BY <2>1, <2>2 DEF Window
  <2>4. FlattenSeq(s)[a + l] = Footer
    BY <1>5, <1>6, <1>8
  <2>5. QED
    BY <1>2, <2>1, <2>3, <2>4
<1>10. p + e = a + l
  <2>1. PICK i \in 1 .. l : p + e = a + i
    <3>1. e \in Nat /\ h \in Nat /\ p \in Nat /\ h < e
      BY <1>2, <1>3
    <3>2. p + e - a \in 1 .. l /\ a + (p + e - a) = p + e
      BY <1>7, <1>9, <3>1
    <3>3. QED
      BY <3>2
  <2>2. s[n][i] = Footer
    BY <1>2, <1>3, <1>5, <1>6, <2>1
  <2>3. i = l
    BY <1>5, <1>6, <2>1, <2>2, DelimiterPlaces
  <2>4. QED
    BY <2>1, <2>3
<1>11. QED
  BY <1>1, <1>5, <1>6, <1>7, <1>10

\* When the buffer starts where a frame does, what is popped up to the first footer
\* holds no other packets.
LEMMA NothingBetween ==
    ASSUME NEW B, NEW s, IsStream(B, s), NEW k \in 0 .. Len(s), NEW C, NEW buf \in Seq(C),
           Window(s, EndAt(s, k), buf), NEW n \in 1 .. Len(s), HasPackets(s[n]),
           NEW e \in 1 .. Len(buf), EndAt(s, k) + e = EndAt(s, n),
           \A x \in 1 .. e - 1 : buf[x] # Footer
    PROVE  k < n /\ \A m \in k + 1 .. n - 1 : ~HasPackets(s[m])
<1>1. Len(s) \in Nat /\ Len(buf) \in Nat
  BY LenProperties DEF IsStream
<1>2. EndAt(s, k) \in Nat /\ EndAt(s, n) \in Nat
  <2>1. n \in 0 .. Len(s)
    BY <1>1
  <2>2. QED
    BY <2>1, EndsInOrder
<1>3. k < n
  <2> SUFFICES ASSUME ~(k < n) PROVE FALSE
    OBVIOUS
  <2>1. n \in 0 .. k
    BY <1>1
  <2>2. EndAt(s, n) <= EndAt(s, k)
    BY <2>1, EndsInOrder
  <2>3. QED
    BY <1>2, <2>2
<1>4. ASSUME NEW m \in k + 1 .. n - 1, HasPackets(s[m]) PROVE FALSE
  <2>1. /\ m \in 1 .. Len(s) /\ m \in 0 .. Len(s) /\ n \in 0 .. Len(s)
        /\ k \in 0 .. m - 1 /\ m \in 0 .. n - 1
    BY <1>1
  <2>2. EndAt(s, k) < EndAt(s, m) /\ EndAt(s, m) < EndAt(s, n) /\ EndAt(s, m) \in Nat
    <3>1. Len(s[m]) # 0 /\ Len(s[n]) # 0
      BY <1>4, PacketsTakeBytes
    <3>2. QED
      BY <2>1, <3>1, EndsInOrder, EndsApart
  <2>3. PICK x \in 1 .. e - 1 : EndAt(s, k) + x = EndAt(s, m)
    <3>1. /\ EndAt(s, m) - EndAt(s, k) \in 1 .. e - 1
          /\ EndAt(s, k) + (EndAt(s, m) - EndAt(s, k)) = EndAt(s, m)
      BY <1>2, <2>2
    <3>2. QED
      BY <3>1
  <2>4. x \in 1 .. Len(buf)
    BY <1>1
  <2>5. buf[x] = FlattenSeq(s)[EndAt(s, m)]
    BY <2>3, <2>4 DEF Window
  <2>6. FlattenSeq(s)[EndAt(s, m)] = Footer
    <3>1. IsFrame(s[m])
      BY <2>1 DEF IsStream
    <3>2. s[m][Len(s[m])] = Footer /\ Len(s[m]) \in 1 .. Len(s[m])
      BY <1>4, <3>1, PacketFrameEnds
    <3>3. /\ EndAt(s, m) = EndAt(s, m - 1) + Len(s[m])
          /\ FlattenSeq(s)[EndAt(s, m - 1) + Len(s[m])] = s[m][Len(s[m])]
      <4>1. /\ EndAt(s, m) = EndAt(s, m - 1) + Len(s[m])
            /\ \A i \in 1 .. Len(s[m]) : FlattenSeq(s)[EndAt(s, m - 1) + i] = s[m][i]
        BY <2>1, ByteOfFrame
      <4>2. QED
        BY <3>2, <4>1, Zenon
    <3>4. QED
      BY <3>2, <3>3
  <2>7. QED
    BY <2>5, <2>6
<1>5. QED
  BY <1>3, <1>4

\* The scanner finds a frame in the buffer.
FrameSeen(buf) ==
    \E c \in {Header, HeaderV2} : HeaderIndex(buf, c) # 0 /\ FirstFooter(buf) > HeaderIndex(buf, c)

\* It does when a whole one is in the buffer, and the buffer starts where a frame does.
LEMMA WholeFrameIsSeen ==
    ASSUME NEW B, NEW s, IsStream(B, s), NEW k \in 0 .. Len(s), NEW C, NEW buf \in Seq(C),
           Window(s, EndAt(s, k), buf), NEW m \in k + 1 .. Len(s), HasPackets(s[m]),
           EndAt(s, m) <= EndAt(s, k) + Len(buf)
    PROVE  FrameSeen(buf)
<1> DEFINE T == {j \in k + 1 .. Len(s) : HasPackets(s[j])}
           e == FirstFooter(buf)
<1>1. Len(s) \in Nat /\ Len(buf) \in Nat
  BY LenProperties DEF IsStream
<1>2. PICK j \in T : \A i \in T : j <= i
  <2>1. T \in SUBSET Nat /\ m \in T
    BY <1>1
  <2> HIDE DEF T
  <2>2. QED
    BY <2>1, LeastExists
<1>3. /\ j \in k + 1 .. Len(s) /\ j \in 1 .. Len(s) /\ j \in 0 .. Len(s) /\ j - 1 \in 0 .. Len(s)
      /\ j <= m /\ j \in 0 .. m /\ m \in 0 .. Len(s) /\ k \in 0 .. j - 1 /\ HasPackets(s[j])
  BY <1>1, <1>2
<1>4. PICK a \in Nat, b \in Nat, p \in Nat, l \in Nat :
        /\ a = EndAt(s, j - 1) /\ b = EndAt(s, j) /\ p = EndAt(s, k) /\ l = Len(s[j])
        /\ p <= a /\ b = a + l /\ b <= p + Len(buf) /\ l > 2
  <2>1. EndAt(s, j - 1) \in Nat /\ EndAt(s, j) \in Nat /\ EndAt(s, k) \in Nat
    BY <1>3, EndsInOrder
  <2>2. EndAt(s, k) <= EndAt(s, j - 1) /\ EndAt(s, j) <= EndAt(s, m) /\ EndAt(s, m) \in Nat
    BY <1>3, EndsInOrder
  <2>3. EndAt(s, j) = EndAt(s, j - 1) + Len(s[j])
    BY <1>3, ByteOfFrame
  <2>4. IsFrame(s[j])
    BY <1>3 DEF IsStream
  <2>5. Len(s[j]) \in Nat /\ Len(s[j]) > 2
    BY <1>3, <2>4, PacketFrameEnds DEF IsFrame
  <2>6. EndAt(s, j) <= EndAt(s, k) + Len(buf)
    BY <1>1, <2>1, <2>2
  <2>7. QED
    BY <2>1, <2>2, <2>3, <2>5, <2>6
<1>a. p <= a /\ b = a + l /\ b <= p + Len(buf) /\ l > 2
  BY <1>4
<1>5. s[j][1] \in {Header, HeaderV2} /\ s[j][l] = Footer /\ 1 \in 1 .. l /\ l \in 1 .. l
  <2>1. IsFrame(s[j])
    BY <1>3 DEF IsStream
  <2>2. QED
    BY <1>3, <1>4, <2>1, PacketFrameEnds
<1>6. PICK x \in 1 .. Len(buf), y \in 1 .. Len(buf) :
        p + x = a + 1 /\ p + y = b /\ buf[x] = s[j][1] /\ buf[y] = Footer
  <2>1. PICK x \in 1 .. Len(buf), y \in 1 .. Len(buf) : p + x = a + 1 /\ p + y = b
    <3>1. /\ a + 1 - p \in 1 .. Len(buf) /\ p + (a + 1 - p) = a + 1
          /\ b - p \in 1 .. Len(buf) /\ p + (b - p) = b
      BY <1>1, <1>a
    <3>2. QED
      BY <3>1
  <2>2. buf[x] = FlattenSeq(s)[a + 1] /\ buf[y] = FlattenSeq(s)[b]
    BY <1>4, <2>1 DEF Window
  <2>3. \A i \in 1 .. l : FlattenSeq(s)[a + i] = s[j][i]
    <3>1. \A i \in 1 .. Len(s[j]) : FlattenSeq(s)[EndAt(s, j - 1) + i] = s[j][i]
      BY <1>3, ByteOfFrame
    <3>2. QED
      BY <1>4, <3>1
  <2>4. FlattenSeq(s)[a + 1] = s[j][1] /\ FlattenSeq(s)[b] = Footer
    BY <1>4, <1>5, <2>3
  <2>5. QED
    BY <2>1, <2>2, <2>4
<1>7. e \in 1 .. Len(buf) /\ buf[e] = Footer /\ e <= y
  <2> DEFINE P == Positions(buf, Footer)
  <2>1. P \in SUBSET (Nat \ {0}) /\ y \in P
    BY <1>1, <1>6 DEF Positions
  <2>2. \A i \in P : i \in 1 .. Len(buf) /\ buf[i] = Footer
    BY DEF Positions
  <2>3. e = FirstOf(P)
    BY DEF FirstFooter
  <2> HIDE DEF P, e
  <2>4. e \in P /\ e <= y
    BY <2>1, <2>3, FirstOfIs
  <2>5. QED
    BY <2>2, <2>4
<1> HIDE DEF e
<1>8. x < e
  <2> SUFFICES ASSUME ~(x < e) PROVE FALSE
    OBVIOUS
  <2>1. PICK n \in 1 .. Len(s) : p + e = EndAt(s, n) /\ HasPackets(s[n])
    <3>1. buf[e] \in {Footer, Terminator} /\ Window(s, p, buf)
      BY <1>4, <1>7
    <3>2. QED
      BY <1>7, <3>1, EndOfFrame
  <2>2. n \in 0 .. Len(s) /\ EndAt(s, n) \in Nat
    <3>1. n \in 0 .. Len(s)
      BY <1>1
    <3>2. QED
      BY <3>1, EndsInOrder
  <2>3. n \in k + 1 .. Len(s)
    <3>1. CASE n \in 0 .. k
      <4>1. EndAt(s, n) <= EndAt(s, k)
        BY <3>1, EndsInOrder
      <4>2. QED
        BY <1>4, <1>7, <2>1, <4>1, SMTT(30)
    <3>2. QED
      BY <1>1, <2>2, <3>1
  <2>4. j \in 0 .. n
    BY <1>2, <1>3, <2>1, <2>3
  <2>5. b <= EndAt(s, n)
    BY <1>4, <2>2, <2>4, EndsInOrder
  <2>6. b <= p + e /\ e \in Nat /\ x \in Nat /\ p + x = a + 1 /\ ~(x < e)
    BY <1>6, <1>7, <2>1, <2>5
  <2>7. QED
    BY <1>a, <2>6
<1>9. QED
  BY <1>5, <1>6, <1>8, HeaderIs DEF FrameSeen, e

-----------------------------------------------------------------------------
(* Packets.                                                                *)

\* Equal parts of two sequences.
LEMMA SamePart ==
    ASSUME NEW B, NEW a \in Seq(B), NEW C, NEW b \in Seq(C), NEW x \in Nat, NEW y \in Nat,
           NEW k \in Nat, x + k <= Len(a), y + k <= Len(b),
           \A i \in 1 .. k : a[x + i] = b[y + i]
    PROVE  SubSeq(a, x + 1, x + k) = SubSeq(b, y + 1, y + k)
<1> DEFINE D == B \cup C
<1>1. Len(a) \in Nat /\ Len(b) \in Nat
  BY LenProperties
<1>2. ASSUME NEW q \in Nat, NEW d, \A i \in q + 1 .. q + k : d[i] \in D
      PROVE  /\ SubSeq(d, q + 1, q + k) \in Seq(D) /\ Len(SubSeq(d, q + 1, q + k)) = k
             /\ \A i \in 1 .. k : SubSeq(d, q + 1, q + k)[i] = d[q + i]
  <2> HIDE DEF D
  <2>1. PICK m \in Int, n \in Int : m = q + 1 /\ n = q + k
    OBVIOUS
  <2>2. /\ SubSeq(d, m, n) \in Seq(D)
        /\ Len(SubSeq(d, m, n)) = IF m <= n THEN n - m + 1 ELSE 0
        /\ \A i \in 1 .. n - m + 1 : SubSeq(d, m, n)[i] = d[m + i - 1]
    BY <1>2, <2>1, SubSeqProperties
  <2>3. (IF m <= n THEN n - m + 1 ELSE 0) = k /\ n - m + 1 = k
    BY <2>1
  <2>4. \A i \in 1 .. k : m + i - 1 = q + i
    BY <2>1
  <2>5. QED
    BY <2>1, <2>2, <2>3, <2>4
<1>3. \A i \in x + 1 .. x + k : a[i] \in D
  <2> TAKE i \in x + 1 .. x + k
  <2>1. i \in 1 .. Len(a)
    BY <1>1
  <2>2. QED
    BY <2>1, ElementOfSeq
<1>4. \A i \in y + 1 .. y + k : b[i] \in D
  <2> TAKE i \in y + 1 .. y + k
  <2>1. i \in 1 .. Len(b)
    BY <1>1
  <2>2. QED
    BY <2>1, ElementOfSeq
<1> HIDE DEF D
<1>5. PICK u \in Seq(D), v \in Seq(D) :
        /\ u = SubSeq(a, x + 1, x + k) /\ v = SubSeq(b, y + 1, y + k) /\ Len(u) = k /\ Len(v) = k
        /\ \A i \in 1 .. k : u[i] = a[x + i]
        /\ \A i \in 1 .. k : v[i] = b[y + i]
  <2>1. /\ SubSeq(a, x + 1, x + k) \in Seq(D) /\ Len(SubSeq(a, x + 1, x + k)) = k
        /\ \A i \in 1 .. k : SubSeq(a, x + 1, x + k)[i] = a[x + i]
    BY <1>2, <1>3
  <2>2. /\ SubSeq(b, y + 1, y + k) \in Seq(D) /\ Len(SubSeq(b, y + 1, y + k)) = k
        /\ \A i \in 1 .. k : SubSeq(b, y + 1, y + k)[i] = b[y + i]
    BY <1>2, <1>4
  <2>3. QED
    BY <2>1, <2>2
<1>6. \A i \in 1 .. Len(u) : u[i] = v[i]
  BY <1>5
<1>7. u = v
  BY <1>5, <1>6, SeqEqual
<1>8. QED
  BY <1>5, <1>7

\* segment_packets returns pairs of bytes.
LEMMA SegmentPacketsType ==
    ASSUME NEW B, NEW body \in Seq(B)
    PROVE  SegmentPackets(body) \in Seq(B \X B)
<1> DEFINE whole(n) == \A i \in 1 .. n : 2 * i <= Len(body) /\ body[2 * i - 1] \in TypeBytes
           S == {n \in 0 .. Len(body) : whole(n)}
           count == Max(S)
<1>1. Len(body) \in Nat
  BY LenProperties
<1>2. count \in S
  <2>1. S \in SUBSET (0 .. Len(body)) /\ 0 \in S
    BY <1>1
  <2> HIDE DEF S
  <2>2. QED
    BY <1>1, <2>1, MaxIs
<1>3. SegmentPackets(body) = [i \in 1 .. count |-> <<body[2 * i - 1], body[2 * i]>>]
  BY DEF SegmentPackets
<1> HIDE DEF count
<1>4. ASSUME NEW i \in 1 .. count PROVE <<body[2 * i - 1], body[2 * i]>> \in B \X B
  <2>1. 2 * i - 1 \in 1 .. Len(body) /\ 2 * i \in 1 .. Len(body)
    BY <1>1, <1>2
  <2>2. body[2 * i - 1] \in B /\ body[2 * i] \in B
    BY <2>1, ElementOfSeq
  <2>3. QED
    BY <2>2
<1>5. SegmentPackets(body) \in [1 .. count -> B \X B] /\ count \in Nat
  BY <1>1, <1>2, <1>3, <1>4
<1>6. QED
  BY <1>5, SeqDef

\* The first two bytes of a sequence of at least two.
LEMMA FirstTwo ==
    ASSUME NEW B, NEW d, NEW x \in Nat, d[x] \in B, d[x + 1] \in B
    PROVE  SubSeq(d, x, x + 1) = <<d[x], d[x + 1]>>
<1>1. \A i \in x .. x + 1 : d[i] \in B
  <2>1. \A i \in x .. x + 1 : i = x \/ i = x + 1
    OBVIOUS
  <2>2. QED
    BY <2>1
<1>2. PICK u : u = SubSeq(d, x, x + 1)
  OBVIOUS
<1>3. /\ u \in Seq(B) /\ Len(u) = IF x <= x + 1 THEN x + 1 - x + 1 ELSE 0
      /\ \A i \in 1 .. x + 1 - x + 1 : u[i] = d[x + i - 1]
  BY <1>1, <1>2, SubSeqProperties
<1>4. Len(u) = 2 /\ u[1] = d[x] /\ u[2] = d[x + 1]
  <2>1. (IF x <= x + 1 THEN x + 1 - x + 1 ELSE 0) = 2 /\ x + 1 - x + 1 = 2
        /\ 1 \in 1 .. 2 /\ 2 \in 1 .. 2 /\ x + 1 - 1 = x /\ x + 2 - 1 = x + 1
    OBVIOUS
  <2>2. u[1] = d[x + 1 - 1] /\ u[2] = d[x + 2 - 1]
    BY <1>3, <2>1
  <2>3. QED
    BY <1>3, <2>1, <2>2
<1>5. PICK v : v = <<d[x], d[x + 1]>>
  OBVIOUS
<1>6. v \in Seq(B) /\ Len(v) = 2 /\ v[1] = d[x] /\ v[2] = d[x + 1]
  BY <1>5
<1>7. \A i \in 1 .. Len(u) : u[i] = v[i]
  <2>1. \A i \in 1 .. 2 : i = 1 \/ i = 2
    OBVIOUS
  <2>2. QED
    BY <1>4, <1>6, <2>1
<1>8. u = v
  BY <1>3, <1>4, <1>6, <1>7, SeqEqual
<1>9. QED
  BY <1>2, <1>5, <1>8

\* The packets of a frame.
LEMMA PacketsOfFrame ==
    ASSUME NEW B, NEW f \in Seq(B), IsFrame(f)
    PROVE  /\ PacketsOf(f) \in Seq(B \X B)
           /\ ~HasPackets(f) => PacketsOf(f) = <<>>
           /\ Base64Frame(f) => PacketsOf(f) = <<<<f[2], f[3]>>>>
           /\ BinaryFrame(f) => PacketsOf(f) = SegmentPackets(SubSeq(f, 2, Len(f) - 2))
<1>1. Len(f) \in Nat
  BY DEF IsFrame
<1>2. ~(Base64Frame(f) /\ BinaryFrame(f))
  BY DEF Base64Frame, BinaryFrame, Header, HeaderV2
<1>3. CASE Base64Frame(f)
  <2>1. PacketsOf(f) = <<SubSeq(f, 2, 3)>>
    BY <1>3 DEF PacketsOf
  <2>2. Len(f) = 4
    BY <1>3 DEF Base64Frame
  <2>3. 2 \in 1 .. Len(f) /\ 3 \in 1 .. Len(f)
    BY <2>2
  <2>4. f[2] \in B /\ f[3] \in B
    BY <2>3, ElementOfSeq
  <2>5. SubSeq(f, 2, 3) = <<f[2], f[3]>>
    <3>1. 2 \in Nat /\ 2 + 1 = 3
      OBVIOUS
    <3>2. f[2 + 1] \in B
      BY <2>4, <3>1
    <3>3. SubSeq(f, 2, 2 + 1) = <<f[2], f[2 + 1]>>
      BY <2>4, <3>1, <3>2, FirstTwo
    <3>4. QED
      BY <3>1, <3>3
  <2>6. PacketsOf(f) = <<<<f[2], f[3]>>>>
    BY <2>1, <2>5
  <2>7. <<<<f[2], f[3]>>>> \in Seq(B \X B)
    BY <2>4
  <2>8. HasPackets(f)
    BY <1>3 DEF HasPackets
  <2>9. QED
    BY <1>2, <1>3, <2>6, <2>7, <2>8
<1>4. CASE BinaryFrame(f)
  <2>1. HasPackets(f)
    BY <1>4 DEF HasPackets
  <2>3. PacketsOf(f) = SegmentPackets(SubSeq(f, 2, Len(f) - 2))
    BY <1>2, <1>4 DEF PacketsOf
  <2>4. SubSeq(f, 2, Len(f) - 2) \in Seq(B)
    <3>1. \A i \in 2 .. Len(f) - 2 : i \in 1 .. Len(f)
      BY <1>1
    <3>2. \A i \in 2 .. Len(f) - 2 : f[i] \in B
      BY <3>1, ElementOfSeq
    <3>3. 2 \in Int /\ Len(f) - 2 \in Int
      BY <1>1
    <3>4. QED
      BY <3>2, <3>3, SubSeqProperties
  <2>5. PacketsOf(f) \in Seq(B \X B)
    BY <2>3, <2>4, SegmentPacketsType
  <2>6. QED
    BY <1>2, <1>4, <2>1, <2>3, <2>5
<1>5. CASE ~HasPackets(f)
  <2>1. PacketsOf(f) = <<>> /\ ~Base64Frame(f) /\ ~BinaryFrame(f)
    BY <1>5 DEF PacketsOf, HasPackets
  <2>2. <<>> \in Seq(B \X B)
    BY EmptySeq
  <2>3. PacketsOf(f) \in Seq(B \X B)
    BY <2>1, <2>2, Zenon
  <2>4. QED
    BY <1>5, <2>1, <2>3
<1>6. QED
  BY <1>3, <1>4, <1>5 DEF HasPackets

\* The packets of the first n frames of the stream.
Sent(s, n) == FlattenSeq([k \in 1 .. n |-> PacketsOf(s[k])])

\* They are those of the first frames with those of one more.
LEMMA SentNext ==
    ASSUME NEW B, NEW s, IsStream(B, s)
    PROVE  /\ Sent(s, 0) = <<>>
           /\ \A n \in 0 .. Len(s) : Sent(s, n) \in Seq(B \X B)
           /\ \A n \in 1 .. Len(s) : Sent(s, n) = Sent(s, n - 1) \o PacketsOf(s[n])
<1> DEFINE g(n) == [k \in 1 .. n |-> PacketsOf(s[k])]
<1>1. /\ s \in Seq(Seq(B)) /\ Len(s) \in Nat
      /\ \A n \in 1 .. Len(s) : IsFrame(s[n]) /\ s[n] \in Seq(B)
  BY LenProperties, ElementOfSeq DEF IsStream
<1>2. ASSUME NEW n \in 1 .. Len(s) PROVE PacketsOf(s[n]) \in Seq(B \X B)
  BY <1>1, PacketsOfFrame
<1>3. ASSUME NEW n \in 0 .. Len(s)
      PROVE  g(n) \in Seq(Seq(B \X B)) /\ Len(g(n)) = n /\ FlattenSeq(g(n)) \in Seq(B \X B)
  <2>1. n \in Nat /\ \A k \in 1 .. n : k \in 1 .. Len(s)
    BY <1>1
  <2>2. g(n) \in [1 .. n -> Seq(B \X B)]
    BY <1>2, <2>1
  <2> HIDE DEF g
  <2>3. g(n) \in Seq(Seq(B \X B))
    BY <2>1, <2>2, SeqDef
  <2>4. Len(g(n)) = n
    <3>1. DOMAIN g(n) = 1 .. n /\ DOMAIN g(n) = 1 .. Len(g(n)) /\ Len(g(n)) \in Nat
      BY <2>2, <2>3, LenProperties
    <3>2. QED
      BY <2>1, <3>1
  <2>5. QED
    BY <2>3, <2>4, FramesArePlaced
<1>4. ASSUME NEW n \in 1 .. Len(s) PROVE g(n) = Append(g(n - 1), PacketsOf(s[n]))
  <2>1. n \in 0 .. Len(s) /\ n - 1 \in 0 .. Len(s) /\ n - 1 \in Nat /\ n - 1 + 1 = n
    BY <1>1
  <2>2. PICK a, b, t : a = g(n - 1) /\ b = g(n) /\ t = PacketsOf(s[n])
    OBVIOUS
  <2>3. /\ a \in Seq(Seq(B \X B)) /\ Len(a) = n - 1 /\ b \in Seq(Seq(B \X B)) /\ Len(b) = n
        /\ t \in Seq(B \X B)
    BY <1>2, <1>3, <2>1, <2>2
  <2>4. /\ Append(a, t) \in Seq(Seq(B \X B)) /\ Len(Append(a, t)) = n
        /\ Append(a, t)[n] = t /\ \A i \in 1 .. n - 1 : Append(a, t)[i] = a[i]
    <3>1. /\ Append(a, t) \in Seq(Seq(B \X B)) /\ Len(Append(a, t)) = Len(a) + 1
          /\ \A i \in 1 .. Len(a) : Append(a, t)[i] = a[i]
          /\ Append(a, t)[Len(a) + 1] = t
      BY <2>3, AppendProperties
    <3>2. QED
      BY <2>1, <2>3, <3>1
  <2>5. b[n] = t /\ \A i \in 1 .. n - 1 : b[i] = a[i]
    BY <2>2
  <2>6. \A i \in 1 .. n : i = n \/ i \in 1 .. n - 1
    BY <2>1
  <2>7. \A i \in 1 .. n : b[i] = Append(a, t)[i]
    BY <2>4, <2>5, <2>6
  <2>8. b = Append(a, t)
    BY <2>3, <2>4, <2>7, SeqEqual
  <2>9. QED
    BY <2>2, <2>8
<1>5. Sent(s, 0) = <<>>
  <2>1. g(0) \in Seq(Seq(B \X B)) /\ Len(g(0)) = 0
    BY <1>1, <1>3
  <2>2. g(0) = <<>>
    BY <2>1, EmptySeq
  <2>3. FlattenSeq(g(0)) = g(0)
    BY <2>1 DEF FlattenSeq
  <2>4. Sent(s, 0) = FlattenSeq(g(0))
    BY DEF Sent
  <2>5. QED
    BY <2>2, <2>3, <2>4
<1>6. \A n : Sent(s, n) = FlattenSeq(g(n))
  BY DEF Sent
<1> HIDE DEF g
<1>7. ASSUME NEW n \in 1 .. Len(s) PROVE Sent(s, n) = Sent(s, n - 1) \o PacketsOf(s[n])
  <2>1. n - 1 \in 0 .. Len(s)
    BY <1>1
  <2>2. FlattenSeq(Append(g(n - 1), PacketsOf(s[n]))) = FlattenSeq(g(n - 1)) \o PacketsOf(s[n])
    BY <1>2, <1>3, <2>1, FlattenAppend
  <2>3. QED
    BY <1>4, <1>6, <2>2
<1>8. QED
  BY <1>3, <1>5, <1>6, <1>7

\* Frames without packets add none.
LEMMA SentSkip ==
    ASSUME NEW B, NEW s, IsStream(B, s), NEW k \in 0 .. Len(s), NEW n \in k .. Len(s),
           \A m \in k + 1 .. n : ~HasPackets(s[m])
    PROVE  Sent(s, n) = Sent(s, k)
<1> DEFINE S == {d \in 0 .. n - k : Sent(s, k + d) = Sent(s, k)}
<1>1. Len(s) \in Nat /\ n - k \in Nat
  BY LenProperties DEF IsStream
<1>2. 0 \in S
  BY <1>1
<1>3. ASSUME NEW d \in 0 .. n - k - 1, d \in S PROVE d + 1 \in S
  <2>1. PICK x \in 0 .. Len(s), y \in 1 .. Len(s) :
          x = k + d /\ y = k + d + 1 /\ y - 1 = x /\ k + (d + 1) = y
    BY <1>1
  <2>2. y \in k + 1 .. n /\ d + 1 \in 0 .. n - k
    BY <1>1, <2>1
  <2>3. PacketsOf(s[y]) = <<>>
    <3>1. IsFrame(s[y]) /\ s[y] \in Seq(B)
      BY ElementOfSeq DEF IsStream
    <3>2. QED
      BY <2>2, <3>1, PacketsOfFrame
  <2>4. Sent(s, y) = Sent(s, x) \o PacketsOf(s[y])
    <3>1. Sent(s, y) = Sent(s, y - 1) \o PacketsOf(s[y])
      BY SentNext
    <3>2. QED
      BY <2>1, <3>1
  <2>5. Sent(s, x) \o <<>> = Sent(s, x)
    <3>1. Sent(s, x) \in Seq(B \X B)
      BY SentNext
    <3>2. QED
      BY <3>1, ConcatEmptySeq
  <2>6. Sent(s, y) = Sent(s, x)
    BY <2>3, <2>4, <2>5
  <2>7. QED
    BY <1>3, <2>1, <2>2, <2>6
<1>4. \A d \in 0 .. n - k : d \in S
  <2> HIDE DEF S
  <2>1. QED
    BY <1>1, <1>2, <1>3, Induction
<1>5. n - k \in S /\ k + (n - k) = n
  BY <1>1, <1>4, SMTT(30)
<1>6. QED
  BY <1>5

\* The elements of a stand in b in the same order, each at a place of its own.
Embeds(a, b) ==
    \E f \in [1 .. Len(a) -> 1 .. Len(b)] :
        /\ \A i \in 1 .. Len(a) : a[i] = b[f[i]]
        /\ \A i, j \in 1 .. Len(a) : i < j => f[i] < f[j]

\* A sequence embeds itself.
LEMMA EmbedsItself ==
    ASSUME NEW D, NEW a \in Seq(D)
    PROVE  Embeds(a, a)
<1> DEFINE f == [i \in 1 .. Len(a) |-> i]
<1>1. /\ f \in [1 .. Len(a) -> 1 .. Len(a)] /\ \A i \in 1 .. Len(a) : a[i] = a[f[i]]
      /\ \A i, j \in 1 .. Len(a) : i < j => f[i] < f[j]
  OBVIOUS
<1> HIDE DEF f
<1>2. QED
  BY <1>1 DEF Embeds

\* It stays embedded when more is put behind the other, and when the same is put
\* behind both.
LEMMA EmbedsBehind ==
    ASSUME NEW D, NEW a \in Seq(D), NEW b \in Seq(D), NEW c \in Seq(D), Embeds(a, b)
    PROVE  Embeds(a, b \o c) /\ Embeds(a \o c, b \o c)
<1>1. PICK f \in [1 .. Len(a) -> 1 .. Len(b)] :
        /\ \A i \in 1 .. Len(a) : a[i] = b[f[i]]
        /\ \A i, j \in 1 .. Len(a) : i < j => f[i] < f[j]
  BY DEF Embeds
<1>2. Len(a) \in Nat /\ Len(b) \in Nat /\ Len(c) \in Nat
  BY LenProperties
<1>3. PICK d, e : d = a \o c /\ e = b \o c
  OBVIOUS
<1>4. /\ Len(d) = Len(a) + Len(c) /\ Len(e) = Len(b) + Len(c)
      /\ \A i \in 1 .. Len(a) + Len(c) : d[i] = IF i <= Len(a) THEN a[i] ELSE c[i - Len(a)]
      /\ \A i \in 1 .. Len(b) + Len(c) : e[i] = IF i <= Len(b) THEN b[i] ELSE c[i - Len(b)]
  BY <1>3, ConcatProperties
<1>5. ASSUME NEW i \in 1 .. Len(a)
      PROVE  f[i] \in 1 .. Len(e) /\ f[i] <= Len(b) /\ f[i] \in Nat /\ e[f[i]] = a[i]
  <2>1. f[i] \in 1 .. Len(b)
    OBVIOUS
  <2>2. f[i] \in 1 .. Len(b) + Len(c) /\ f[i] <= Len(b) /\ f[i] \in Nat
    BY <1>2, <2>1
  <2>3. QED
    BY <1>1, <1>4, <2>2
<1>6. Embeds(a, e)
  <2>1. f \in [1 .. Len(a) -> 1 .. Len(e)]
    BY <1>5
  <2>2. QED
    BY <1>1, <1>5, <2>1 DEF Embeds
<1>7. Embeds(d, e)
  <2> DEFINE g == [i \in 1 .. Len(d) |-> IF i <= Len(a) THEN f[i] ELSE Len(b) + (i - Len(a))]
  <2>1. ASSUME NEW i \in 1 .. Len(d), i <= Len(a)
        PROVE  /\ i \in 1 .. Len(a) /\ g[i] = f[i] /\ g[i] \in 1 .. Len(e) /\ g[i] <= Len(b)
               /\ d[i] = e[g[i]]
    <3>1. i \in 1 .. Len(a) /\ i \in 1 .. Len(a) + Len(c) /\ g[i] = f[i]
      BY <1>2, <1>4, <2>1
    <3>2. d[i] = a[i]
      BY <1>4, <2>1, <3>1
    <3>3. QED
      BY <1>5, <3>1, <3>2
  <2>2. ASSUME NEW i \in 1 .. Len(d), ~(i <= Len(a))
        PROVE  /\ g[i] = Len(b) + (i - Len(a)) /\ g[i] \in 1 .. Len(e) /\ g[i] > Len(b)
               /\ d[i] = e[g[i]]
    <3>1. g[i] = Len(b) + (i - Len(a))
      BY <2>2
    <3>2. PICK x \in Int : x = g[i]
      BY <1>2, <3>1
    <3>3. /\ i \in 1 .. Len(a) + Len(c) /\ x \in 1 .. Len(b) + Len(c) /\ x > Len(b)
          /\ ~(x <= Len(b)) /\ x - Len(b) = i - Len(a)
      <4>1. i \in 1 .. Len(a) + Len(c) /\ x = Len(b) + (i - Len(a))
        BY <1>4, <3>1, <3>2
      <4>2. QED
        BY <1>2, <2>2, <4>1
    <3>4. d[i] = c[i - Len(a)] /\ e[x] = c[x - Len(b)]
      BY <1>4, <2>2, <3>3
    <3>5. QED
      BY <1>4, <3>1, <3>2, <3>3, <3>4
  <2>3. DOMAIN g = 1 .. Len(d) /\ g = [i \in 1 .. Len(d) |-> g[i]]
    OBVIOUS
  <2> HIDE DEF g
  <2>4. g \in [1 .. Len(d) -> 1 .. Len(e)] /\ \A i \in 1 .. Len(d) : d[i] = e[g[i]]
    <3>1. \A i \in 1 .. Len(d) : g[i] \in 1 .. Len(e) /\ d[i] = e[g[i]]
      BY <2>1, <2>2
    <3>2. QED
      BY <2>3, <3>1
  <2>5. ASSUME NEW i \in 1 .. Len(d), NEW j \in 1 .. Len(d), i < j PROVE g[i] < g[j]
    <3>0. Len(d) \in Nat /\ Len(e) \in Nat
      BY <1>2, <1>4
    <3>1. CASE j <= Len(a)
      <4>1. i <= Len(a)
        BY <1>2, <2>5, <3>1
      <4>2. g[i] = f[i] /\ g[j] = f[j] /\ i \in 1 .. Len(a) /\ j \in 1 .. Len(a)
        BY <2>1, <3>1, <4>1
      <4>3. QED
        BY <1>1, <2>5, <4>2
    <3>2. CASE ~(j <= Len(a)) /\ i <= Len(a)
      <4>1. g[i] \in 1 .. Len(e) /\ g[i] <= Len(b)
        BY <2>1, <3>2
      <4>2. g[j] \in 1 .. Len(e) /\ g[j] > Len(b)
        BY <2>2, <3>2
      <4>3. QED
        BY <1>2, <4>1, <4>2
    <3>3. CASE ~(j <= Len(a)) /\ ~(i <= Len(a))
      <4>1. g[i] = Len(b) + (i - Len(a)) /\ g[j] = Len(b) + (j - Len(a))
        BY <2>2, <3>3
      <4>2. QED
        BY <1>2, <2>5, <4>1
    <3>4. QED
      BY <3>1, <3>2, <3>3
  <2>6. QED
    BY <2>4, <2>5 DEF Embeds
<1>8. QED
  BY <1>3, <1>6, <1>7

\* What the first frames hold is embedded in what more of them hold.
LEMMA SentMore ==
    ASSUME NEW B, NEW s, IsStream(B, s), NEW k \in 0 .. Len(s), NEW n \in k .. Len(s),
           NEW a \in Seq(B \X B), Embeds(a, Sent(s, k))
    PROVE  Embeds(a, Sent(s, n))
<1> DEFINE S == {d \in 0 .. n - k : Embeds(a, Sent(s, k + d))}
<1>1. Len(s) \in Nat /\ n - k \in Nat
  BY LenProperties DEF IsStream
<1>2. 0 \in S
  BY <1>1
<1>3. ASSUME NEW d \in 0 .. n - k - 1, d \in S PROVE d + 1 \in S
  <2>1. PICK x \in 0 .. Len(s), y \in 1 .. Len(s) :
          x = k + d /\ y = k + d + 1 /\ y - 1 = x /\ k + (d + 1) = y
    BY <1>1
  <2>2. Embeds(a, Sent(s, x)) /\ d + 1 \in 0 .. n - k
    BY <1>1, <1>3, <2>1
  <2>3. Sent(s, x) \in Seq(B \X B) /\ PacketsOf(s[y]) \in Seq(B \X B)
    <3>1. IsFrame(s[y]) /\ s[y] \in Seq(B)
      BY ElementOfSeq DEF IsStream
    <3>2. PacketsOf(s[y]) \in Seq(B \X B)
      BY <3>1, PacketsOfFrame
    <3>3. QED
      BY <3>2, SentNext
  <2>4. Embeds(a, Sent(s, x) \o PacketsOf(s[y]))
    BY <2>2, <2>3, EmbedsBehind
  <2>5. Sent(s, y) = Sent(s, x) \o PacketsOf(s[y])
    <3>1. Sent(s, y) = Sent(s, y - 1) \o PacketsOf(s[y])
      BY SentNext
    <3>2. QED
      BY <2>1, <3>1
  <2>6. QED
    BY <2>1, <2>2, <2>4, <2>5
<1>4. \A d \in 0 .. n - k : d \in S
  <2> HIDE DEF S
  <2>1. QED
    BY <1>1, <1>2, <1>3, Induction
<1>5. n - k \in S /\ k + (n - k) = n
  BY <1>1, <1>4
<1>6. QED
  BY <1>5

\* The places of the packets of a binary frame of length l: behind the header, in
\* front of the byte before the footer.
BodyAt(p, m, h, e, a, l, k) ==
    /\ h + k <= m /\ 1 + k <= l /\ h + k = e - 2 /\ 1 + k = l - 2
    /\ \A i \in 1 .. k : /\ h + i \in 1 .. m /\ 1 + i \in 1 .. l
                         /\ p + (h + i) = a + (1 + i)

\* They are within the buffer.
LEMMA BodyPlaces ==
    ASSUME NEW p \in Nat, NEW m \in Nat, NEW h \in 1 .. m, NEW e \in 1 .. m, NEW a \in Nat,
           NEW l \in Nat, l > 2, p + h = a + 1, p + e = a + l
    PROVE  \E k \in Nat : BodyAt(p, m, h, e, a, l, k)
<1>1. l - 3 \in Nat /\ h + (l - 3) = e - 2 /\ 1 + (l - 3) = l - 2
  OBVIOUS
<1>2. h + (l - 3) <= m /\ 1 + (l - 3) <= l
  BY <1>1
<1>3. \A i \in 1 .. l - 3 : h + i \in 1 .. m /\ 1 + i \in 1 .. l /\ p + (h + i) = a + (1 + i)
  BY <1>2
<1>4. BodyAt(p, m, h, e, a, l, l - 3)
  BY <1>1, <1>2, <1>3 DEF BodyAt
<1>5. QED
  BY <1>1, <1>4

\* What segment_packets makes of a binary frame found in the buffer.
LEMMA BinaryPackets ==
    ASSUME NEW B, NEW s, IsStream(B, s), NEW p, NEW C, NEW buf \in Seq(C), Window(s, p, buf),
           NEW n \in 1 .. Len(s), s[n][1] = HeaderV2, HasPackets(s[n]),
           NEW h \in 1 .. Len(buf), NEW e \in 1 .. Len(buf),
           p + h = EndAt(s, n - 1) + 1, p + e = EndAt(s, n)
    PROVE  SegmentPackets(SubSeq(buf, h + 1, e - 2)) = PacketsOf(s[n])
<1>1. IsFrame(s[n]) /\ s[n] \in Seq(B) /\ BinaryFrame(s[n])
  BY ElementOfSeq DEF IsStream, HasPackets, Base64Frame, Header, HeaderV2
<1>2. PICK l \in Nat : l = Len(s[n]) /\ l > 2
  <2>1. Len(s[n]) > 2 /\ Len(s[n]) \in Nat
    BY <1>1, PacketFrameEnds DEF IsFrame
  <2>2. QED
    BY <2>1
<1>3. PICK a \in Nat : a = EndAt(s, n - 1) /\ p + h = a + 1 /\ p + e = a + l
  <2>1. n - 1 \in 0 .. Len(s)
    BY LenProperties DEF IsStream
  <2>2. EndAt(s, n - 1) \in Nat
    BY <2>1, EndsInOrder
  <2>3. EndAt(s, n) = EndAt(s, n - 1) + Len(s[n])
    BY ByteOfFrame
  <2>4. QED
    BY <1>2, <2>2, <2>3
<1>4. p \in Nat /\ Len(buf) \in Nat
  BY LenProperties DEF Window
<1>5. PICK k \in Nat : /\ h + k <= Len(buf) /\ 1 + k <= l /\ h + k = e - 2 /\ 1 + k = l - 2
                      /\ \A i \in 1 .. k : /\ h + i \in 1 .. Len(buf) /\ 1 + i \in 1 .. l
                                           /\ p + (h + i) = a + (1 + i)
  <2>1. \E k \in Nat : BodyAt(p, Len(buf), h, e, a, l, k)
    BY <1>2, <1>3, <1>4, BodyPlaces
  <2>2. QED
    BY <2>1 DEF BodyAt
<1>6. ASSUME NEW i \in 1 .. k PROVE buf[h + i] = s[n][1 + i]
  <2>1. PICK x \in 1 .. Len(buf), y \in 1 .. l : x = h + i /\ y = 1 + i /\ p + x = a + y
    BY <1>5
  <2>2. buf[x] = FlattenSeq(s)[p + x]
    BY DEF Window
  <2>3. FlattenSeq(s)[a + y] = s[n][y]
    BY <1>2, <1>3, ByteOfFrame, SMTT(30)
  <2>4. QED
    BY <2>1, <2>2, <2>3
<1>7. SubSeq(buf, h + 1, h + k) = SubSeq(s[n], 1 + 1, 1 + k)
  <2>1. PICK f \in Seq(B), y \in Nat : f = s[n] /\ y = 1
    BY <1>1
  <2>2. h + k <= Len(buf) /\ y + k <= Len(f) /\ h \in Nat
    BY <1>2, <1>5, <2>1
  <2>3. \A i \in 1 .. k : buf[h + i] = f[y + i]
    BY <1>6, <2>1
  <2>4. SubSeq(buf, h + 1, h + k) = SubSeq(f, y + 1, y + k)
    BY ONLY <2>2, <2>3, SamePart, buf \in Seq(C), f \in Seq(B), y \in Nat, k \in Nat
  <2>5. QED
    BY <2>1, <2>4
<1>8. SubSeq(buf, h + 1, e - 2) = SubSeq(s[n], 2, Len(s[n]) - 2)
  <2>1. 1 + 1 = 2
    OBVIOUS
  <2>2. QED
    BY <1>2, <1>5, <1>7, <2>1
<1>9. PacketsOf(s[n]) = SegmentPackets(SubSeq(s[n], 2, Len(s[n]) - 2))
  BY <1>1, PacketsOfFrame
<1>10. QED
  BY <1>8, <1>9

\* The segment is decoded into the packet of the frame.
DecodesTo(old, segment, f) ==
    /\ Decodable(segment) /\ Decode(old, segment)[1] \in TypeBytes
    /\ PacketsOf(f) = <<SubSeq(Decode(old, segment), 1, 2)>>

\* What base64_to_packet makes of a Base64 frame found in the buffer.
LEMMA Base64Packets ==
    ASSUME NEW B, NEW s, IsStream(B, s), NEW p, NEW C, NEW buf \in Seq(C), Window(s, p, buf),
           NEW n \in 1 .. Len(s), s[n][1] = Header, HasPackets(s[n]),
           NEW h \in 1 .. Len(buf), NEW e \in 1 .. Len(buf),
           p + h = EndAt(s, n - 1) + 1, p + e = EndAt(s, n),
           NEW D, NEW old \in [1 .. DecodeLength -> D]
    PROVE  DecodesTo(old, SubSeq(buf, h + 1, e - 1), s[n])
<1> DEFINE segment == SubSeq(buf, h + 1, e - 1)
           new     == Decode(old, segment)
<1>1. IsFrame(s[n]) /\ s[n] \in Seq(B)
  BY ElementOfSeq DEF IsStream
<1>2. PICK x, y : /\ Len(s[n]) = 4 /\ x = s[n][2] /\ y = s[n][3]
                  /\ x \in TypeBytes /\ x \notin NotBase64 /\ y \notin NotBase64
                  /\ PacketsOf(s[n]) = <<<<x, y>>>>
  <2>1. Base64Frame(s[n])
    BY DEF HasPackets, BinaryFrame, Header, HeaderV2
  <2>2. PacketsOf(s[n]) = <<<<s[n][2], s[n][3]>>>>
    BY <1>1, <2>1, PacketsOfFrame
  <2>3. QED
    BY <2>1, <2>2 DEF Base64Frame
<1>3. PICK a \in Nat : a = EndAt(s, n - 1) /\ p + h = a + 1 /\ p + e = a + 4
  <2>1. n - 1 \in 0 .. Len(s)
    BY LenProperties DEF IsStream
  <2>2. EndAt(s, n - 1) \in Nat
    BY <2>1, EndsInOrder
  <2>3. EndAt(s, n) = EndAt(s, n - 1) + Len(s[n])
    BY ByteOfFrame
  <2>4. QED
    BY <1>2, <2>2, <2>3
<1>4. p \in Nat /\ Len(buf) \in Nat
  BY LenProperties DEF Window
<1>5. PICK i \in 1 .. Len(buf), j \in 1 .. Len(buf) :
        i = h + 1 /\ j = i + 1 /\ j = e - 1 /\ p + i = a + 2 /\ p + j = a + 3
  <2>1. PICK l \in Nat : l = Len(buf) /\ h \in 1 .. l /\ e \in 1 .. l
    BY <1>4
  <2>2. h + 3 = e
    BY <1>3, <1>4, <2>1
  <2>3. h + 1 \in 1 .. l /\ h + 2 \in 1 .. l /\ h + 2 = (h + 1) + 1 /\ h + 2 = e - 1
    BY <2>1, <2>2
  <2>4. p + (h + 1) = a + 2 /\ p + (h + 2) = a + 3
    <3>1. p \in Nat /\ h \in Nat /\ p + h = a + 1
      BY <1>3, <1>4, <2>1
    <3>2. QED
      BY <3>1
  <2>5. h + 1 \in 1 .. Len(buf) /\ h + 2 \in 1 .. Len(buf)
    BY <2>1, <2>3
  <2>6. WITNESS h + 1 \in 1 .. Len(buf), h + 2 \in 1 .. Len(buf)
  <2>7. QED
    BY <2>3, <2>4, Zenon
<1>6. buf[i] = x /\ buf[j] = y
  <2>1. buf[i] = FlattenSeq(s)[a + 2] /\ buf[j] = FlattenSeq(s)[a + 3]
    BY <1>5 DEF Window
  <2>2. \A k \in 1 .. 4 : FlattenSeq(s)[a + k] = s[n][k]
    <3>1. IsStream(B, s) /\ n \in 1 .. Len(s)
      OBVIOUS
    <3>2. \A k \in 1 .. Len(s[n]) : FlattenSeq(s)[EndAt(s, n - 1) + k] = s[n][k]
      BY ONLY <3>1, ByteOfFrame
    <3>3. QED
      BY <1>2, <1>3, <3>2
  <2>3. QED
    BY <1>2, <2>1, <2>2
<1>7. segment = <<x, y>>
  <2>1. buf[i] \in {x, y} /\ buf[i + 1] \in {x, y} /\ i \in Nat
    BY <1>5, <1>6
  <2>2. SubSeq(buf, i, i + 1) = <<buf[i], buf[i + 1]>>
    BY <2>1, FirstTwo
  <2>3. QED
    BY <1>5, <1>6, <2>2
<1>8. DecodeLength \in Nat \ {0, 1}
  BY FramingConstants
<1>9. Len(segment) = 2 /\ segment[1] = x /\ segment[2] = y /\ \A k \in 1 .. 2 : k = 1 \/ k = 2
  <2>1. PICK v : v = <<x, y>>
    OBVIOUS
  <2>2. Len(v) = 2 /\ v[1] = x /\ v[2] = y
    BY <2>1
  <2>3. \A k \in 1 .. 2 : k = 1 \/ k = 2
    OBVIOUS
  <2>4. QED
    BY <1>7, <2>1, <2>2, <2>3
<1> HIDE DEF segment
<1>10. \A k \in 1 .. Len(segment) : segment[k] \notin NotBase64
  BY <1>2, <1>9
<1>11. Decodable(segment)
  BY <1>8, <1>9, <1>10 DEF Decodable, Invalid
<1>12. new = [k \in 1 .. DecodeLength |-> IF k <= 2 THEN segment[k] ELSE old[k]]
  <2>1. {k \in 1 .. Len(segment) : segment[k] \in NotBase64} = {}
    BY <1>10
  <2>2. ~(Len(segment) > DecodeLength)
    BY <1>8, <1>9
  <2>3. QED
    BY <1>9, <2>1, <2>2 DEF Decode, Invalid
<1> HIDE DEF new
<1>13. new[1] = x /\ new[2] = y
  <2>1. 1 \in 1 .. DecodeLength /\ 2 \in 1 .. DecodeLength
    BY <1>8
  <2>2. QED
    BY <1>9, <1>12, <2>1
<1>14. SubSeq(new, 1, 2) = <<x, y>>
  <2>1. 1 \in Nat /\ 1 + 1 = 2 /\ new[1] \in {x, y} /\ new[1 + 1] \in {x, y}
    BY <1>13
  <2>2. SubSeq(new, 1, 1 + 1) = <<new[1], new[1 + 1]>>
    <3>1. PICK v, P : v = new /\ P = {x, y}
      OBVIOUS
    <3>2. v[1] \in P /\ v[1 + 1] \in P
      BY <2>1, <3>1
    <3>3. SubSeq(v, 1, 1 + 1) = <<v[1], v[1 + 1]>>
      BY ONLY <2>1, <3>2, FirstTwo
    <3>4. QED
      BY <3>1, <3>3, Zenon
  <2>3. QED
    BY <1>13, <2>1, <2>2
<1>15. Decodable(segment) /\ new[1] \in TypeBytes /\ PacketsOf(s[n]) = <<SubSeq(new, 1, 2)>>
  BY <1>2, <1>11, <1>13, <1>14
<1>16. QED
  BY <1>15 DEF segment, new, DecodesTo

\* The streams a device sends.
LEMMA StreamBytes ==
    ASSUME NEW s \in Streams
    PROVE  IsStream(Bytes, s) /\ FlattenSeq(s) \in Seq(Bytes) /\ Len(FlattenSeq(s)) \in Nat
<1> DEFINE B == UNION {Range(s[n]) : n \in DOMAIN s}
           w == FlattenSeq(s)
<1>1. s \in Seq(Seq(B)) /\ Len(s) \in Nat /\ DOMAIN s = 1 .. Len(s)
  <2>1. s \in Seq(Seq(B))
    BY StreamConstants
  <2> HIDE DEF B
  <2>2. QED
    BY <2>1, LenProperties
<1>2. ASSUME NEW n \in 1 .. Len(s) PROVE IsFrame(s[n])
  <2>1. HasPackets(s[n]) \/ TextFrame(s[n])
    BY <1>1, StreamConstants
  <2> HIDE DEF B
  <2>2. Len(s[n]) \in Nat
    BY <1>1, ElementOfSeq, LenProperties
  <2>3. QED
    BY <2>1, <2>2 DEF IsFrame
<1> HIDE DEF B, w
<1>3. IsStream(B, s)
  BY <1>1, <1>2 DEF IsStream
<1>4. w \in Seq(B) /\ Len(w) \in Nat /\ DOMAIN w = 1 .. Len(w)
  BY <1>1, FramesArePlaced, LenProperties DEF w
<1>5. ASSUME NEW x \in 1 .. Len(w) PROVE w[x] \in Bytes
  <2>1. w[x] \in Range(w)
    BY <1>4 DEF Range
  <2>2. Range(w) \in {Range(FlattenSeq(r)) : r \in Streams}
    BY DEF w
  <2>3. QED
    BY <2>1, <2>2 DEF Bytes
<1>6. w \in Seq(Bytes)
  <2>1. w = [x \in 1 .. Len(w) |-> w[x]]
    BY <1>4, LenProperties
  <2>2. w \in [1 .. Len(w) -> Bytes]
    BY <1>5, <2>1
  <2>3. QED
    BY <1>4, <2>2, SeqDef
<1>7. ASSUME NEW n \in 1 .. Len(s) PROVE s[n] \in Seq(Bytes)
  <2>1. s[n] \in Seq(B) /\ Len(s[n]) \in Nat
    BY <1>1, ElementOfSeq, LenProperties
  <2>2. ASSUME NEW i \in 1 .. Len(s[n]) PROVE s[n][i] \in Bytes
    <3>1. /\ EndAt(s, n) = EndAt(s, n - 1) + Len(s[n]) /\ w[EndAt(s, n - 1) + i] = s[n][i]
      BY <1>3, ByteOfFrame DEF w
    <3>2. n \in 0 .. Len(s) /\ n - 1 \in 0 .. Len(s)
      BY <1>1
    <3>3. EndAt(s, n - 1) \in Nat /\ EndAt(s, n) <= Len(w)
      BY <1>3, <3>2, EndsInOrder DEF w
    <3>4. EndAt(s, n - 1) + i \in 1 .. Len(w)
      BY <1>4, <2>1, <3>1, <3>3
    <3>5. QED
      BY <1>5, <3>1, <3>4
  <2>3. s[n] = [i \in 1 .. Len(s[n]) |-> s[n][i]]
    BY <2>1, LenProperties
  <2>4. s[n] \in [1 .. Len(s[n]) -> Bytes]
    BY <2>2, <2>3
  <2>5. QED
    BY <2>1, <2>4, SeqDef
<1>8. s \in Seq(Seq(Bytes))
  <2>1. s = [n \in 1 .. Len(s) |-> s[n]]
    BY <1>1, LenProperties
  <2>2. PICK T : T = Seq(Bytes)
    OBVIOUS
  <2>3. s \in [1 .. Len(s) -> T]
    BY <1>7, <2>1, <2>2
  <2>4. Len(s) \in Nat
    BY <1>1
  <2>5. s \in Seq(T)
    BY <2>3, <2>4, SeqDef
  <2>6. QED
    BY <2>2, <2>5
<1>9. QED
  BY <1>2, <1>4, <1>6, <1>8 DEF IsStream, w

-----------------------------------------------------------------------------
(* The buffer of bytes.                                                    *)

\* A part of a sequence.
LEMMA PartIs ==
    ASSUME NEW B, NEW a \in Seq(B), NEW m \in Nat, NEW n \in Nat, n <= Len(a), m <= n
    PROVE  /\ SubSeq(a, m + 1, n) \in Seq(B) /\ Len(SubSeq(a, m + 1, n)) = n - m
           /\ \A i \in 1 .. n - m : SubSeq(a, m + 1, n)[i] = a[m + i]
<1>1. Len(a) \in Nat
  BY LenProperties
<1>2. \A i \in m + 1 .. n : a[i] \in B
  <2> TAKE i \in m + 1 .. n
  <2>1. i \in 1 .. Len(a)
    BY <1>1
  <2>2. QED
    BY <2>1, ElementOfSeq
<1>3. PICK q \in Int : q = m + 1
  OBVIOUS
<1>4. /\ SubSeq(a, q, n) \in Seq(B)
      /\ Len(SubSeq(a, q, n)) = IF q <= n THEN n - q + 1 ELSE 0
      /\ \A i \in 1 .. n - q + 1 : SubSeq(a, q, n)[i] = a[q + i - 1]
  BY <1>2, <1>3, SubSeqProperties
<1>5. (IF q <= n THEN n - q + 1 ELSE 0) = n - m /\ n - q + 1 = n - m
  BY <1>3
<1>6. \A i \in 1 .. n - m : q + i - 1 = m + i
  BY <1>3
<1>7. QED
  BY <1>3, <1>4, <1>5, <1>6

\* buf is the last bytes of all, as many as fit.
LastBytes(buf, all) ==
    \E d \in 0 .. Len(all) :
        /\ Len(buf) = Len(all) - d /\ Len(buf) <= DataLength
        /\ \A i \in 1 .. Len(buf) : buf[i] = all[d + i]
        /\ Len(all) <= DataLength => d = 0

\* After a push the buffer holds the last bytes of what it held and of what came.
LEMMA PushBytesIs ==
    ASSUME NEW B, NEW buf \in Seq(B), NEW new \in Seq(B)
    PROVE  PushBytes(buf, new) \in Seq(B) /\ LastBytes(PushBytes(buf, new), buf \o new)
<1>1. PICK all \in Seq(B) : all = buf \o new
  BY ConcatProperties
<1>2. Len(all) \in Nat /\ DataLength \in Nat
  BY LenProperties, FramingConstants
<1>3. PICK d \in 0 .. Len(all) : d = IF Len(all) > DataLength THEN Len(all) - DataLength ELSE 0
  <2>1. CASE Len(all) > DataLength
    <3>1. Len(all) - DataLength \in 0 .. Len(all)
      BY <1>2, <2>1
    <3>2. QED
      BY <2>1, <3>1
  <2>2. CASE ~(Len(all) > DataLength)
    <3>1. 0 \in 0 .. Len(all)
      BY <1>2
    <3>2. QED
      BY <2>2, <3>1
  <2>3. QED
    BY <2>1, <2>2
<1>4. Len(all) - d <= DataLength /\ (Len(all) <= DataLength => d = 0)
  BY <1>2, <1>3
<1>5. PushBytes(buf, new) = SubSeq(all, d + 1, Len(all))
  <2>1. (IF Len(all) > DataLength THEN Len(all) - DataLength + 1 ELSE 1) = d + 1
    BY <1>2, <1>3
  <2>2. QED
    BY <1>1, <2>1 DEF PushBytes
<1>6. PICK res : res = PushBytes(buf, new)
  OBVIOUS
<1>7. /\ res \in Seq(B) /\ Len(res) = Len(all) - d
      /\ \A i \in 1 .. Len(all) - d : res[i] = all[d + i]
  <2>1. d \in Nat /\ d <= Len(all) /\ Len(all) <= Len(all)
    BY <1>2
  <2>2. QED
    BY <1>2, <1>5, <1>6, <2>1, PartIs
<1>8. LastBytes(res, all)
  BY <1>4, <1>7 DEF LastBytes
<1>9. QED
  BY <1>1, <1>6, <1>7, <1>8

\* What the scanner found.
LEMMA FoundIs ==
    ASSUME NEW B, data \in Seq(B)
    PROVE  /\ Found.exclam = FirstFooter(data)
           /\ Found.colon = HeaderIndex(data, Header)
           /\ Found.binary = HeaderIndex(data, HeaderV2)
           /\ BinaryFound \/ Base64Found <=> FrameSeen(data)
           /\ BinaryFound => /\ Found.binary \in 1 .. Len(data) /\ Found.exclam \in 1 .. Len(data)
                             /\ Found.binary < Found.exclam
           /\ Base64Found => /\ Found.colon \in 1 .. Len(data) /\ Found.exclam \in 1 .. Len(data)
                             /\ Found.colon < Found.exclam
           /\ Found.semicolon # 0 =>
                Found.semicolon \in 1 .. Len(data) /\ data[Found.semicolon] = Terminator
<1>1. /\ Found.exclam = FirstFooter(data) /\ Found.colon = HeaderIndex(data, Header)
      /\ Found.binary = HeaderIndex(data, HeaderV2)
      /\ Found.semicolon = FirstOf(Positions(data, Terminator))
  BY DEF Found, ScanDelimiters, FirstFooter
<1>2. Len(data) \in Nat
  BY LenProperties
<1>3. ASSUME NEW c, HeaderIndex(data, c) # 0, FirstFooter(data) > HeaderIndex(data, c)
      PROVE  /\ HeaderIndex(data, c) \in 1 .. Len(data) /\ FirstFooter(data) \in 1 .. Len(data)
             /\ HeaderIndex(data, c) < FirstFooter(data)
  <2>1. HeaderIndex(data, c) \in 1 .. Len(data) /\ FirstFooter(data) \in 1 .. Len(data)
    BY <1>3, HeaderIs
  <2>2. QED
    BY <1>2, <1>3, <2>1
<1>4. BinaryFound <=> /\ HeaderIndex(data, HeaderV2) # 0
                      /\ FirstFooter(data) > HeaderIndex(data, HeaderV2)
  BY <1>1 DEF BinaryFound
<1>5. Base64Found <=> /\ HeaderIndex(data, Header) # 0
                      /\ FirstFooter(data) > HeaderIndex(data, Header)
  BY <1>1 DEF Base64Found
<1>6. BinaryFound \/ Base64Found <=> FrameSeen(data)
  BY <1>4, <1>5 DEF FrameSeen
<1>7. Found.semicolon # 0 =>
        Found.semicolon \in 1 .. Len(data) /\ data[Found.semicolon] = Terminator
  <2>1. Positions(data, Terminator) \in SUBSET (Nat \ {0})
    BY <1>2 DEF Positions
  <2>2. Found.semicolon # 0 => Found.semicolon \in Positions(data, Terminator)
    BY <1>1, <2>1, FirstOfIs
  <2>3. QED
    BY <2>2 DEF Positions
<1>8. QED
  BY <1>1, <1>3, <1>4, <1>5, <1>6, <1>7

\* Popping what was found leaves the rest.
LEMMA PopIs ==
    ASSUME NEW B, data \in Seq(B), NEW n \in 1 .. Len(data), Pop(n)
    PROVE  /\ data' \in Seq(B) /\ Len(data') = Len(data) - n
           /\ \A i \in 1 .. Len(data) - n : data'[i] = data[n + i]
<1>1. Len(data) \in Nat /\ n \in Nat /\ n <= Len(data) /\ Len(data) <= Len(data)
  BY LenProperties
<1>2. data' = SubSeq(data, n + 1, Len(data))
  BY DEF Pop
<1>3. QED
  BY <1>1, <1>2, PartIs

-----------------------------------------------------------------------------
(* Bytes lost or garbled on the line.                                      *)

\* Byte j of old was lost, which makes the others d = 1 shorter, or arrived as c.
Struck(new, old, j, d, c) ==
    /\ d \in {0, 1} /\ Len(new) = Len(old) - d
    /\ \A x \in 1 .. Len(new) :
         new[x] = IF x < j THEN old[x] ELSE IF d = 0 /\ x = j THEN c ELSE old[x + d]

\* A byte is removed.
LEMMA RemovedIs ==
    ASSUME NEW B, NEW s \in Seq(B), NEW j \in 1 .. Len(s), NEW c
    PROVE  RemoveAt(s, j) \in Seq(B) /\ Struck(RemoveAt(s, j), s, j, 1, c)
<1>0. PICK l \in Nat : l = Len(s) /\ j \in 1 .. l
  BY LenProperties
<1>1. PICK a, b, t :
        /\ a = SubSeq(s, 1, j - 1) /\ b = SubSeq(s, j + 1, l)
        /\ t = RemoveAt(s, j) /\ t = a \o b
  BY <1>0 DEF RemoveAt
<1>2. a \in Seq(B) /\ Len(a) = j - 1 /\ \A x \in 1 .. j - 1 : a[x] = s[x]
  <2>1. PICK n \in Nat : n = j - 1 /\ n <= Len(s) /\ 0 <= n
    BY <1>0
  <2>2. /\ SubSeq(s, 0 + 1, n) \in Seq(B) /\ Len(SubSeq(s, 0 + 1, n)) = n - 0
        /\ \A x \in 1 .. n - 0 : SubSeq(s, 0 + 1, n)[x] = s[0 + x]
    BY <2>1, PartIs
  <2>3. 0 + 1 = 1 /\ n - 0 = n /\ \A x \in 1 .. n : 0 + x = x
    BY <2>1
  <2>4. QED
    BY <1>1, <2>1, <2>2, <2>3
<1>3. b \in Seq(B) /\ Len(b) = l - j /\ \A x \in 1 .. l - j : b[x] = s[j + x]
  <2>1. j \in Nat /\ l <= Len(s) /\ j <= l
    BY <1>0
  <2>2. /\ SubSeq(s, j + 1, l) \in Seq(B) /\ Len(SubSeq(s, j + 1, l)) = l - j
        /\ \A x \in 1 .. l - j : SubSeq(s, j + 1, l)[x] = s[j + x]
    BY <1>0, <2>1, PartIs
  <2>3. QED
    BY <1>1, <2>2
<1>a. PICK u \in Nat, v \in Nat : u = j - 1 /\ v = l - j /\ u = Len(a) /\ v = Len(b)
  <2>1. j - 1 \in Nat /\ l - j \in Nat
    BY <1>0
  <2>2. QED
    BY <1>2, <1>3, <2>1
<1>4. /\ t \in Seq(B) /\ Len(t) = u + v
      /\ \A x \in 1 .. u + v : t[x] = IF x <= u THEN a[x] ELSE b[x - u]
  <2>1. /\ a \o b \in Seq(B) /\ Len(a \o b) = Len(a) + Len(b)
        /\ \A x \in 1 .. Len(a) + Len(b) :
             (a \o b)[x] = IF x <= Len(a) THEN a[x] ELSE b[x - Len(a)]
    BY <1>2, <1>3, ConcatProperties
  <2>2. QED
    BY <1>1, <1>a, <2>1
<1>5. Len(t) = l - 1 /\ u + v = l - 1
  <2>1. u = j - 1 /\ v = l - j /\ j \in Nat
    BY <1>0, <1>a
  <2>2. u + v = l - 1
    BY ONLY <2>1, l \in Nat
  <2>3. QED
    BY <1>4, <2>2
<1>6. ASSUME NEW x \in 1 .. Len(t)
      PROVE  t[x] = IF x < j THEN s[x] ELSE s[x + 1]
  <2>1. x \in 1 .. u + v /\ x \in Nat
    BY <1>4
  <2>2. CASE x < j
    <3>1. x <= u /\ x \in 1 .. j - 1
      BY <1>0, <1>a, <2>1, <2>2
    <3>2. QED
      BY <1>2, <1>4, <2>1, <2>2, <3>1
  <2>3. CASE ~(x < j)
    <3>1. ~(x <= u)
      BY <1>0, <1>a, <2>1, <2>3
    <3>2. PICK y \in 1 .. l - j : y = x - u /\ j + y = x + 1
      <4>1. x - u \in 1 .. l - j /\ j + (x - u) = x + 1
        BY <1>0, <1>a, <2>1, <2>3
      <4>2. QED
        BY <4>1
    <3>3. t[x] = b[y] /\ b[y] = s[j + y]
      BY <1>3, <1>4, <2>1, <3>1, <3>2
    <3>4. QED
      BY <2>3, <3>2, <3>3
  <2>4. QED
    BY <2>2, <2>3
<1>7. Len(t) = Len(s) - 1
  BY <1>0, <1>5
<1>8. t \in Seq(B) /\ Struck(t, s, j, 1, c)
  BY <1>4, <1>6, <1>7 DEF Struck
<1>9. QED
  BY <1>1, <1>8

\* Or becomes another one.
LEMMA GarbledIs ==
    ASSUME NEW B, NEW c \in B, NEW s \in Seq(B), NEW j \in 1 .. Len(s)
    PROVE  /\ [s EXCEPT ![j] = c] \in Seq(B)
           /\ Struck([s EXCEPT ![j] = c], s, j, 0, c)
<1>1. PICK t : t = [s EXCEPT ![j] = c]
  OBVIOUS
<1>2. t \in Seq(B) /\ Len(t) = Len(s) /\ Len(s) \in Nat
      /\ \A x \in 1 .. Len(s) : t[x] = IF x = j THEN c ELSE s[x]
  BY <1>1, ExceptSeq, LenProperties
<1>3. Len(t) = Len(s) - 0
  BY <1>2
<1>4. ASSUME NEW x \in 1 .. Len(t)
      PROVE  t[x] = IF x < j THEN s[x] ELSE IF x = j THEN c ELSE s[x + 0]
  <2>1. x + 0 = x /\ (x < j => x # j)
    BY <1>2
  <2>2. QED
    BY <1>2, <2>1
<1>5. QED
  BY <1>1, <1>2, <1>3, <1>4 DEF Struck

\* Byte i of the line, byte j of frame n, is lost or arrives as c.
LossAt(i, n, j, d, c) ==
    /\ delimited' \in BOOLEAN /\ (delimited' <=> delimited \/ (d = 0 /\ c \in Delimiters))
    /\ IsByte(i, n, j) /\ lost' = Append(lost, n)
    /\ carried' = [carried EXCEPT ![n] = carried'[n]] /\ carried'[n] \in Seq(Bytes)
    /\ carried' \in Seq(Seq(Bytes)) /\ Len(carried') = Len(carried)
    /\ Struck(carried'[n], carried[n], j, d, c)
    /\ line' \in Seq(Bytes) /\ Struck(line', line, i, d, c)

\* It is in the same way on the line and in what it carries.
LEMMA LossIs ==
    ASSUME TypeOK, NEW i \in 1 .. Len(line), Lose(i) \/ \E c \in Noise : Garble(i, c)
    PROVE  \E n \in 1 .. Len(carried) : \E j \in 1 .. Len(carried[n]) : \E d \in {0, 1} :
              \E c \in Bytes : LossAt(i, n, j, d, c)
<1>1. PICK T : T = Seq(Bytes)
  OBVIOUS
<1>2. line \in Seq(Bytes) /\ carried \in Seq(T) /\ ZeroByte \in Bytes
  BY <1>1 DEF TypeOK, Bytes
<1>3. CASE Lose(i)
  <2>0. PICK n \in 1 .. Len(carried) : \E j \in 1 .. Len(carried[n]) :
          /\ IsByte(i, n, j) /\ lost' = Append(lost, n)
          /\ carried' = [carried EXCEPT ![n] = RemoveAt(carried[n], j)]
    BY <1>3 DEF Lose
  <2>1. PICK j \in 1 .. Len(carried[n]) :
          /\ IsByte(i, n, j) /\ lost' = Append(lost, n)
          /\ carried' = [carried EXCEPT ![n] = RemoveAt(carried[n], j)]
    BY <2>0
  <2>2. PICK t : t = RemoveAt(carried[n], j)
    OBVIOUS
  <2>3. carried[n] \in T
    BY <1>2, ElementOfSeq
  <2>4. t \in Seq(Bytes) /\ Struck(t, carried[n], j, 1, ZeroByte)
    BY <1>1, <2>2, <2>3, RemovedIs
  <2>5. line' \in Seq(Bytes) /\ Struck(line', line, i, 1, ZeroByte)
    BY <1>2, <1>3, RemovedIs DEF Lose
  <2>6. /\ carried' = [carried EXCEPT ![n] = t] /\ carried'[n] = t
        /\ carried' \in Seq(T) /\ Len(carried') = Len(carried)
    <3>1. carried' = [carried EXCEPT ![n] = t] /\ t \in T
      BY <1>1, <2>1, <2>2, <2>4
    <3>2. QED
      BY <1>2, <3>1, ExceptSeq
  <2>7. LossAt(i, n, j, 1, ZeroByte)
    <3>1. delimited' \in BOOLEAN /\ (delimited' <=> delimited \/ (1 = 0 /\ ZeroByte \in Delimiters))
      BY <1>3 DEF Lose, TypeOK
    <3>2. QED
      BY <1>1, <2>1, <2>4, <2>5, <2>6, <3>1 DEF LossAt
  <2>8. QED
    BY <1>2, <2>7
<1>4. ASSUME NEW c \in Noise, Garble(i, c)
      PROVE  \E n \in 1 .. Len(carried) : \E j \in 1 .. Len(carried[n]) : \E d \in {0, 1} :
               \E b \in Bytes : LossAt(i, n, j, d, b)
  <2>a. c \in Bytes
    BY DEF Bytes
  <2>0. PICK n \in 1 .. Len(carried) : \E j \in 1 .. Len(carried[n]) :
          /\ IsByte(i, n, j) /\ lost' = Append(lost, n)
          /\ carried' = [carried EXCEPT ![n] = [carried[n] EXCEPT ![j] = c]]
    BY <1>4 DEF Garble
  <2>1. PICK j \in 1 .. Len(carried[n]) :
          /\ IsByte(i, n, j) /\ lost' = Append(lost, n)
          /\ carried' = [carried EXCEPT ![n] = [carried[n] EXCEPT ![j] = c]]
    BY <2>0
  <2>2. PICK t : t = [carried[n] EXCEPT ![j] = c]
    OBVIOUS
  <2>3. carried[n] \in T
    BY <1>2, ElementOfSeq
  <2>4. t \in Seq(Bytes) /\ t \in T /\ Struck(t, carried[n], j, 0, c)
    BY <1>1, <1>2, <2>2, <2>3, <2>a, GarbledIs
  <2>5. line' \in Seq(Bytes) /\ Struck(line', line, i, 0, c)
    BY <1>2, <1>4, <2>a, GarbledIs DEF Garble
  <2>6. /\ carried' = [carried EXCEPT ![n] = t] /\ carried'[n] = t
        /\ carried' \in Seq(T) /\ Len(carried') = Len(carried)
    <3>1. carried' = [carried EXCEPT ![n] = t] /\ t \in T
      BY <1>1, <2>1, <2>2, <2>4
    <3>2. QED
      BY <1>2, <3>1, ExceptSeq
  <2>7. LossAt(i, n, j, 0, c)
    <3>1. delimited' \in BOOLEAN /\ (delimited' <=> delimited \/ (0 = 0 /\ c \in Delimiters))
      BY <1>4 DEF Garble, TypeOK
    <3>2. QED
      BY <1>1, <2>1, <2>4, <2>5, <2>6, <3>1 DEF LossAt
  <2>8. QED
    BY <2>7, <2>a
<1>5. QED
  BY <1>3, <1>4

\* The frames in front of the one that is hit end where they did, and of all the frames
\* put together the same byte is lost or garbled.
LEMMA StreamStruck ==
    ASSUME NEW B, NEW s, IsStream(B, s), NEW n \in 1 .. Len(s), NEW j \in 1 .. Len(s[n]),
           NEW r \in Seq(Seq(B)), Len(r) = Len(s), r = [s EXCEPT ![n] = r[n]], NEW d, NEW c,
           Struck(r[n], s[n], j, d, c)
    PROVE  /\ \A k \in 0 .. n - 1 : EndAt(r, k) = EndAt(s, k)
           /\ \A k \in n .. Len(s) : EndAt(r, k) = EndAt(s, k) - d
           /\ Struck(FlattenSeq(r), FlattenSeq(s), EndAt(s, n - 1) + j, d, c)
<1>0. s \in Seq(Seq(B))
  BY DEF IsStream
<1>1. /\ Len(s) \in Nat /\ \A m \in 1 .. Len(s) : s[m] \in Seq(B) /\ r[m] \in Seq(B)
      /\ \A m \in 1 .. Len(s) : Len(s[m]) \in Nat /\ Len(r[m]) \in Nat
      /\ \A m \in 1 .. Len(s) : m # n => r[m] = s[m]
  <2>1. Len(s) \in Nat /\ DOMAIN s = 1 .. Len(s)
    BY <1>0, LenProperties
  <2>2. \A m \in 1 .. Len(s) : s[m] \in Seq(B) /\ r[m] \in Seq(B)
    BY <1>0, ElementOfSeq
  <2>3. \A m \in 1 .. Len(s) : Len(s[m]) \in Nat /\ Len(r[m]) \in Nat
    BY <2>2, LenProperties
  <2>4. \A m \in 1 .. Len(s) : m # n => r[m] = s[m]
    <3>1. PICK t : t = r[n] /\ r = [s EXCEPT ![n] = t]
      OBVIOUS
    <3>2. QED
      BY <2>1, <3>1
  <2>5. QED
    BY <2>1, <2>2, <2>3, <2>4
<1>a. Len(s) \in Nat /\ n \in 1 .. Len(s) /\ n \in Nat
  BY <1>1
<1>2. d \in {0, 1} /\ Len(r[n]) = Len(s[n]) - d
  BY DEF Struck
<1>3. /\ Placed(s, Len(s), FlattenSeq(s)) /\ EndAt(s, 0) = 0
      /\ Placed(r, Len(s), FlattenSeq(r)) /\ EndAt(r, 0) = 0
      /\ FlattenSeq(s) \in Seq(B) /\ FlattenSeq(r) \in Seq(B)
      /\ Len(FlattenSeq(s)) \in Nat /\ Len(FlattenSeq(r)) \in Nat
      /\ EndAt(s, Len(s)) = Len(FlattenSeq(s)) /\ EndAt(r, Len(s)) = Len(FlattenSeq(r))
  BY <1>0, FramesArePlaced, LenProperties DEF EndAt
<1>4. ASSUME NEW m \in 1 .. Len(s)
      PROVE  /\ EndAt(s, m - 1) \in Nat /\ EndAt(s, m) = EndAt(s, m - 1) + Len(s[m])
             /\ EndAt(r, m - 1) \in Nat /\ EndAt(r, m) = EndAt(r, m - 1) + Len(r[m])
  BY <1>3 DEF Placed
<1> DEFINE shift(k) == IF k < n THEN 0 ELSE d
           S == {k \in 0 .. Len(s) : EndAt(s, k) \in Nat /\ EndAt(r, k) = EndAt(s, k) - shift(k)}
<1>5. \A k \in 0 .. Len(s) : k \in S
  <2>1. 0 \in S
    BY <1>1, <1>3
  <2>2. ASSUME NEW k \in 0 .. Len(s) - 1, k \in S PROVE k + 1 \in S
    <3>1. PICK m \in 1 .. Len(s) : m = k + 1 /\ k = m - 1 /\ m \in 0 .. Len(s)
      BY <1>1
    <3>2. /\ EndAt(s, k) \in Nat /\ EndAt(s, m) = EndAt(s, k) + Len(s[m])
          /\ EndAt(r, k) \in Nat /\ EndAt(r, m) = EndAt(r, k) + Len(r[m])
          /\ EndAt(r, k) = EndAt(s, k) - shift(k) /\ Len(s[m]) \in Nat /\ Len(r[m]) \in Nat
      BY <1>1, <1>4, <2>2, <3>1
    <3>3. CASE m = n
      <4>1. shift(k) = 0 /\ shift(m) = d
        BY <3>1, <3>3
      <4>2. Len(r[m]) = Len(s[m]) - d
        BY <1>2, <3>3
      <4> HIDE DEF shift
      <4>3. EndAt(s, m) \in Nat /\ EndAt(r, m) = EndAt(s, m) - shift(m)
        <5>1. PICK x \in Nat, y \in Nat :
                /\ x = EndAt(s, k) /\ y = Len(s[m]) /\ EndAt(s, m) = x + y
                /\ EndAt(r, k) = x - shift(k) /\ EndAt(r, m) = EndAt(r, k) + Len(r[m])
          BY <3>2
        <5>2. EndAt(r, m) = (x - 0) + (y - d)
          BY ONLY <4>1, <4>2, <5>1
        <5>3. d \in {0, 1}
          BY <1>2
        <5>4. x + y \in Nat /\ (x - 0) + (y - d) = (x + y) - d
          BY ONLY <5>3, x \in Nat, y \in Nat
        <5>5. QED
          BY ONLY <4>1, <5>1, <5>2, <5>4
      <4>4. QED
        BY <3>1, <4>3
    <3>4. CASE m # n
      <4>1. shift(k) = shift(m) /\ shift(m) \in {0, 1}
        BY <1>1, <1>2, <3>1, <3>4
      <4>2. Len(r[m]) = Len(s[m])
        BY <1>1, <3>4
      <4> HIDE DEF shift
      <4>3. EndAt(s, m) \in Nat /\ EndAt(r, m) = EndAt(s, m) - shift(m)
        <5>1. PICK x \in Nat, y \in Nat, z \in {0, 1} :
                /\ x = EndAt(s, k) /\ y = Len(s[m]) /\ EndAt(s, m) = x + y /\ z = shift(m)
                /\ EndAt(r, k) = x - shift(k) /\ EndAt(r, m) = EndAt(r, k) + Len(r[m])
          BY <3>2, <4>1
        <5>2. EndAt(r, m) = (x - z) + y
          BY ONLY <4>1, <4>2, <5>1
        <5>3. x + y \in Nat /\ (x - z) + y = (x + y) - z
          BY ONLY z \in {0, 1}, x \in Nat, y \in Nat
        <5>4. QED
          BY ONLY <5>1, <5>2, <5>3
      <4>4. QED
        BY <3>1, <4>3
    <3>5. QED
      BY <3>3, <3>4
  <2> HIDE DEF S
  <2>3. QED
    BY <1>1, <2>1, <2>2, Induction
<1>6. \A k \in 0 .. n - 1 : EndAt(s, k) \in Nat /\ EndAt(r, k) = EndAt(s, k)
  <2> TAKE k \in 0 .. n - 1
  <2>1. k \in 0 .. Len(s) /\ k < n
    BY <1>1
  <2>2. EndAt(s, k) \in Nat /\ EndAt(r, k) = EndAt(s, k) - 0
    BY <1>5, <2>1
  <2>3. QED
    BY <2>2
<1>7. \A k \in n .. Len(s) : EndAt(s, k) \in Nat /\ EndAt(r, k) = EndAt(s, k) - d
  <2> TAKE k \in n .. Len(s)
  <2>1. k \in 0 .. Len(s) /\ ~(k < n)
    BY <1>1
  <2>2. QED
    BY <1>5, <2>1
<1> HIDE DEF S, shift
<1>8. PICK a \in Nat, l \in Nat, place \in Nat :
        /\ a = EndAt(s, n - 1) /\ a = EndAt(r, n - 1) /\ l = Len(s[n]) /\ place = a + j
        /\ EndAt(s, n) = a + l /\ j \in 1 .. l /\ d \in {0, 1} /\ Len(r[n]) = l - d
  <2>1. n - 1 \in 0 .. n - 1
    BY <1>a
  <2>2. PICK a \in Nat, l \in Nat :
          /\ a = EndAt(s, n - 1) /\ a = EndAt(r, n - 1) /\ l = Len(s[n])
          /\ EndAt(s, n) = a + l
    BY <1>1, <1>4, <1>6, <2>1
  <2>3. a + j \in Nat /\ j \in 1 .. l
    BY <2>2
  <2>4. QED
    BY <1>2, <2>2, <2>3
<1>b. place = a + j /\ j \in 1 .. l /\ j \in Nat /\ d \in {0, 1}
  BY <1>8
<1>9. Len(FlattenSeq(r)) = Len(FlattenSeq(s)) - d
  <2>1. Len(s) \in n .. Len(s)
    BY <1>1
  <2>2. QED
    BY <1>3, <1>7, <2>1
<1>10. ASSUME NEW x \in 1 .. Len(FlattenSeq(r))
       PROVE  FlattenSeq(r)[x] = IF x < place THEN FlattenSeq(s)[x]
                                 ELSE IF d = 0 /\ x = place THEN c
                                 ELSE FlattenSeq(s)[x + d]
  <2>0. x \in Nat
    BY <1>3
  <2>1. PICK m \in 1 .. Len(s) : EndAt(r, m - 1) < x /\ x <= EndAt(r, m)
    BY <1>3 DEF Placed
  <2>a. m \in Nat /\ m - 1 \in Nat /\ m <= Len(s)
    BY <1>a
  <2>2. PICK b \in Nat, w \in Nat, y \in Nat :
          /\ b = EndAt(r, m - 1) /\ w = Len(r[m]) /\ EndAt(r, m) = b + w
          /\ y \in 1 .. w /\ y = x - b /\ x = b + y /\ x <= b + w
    <3>1. PICK b \in Nat, w \in Nat : b = EndAt(r, m - 1) /\ w = Len(r[m]) /\ EndAt(r, m) = b + w
      BY <1>1, <1>4
    <3>2. b < x /\ x <= b + w
      BY <2>1, <3>1
    <3>3. x - b \in 1 .. w /\ x = b + (x - b) /\ x - b \in Nat
      BY ONLY <2>0, <3>2, b \in Nat, w \in Nat
    <3>4. QED
      BY <3>1, <3>2, <3>3
  <2>b. y \in 1 .. w /\ y = x - b /\ x = b + y /\ x <= b + w
    BY <2>2
  <2>3. FlattenSeq(r)[x] = r[m][y]
    <3>1. \A i \in 1 .. Len(r[m]) : FlattenSeq(r)[EndAt(r, m - 1) + i] = r[m][i]
      BY <1>3 DEF Placed
    <3>2. QED
      BY <2>2, <3>1
  <2>4. \A i \in 1 .. Len(s[m]) : FlattenSeq(s)[EndAt(s, m - 1) + i] = s[m][i]
    BY <1>3 DEF Placed
  <2>5. CASE m < n
    <3>1. m - 1 \in 0 .. n - 1 /\ m \in 0 .. n - 1 /\ m # n
      BY ONLY <1>a, <2>a, <2>5
    <3>2. EndAt(s, m - 1) = b /\ r[m] = s[m] /\ EndAt(s, m) = EndAt(r, m)
      BY <1>1, <1>6, <2>2, <3>1
    <3>3. FlattenSeq(s)[x] = r[m][y]
      BY <2>2, <2>4, <3>2
    <3>4. EndAt(r, m) <= a
      <4>1. n - 1 \in 0 .. Len(s) /\ m \in 0 .. n - 1
        BY ONLY <1>a, <2>a, <2>5
      <4>2. EndAt(s, m) <= EndAt(s, n - 1)
        BY ONLY <4>1, IsStream(B, s), EndsInOrder
      <4>3. QED
        BY <1>8, <3>2, <4>2
    <3>5. x < place
      <4>1. b + w <= a
        BY <2>2, <3>4
      <4>2. QED
        BY ONLY <1>b, <2>b, <4>1, a \in Nat, l \in Nat, b \in Nat, w \in Nat, y \in Nat
    <3>6. QED
      BY <2>3, <3>3, <3>5
  <2>6. CASE m = n
    <3>1. y = x - a /\ b = a /\ w = l - d /\ y \in 1 .. Len(r[n]) /\ x = a + y
      BY <1>8, <2>2, <2>6
    <3>2. r[n][y] = IF y < j THEN s[n][y] ELSE IF d = 0 /\ y = j THEN c ELSE s[n][y + d]
      BY <3>1 DEF Struck
    <3>a. w = l - d /\ x = a + y
      BY <3>1
    <3>3. (x < place <=> y < j) /\ (x = place <=> y = j)
      BY ONLY <1>b, <3>a, a \in Nat, l \in Nat, y \in Nat
    <3>4. y < j => FlattenSeq(s)[x] = s[n][y]
      <4>1. y < j => y \in 1 .. l
        BY ONLY <1>b, <2>b, l \in Nat, y \in Nat, w \in Nat
      <4>2. QED
        BY <1>8, <2>4, <2>6, <3>1, <4>1
    <3>5. FlattenSeq(s)[x + d] = s[n][y + d]
      <4>1. PICK z \in 1 .. Len(s[n]) : z = y + d /\ a + z = x + d
        <5>1. y + d \in 1 .. l /\ a + (y + d) = x + d
          BY ONLY <1>b, <2>b, <3>a, a \in Nat, l \in Nat, y \in Nat, w \in Nat
        <5>2. QED
          BY <1>8, <5>1
      <4>2. FlattenSeq(s)[a + z] = s[n][z]
        BY <1>8, <2>4, <2>6
      <4>3. QED
        BY <4>1, <4>2
    <3>6. QED
      BY <2>3, <2>6, <3>2, <3>3, <3>4, <3>5
  <2>7. CASE m > n
    <3>1. m - 1 \in n .. Len(s) /\ m # n
      BY ONLY <1>a, <2>a, <2>7
    <3>2. EndAt(s, m - 1) = b + d /\ r[m] = s[m]
      <4>1. PICK z \in Nat : z = EndAt(s, m - 1) /\ EndAt(r, m - 1) = z - d
        BY <1>7, <3>1
      <4>2. b = z - d
        BY <2>2, <4>1
      <4>3. z = b + d
        BY ONLY <1>b, <4>2, z \in Nat, b \in Nat
      <4>4. r[m] = s[m]
        BY <1>1, <3>1
      <4>5. QED
        BY <4>1, <4>3, <4>4
    <3>3. FlattenSeq(s)[x + d] = s[m][y]
      <4>1. b + d + y = x + d
        BY ONLY <1>b, <2>b, b \in Nat, y \in Nat
      <4>2. FlattenSeq(s)[b + d + y] = s[m][y]
        BY <2>2, <2>4, <3>2
      <4>3. QED
        BY <4>1, <4>2
    <3>4. a + l <= b + d
      <4>1. m - 1 \in 0 .. Len(s) /\ n \in 0 .. m - 1
        BY ONLY <1>a, <2>a, <2>7
      <4>2. EndAt(s, n) <= EndAt(s, m - 1)
        BY ONLY <4>1, IsStream(B, s), EndsInOrder
      <4>3. QED
        BY <1>8, <3>2, <4>2
    <3>5. ~(x < place) /\ ~(d = 0 /\ x = place)
      <4>1. QED
        BY ONLY <1>b, <2>b, <3>4, a \in Nat, l \in Nat, b \in Nat, y \in Nat
    <3>6. QED
      BY <2>3, <3>2, <3>3, <3>5
  <2>8. m < n \/ m = n \/ m > n
    BY ONLY <1>a, <2>a
  <2>9. QED
    BY <2>5, <2>6, <2>7, <2>8
<1>11. Struck(FlattenSeq(r), FlattenSeq(s), place, d, c)
  BY <1>2, <1>9, <1>10 DEF Struck
<1>12. QED
  BY <1>6, <1>7, <1>8, <1>11

-----------------------------------------------------------------------------
(* Types.                                                                  *)

\* Some of the line is read.
LEMMA ReceiveIs ==
    ASSUME TypeOK, NEW n \in 1 .. DataLength, Receive(n)
    PROVE  /\ n \in 1 .. Len(line) /\ Len(line) \in Nat /\ Len(data) \in Nat
           /\ line' \in Seq(Bytes) /\ Len(line') = Len(line) - n
           /\ \A i \in 1 .. Len(line) - n : line'[i] = line[n + i]
           /\ SubSeq(line, 1, n) \in Seq(Bytes) /\ Len(SubSeq(line, 1, n)) = n
           /\ \A i \in 1 .. n : SubSeq(line, 1, n)[i] = line[i]
<1>1. data \in Seq(Bytes) /\ line \in Seq(Bytes) /\ DataLength \in Nat
  BY FramingConstants DEF TypeOK
<1>2. Len(line) \in Nat /\ Len(data) \in Nat /\ n \in Nat /\ n <= Len(line) /\ 0 \in Nat
  BY <1>1, LenProperties DEF Receive
<1>3. /\ SubSeq(line, n + 1, Len(line)) \in Seq(Bytes)
      /\ Len(SubSeq(line, n + 1, Len(line))) = Len(line) - n
      /\ \A i \in 1 .. Len(line) - n : SubSeq(line, n + 1, Len(line))[i] = line[n + i]
  <2>1. Len(line) <= Len(line)
    BY <1>2
  <2>2. QED
    BY <1>1, <1>2, <2>1, PartIs
<1>4. /\ SubSeq(line, 1, n) \in Seq(Bytes) /\ Len(SubSeq(line, 1, n)) = n
      /\ \A i \in 1 .. n : SubSeq(line, 1, n)[i] = line[i]
  <2>1. /\ SubSeq(line, 0 + 1, n) \in Seq(Bytes) /\ Len(SubSeq(line, 0 + 1, n)) = n - 0
        /\ \A i \in 1 .. n - 0 : SubSeq(line, 0 + 1, n)[i] = line[0 + i]
    <3>1. 0 <= n
      BY <1>2
    <3>2. QED
      BY <1>1, <1>2, <3>1, PartIs
  <2>2. 0 + 1 = 1 /\ n - 0 = n /\ \A i \in 1 .. n : 0 + i = i
    BY <1>2
  <2>3. QED
    BY <2>1, <2>2
<1>5. line' = SubSeq(line, n + 1, Len(line))
  BY DEF Receive
<1>6. QED
  BY <1>2, <1>3, <1>4, <1>5

\* base64_to_packet writes bytes of the segment over what the decode buffer held.
LEMMA DecodeType ==
    ASSUME NEW B, NEW old \in [1 .. DecodeLength -> B], NEW segment \in Seq(B)
    PROVE  Decode(old, segment) \in [1 .. DecodeLength -> B]
<1> DEFINE bad == {i \in 1 .. Len(segment) : segment[i] \in NotBase64}
           size == IF bad = {} THEN Len(segment) ELSE Min(bad) - 1
<1>1. Len(segment) \in Nat
  BY LenProperties
<1>2. size \in 0 .. Len(segment)
  <2>1. CASE bad = {}
    BY <1>1, <2>1
  <2>2. CASE bad # {}
    <3>1. bad \in SUBSET Nat /\ bad \in SUBSET (1 .. Len(segment))
      BY <1>1
    <3> HIDE DEF bad
    <3>2. Min(bad) \in bad
      BY <2>2, <3>1, MinIs
    <3>3. Min(bad) \in 1 .. Len(segment)
      BY <3>1, <3>2
    <3>4. QED
      BY <1>1, <2>2, <3>3
  <2>3. QED
    BY <2>1, <2>2
<1>3. Decode(old, segment) =
        IF Len(segment) > DecodeLength THEN old
        ELSE [i \in 1 .. DecodeLength |-> IF i <= size THEN segment[i] ELSE old[i]]
  BY DEF Decode, Invalid
<1> HIDE DEF size
<1>4. DecodeLength \in Nat
  BY FramingConstants
<1>5. ASSUME NEW i \in 1 .. DecodeLength, i <= size PROVE segment[i] \in B
  <2>1. i \in 1 .. Len(segment)
    BY <1>1, <1>2, <1>4, <1>5
  <2>2. QED
    BY <2>1, ElementOfSeq
<1>6. QED
  BY <1>3, <1>5

\* A text is the start of the segment.
LEMMA TextIs ==
    ASSUME NEW B, NEW segment \in Seq(B), NEW text \in Texts(segment)
    PROVE  /\ text \in Seq(B) /\ Len(text) \in Nat
           /\ \A k \in 1 .. Len(text) : k \in 1 .. Len(segment) /\ text[k] = segment[k]
<1>1. PICK l \in Nat : l = Len(segment)
  BY LenProperties
<1>2. CASE text = segment
  BY <1>1, <1>2
<1>3. CASE text # segment
  <2>1. PICK i \in 1 .. l : text = SubSeq(segment, 1, i - 1)
    BY <1>1, <1>3 DEF Texts, Positions
  <2>2. PICK n \in Nat : n = i - 1 /\ n <= l /\ 0 <= n
    BY <1>1
  <2>3. /\ SubSeq(segment, 0 + 1, n) \in Seq(B) /\ Len(SubSeq(segment, 0 + 1, n)) = n - 0
        /\ \A k \in 1 .. n - 0 : SubSeq(segment, 0 + 1, n)[k] = segment[0 + k]
    BY <1>1, <2>2, PartIs
  <2>4. 0 + 1 = 1 /\ n - 0 = n /\ \A k \in 1 .. n : 0 + k = k /\ k \in 1 .. l
    BY <1>1, <2>2
  <2>5. text \in Seq(B) /\ Len(text) = n /\ \A k \in 1 .. n : text[k] = segment[k]
    BY <2>1, <2>2, <2>3, <2>4
  <2>6. QED
    BY <1>1, <2>2, <2>4, <2>5
<1>4. QED
  BY <1>2, <1>3

\* So is what is between a Base64 header and its footer of the buffer, and a text of
\* it has padding only if the buffer has.
LEMMA SegmentIs ==
    ASSUME data \in Seq(Bytes), Base64Found, NEW text \in Texts(Segment64)
    PROVE  /\ Segment64 \in Seq(Bytes) /\ text \in Seq(Bytes)
           /\ Padded(text) => Padding \in Range(data)
<1>1. PICK l \in Nat : l = Len(data) /\ DOMAIN data = 1 .. l
  BY LenProperties
<1>2. PICK h \in 1 .. l, e \in 1 .. l : h = Found.colon /\ e = Found.exclam /\ h < e
  BY <1>1, FoundIs
<1>3. PICK n \in Nat : n = e - 1 /\ h \in Nat /\ n <= l /\ h <= n
  <2>1. e - 1 \in Nat /\ h \in Nat /\ e - 1 <= l /\ h <= e - 1
    BY <1>2
  <2>2. QED
    BY <2>1
<1>4. /\ SubSeq(data, h + 1, n) \in Seq(Bytes) /\ Len(SubSeq(data, h + 1, n)) = n - h
      /\ \A k \in 1 .. n - h : SubSeq(data, h + 1, n)[k] = data[h + k]
  BY <1>1, <1>3, PartIs
<1>5. /\ Segment64 \in Seq(Bytes) /\ Len(Segment64) = n - h
      /\ \A k \in 1 .. n - h : Segment64[k] = data[h + k]
  BY <1>2, <1>3, <1>4 DEF Segment64
<1>6. /\ text \in Seq(Bytes) /\ Len(text) \in Nat
      /\ \A k \in 1 .. Len(text) : k \in 1 .. Len(Segment64) /\ text[k] = Segment64[k]
  BY <1>5, TextIs
<1>7. ASSUME Padded(text) PROVE Padding \in Range(data)
  <2>1. PICK S : S = Invalid(text)
    OBVIOUS
  <2>2. S \in SUBSET (1 .. Len(text)) /\ S \in SUBSET Nat /\ S # {}
    BY <1>6, <1>7, <2>1 DEF Invalid, Padded
  <2>3. Min(S) \in S
    BY <2>2, MinIs
  <2>4. PICK k \in 1 .. Len(text) : k = Min(S) /\ text[k] = Padding
    BY <1>7, <2>1, <2>2, <2>3 DEF Padded
  <2>5. k \in 1 .. n - h /\ text[k] = data[h + k]
    BY <1>5, <1>6
  <2>6. h + k \in 1 .. l
    BY <1>3, <2>5
  <2>7. QED
    BY <1>1, <2>4, <2>5, <2>6 DEF Range
<1>8. QED
  BY <1>5, <1>6, <1>7

\* A step keeps the types.
LEMMA TypeStep ==
    ASSUME TypeOK, [Next]_vars
    PROVE  TypeOK'
<1>1. /\ data \in Seq(Bytes) /\ line \in Seq(Bytes) /\ stream \in Streams
      /\ carried \in Seq(Seq(Bytes)) /\ Len(carried) = Len(stream)
      /\ lost \in Seq(1 .. Len(stream)) /\ packets \in Seq(Bytes \X Bytes)
      /\ decoded \in [1 .. DecodeLength -> Bytes]
      /\ Len(data) <= DataLength /\ Len(lost) <= MaxLoss /\ overrun \in BOOLEAN
      /\ pc \in {"receive", "scan", "stuck"} /\ delimited \in BOOLEAN
  BY DEF TypeOK
<1>2. Len(data) \in Nat /\ Len(line) \in Nat /\ Len(lost) \in Nat
  BY <1>1, LenProperties
<1>3. DataLength \in Nat /\ MaxLoss \in Nat /\ DecodeLength \in Nat \ {0, 1}
  BY FramingConstants
<1>4. ASSUME NEW n \in 1 .. DataLength, Receive(n) PROVE TypeOK'
  <2>1. line' \in Seq(Bytes) /\ SubSeq(line, 1, n) \in Seq(Bytes)
    BY <1>4, ReceiveIs
  <2>2. data' \in Seq(Bytes) /\ Len(data') <= DataLength
    <3>1. data' = PushBytes(data, SubSeq(line, 1, n))
      BY <1>4 DEF Receive
    <3>2. PushBytes(data, SubSeq(line, 1, n)) \in Seq(Bytes)
      BY <1>1, <2>1, PushBytesIs
    <3>3. Len(PushBytes(data, SubSeq(line, 1, n))) <= DataLength
      <4>1. LastBytes(PushBytes(data, SubSeq(line, 1, n)), data \o SubSeq(line, 1, n))
        BY <1>1, <2>1, PushBytesIs
      <4>2. QED
        BY <4>1 DEF LastBytes
    <3>4. QED
      BY <3>1, <3>2, <3>3
  <2>3. /\ overrun' \in BOOLEAN /\ pc' = "scan" /\ decoded' = decoded /\ packets' = packets
        /\ stream' = stream /\ carried' = carried /\ lost' = lost /\ delimited' = delimited
    BY <1>4 DEF Receive
  <2>4. QED
    BY <1>1, <2>1, <2>2, <2>3 DEF TypeOK
<1>5. ASSUME NEW i \in 1 .. Len(line), Lose(i) \/ \E c \in Noise : Garble(i, c) PROVE TypeOK'
  <2>1. /\ data' = data /\ decoded' = decoded /\ packets' = packets /\ pc' = pc
        /\ stream' = stream /\ overrun' = overrun /\ Len(lost) < MaxLoss
    BY <1>5 DEF Lose, Garble
  <2>2. PICK n \in 1 .. Len(carried) :
          \E j \in 1 .. Len(carried[n]) : \E d \in {0, 1} :
            \E c \in Bytes : LossAt(i, n, j, d, c)
    BY <1>5, LossIs
  <2>3. lost' \in Seq(1 .. Len(stream)) /\ Len(lost') <= MaxLoss
    <3>1. lost' = Append(lost, n) /\ n \in 1 .. Len(stream)
      BY <1>1, <2>2 DEF LossAt
    <3>2. lost' \in Seq(1 .. Len(stream)) /\ Len(lost') = Len(lost) + 1
      BY <1>1, <3>1, AppendProperties
    <3>3. QED
      BY <1>2, <1>3, <2>1, <3>2
  <2>4. carried' \in Seq(Seq(Bytes)) /\ Len(carried') = Len(carried)
    BY <2>2 DEF LossAt
  <2>5. line' \in Seq(Bytes) /\ delimited' \in BOOLEAN
    BY <1>1, <2>2 DEF LossAt
  <2>6. QED
    BY <1>1, <2>1, <2>3, <2>4, <2>5 DEF TypeOK
<1>6. ASSUME ScanBinary PROVE TypeOK'
  <2>1. /\ decoded' = decoded /\ pc' = pc /\ line' = line /\ stream' = stream /\ lost' = lost
        /\ carried' = carried /\ delimited' = delimited /\ overrun' = overrun
        /\ BinaryFound /\ Pop(Found.exclam)
        /\ packets' = packets \o SegmentPackets(SubSeq(data, Found.binary + 1, Found.exclam - 2))
    BY <1>6 DEF ScanBinary
  <2>2. /\ Found.binary \in 1 .. Len(data) /\ Found.exclam \in 1 .. Len(data)
        /\ Found.binary < Found.exclam
    BY <1>1, <2>1, FoundIs
  <2>3. data' \in Seq(Bytes) /\ Len(data') <= DataLength
    <3>1. data' \in Seq(Bytes) /\ Len(data') = Len(data) - Found.exclam
      BY <1>1, <2>1, <2>2, PopIs
    <3>2. QED
      BY <1>1, <1>2, <1>3, <2>2, <3>1
  <2>4. SubSeq(data, Found.binary + 1, Found.exclam - 2) \in Seq(Bytes)
    <3>1. PICK m \in Int, e \in Int : m = Found.binary + 1 /\ e = Found.exclam - 2
      BY <2>2
    <3>2. \A i \in m .. e : i \in 1 .. Len(data)
      BY <1>2, <2>2, <3>1
    <3>3. \A i \in m .. e : data[i] \in Bytes
      BY <1>1, <3>2, ElementOfSeq
    <3>4. QED
      BY <3>1, <3>3, SubSeqProperties
  <2>5. packets' \in Seq(Bytes \X Bytes)
    <3>1. SegmentPackets(SubSeq(data, Found.binary + 1, Found.exclam - 2)) \in Seq(Bytes \X Bytes)
      BY <2>4, SegmentPacketsType
    <3>2. QED
      BY <1>1, <2>1, <3>1, ConcatProperties
  <2>6. QED
    BY <1>1, <2>1, <2>3, <2>5 DEF TypeOK
<1>7. ASSUME ScanBase64 PROVE TypeOK'
  <2>1. /\ pc' = pc /\ line' = line /\ stream' = stream /\ lost' = lost
        /\ carried' = carried /\ delimited' = delimited /\ overrun' = overrun
        /\ Base64Found /\ Pop(Found.exclam)
        /\ packets' = packets \/ packets' = Append(packets, SubSeq(decoded', 1, 2))
    BY <1>7 DEF ScanBase64
  <2>a. PICK text \in Texts(Segment64) : decoded' = decoded \/ decoded' = Decode(decoded, text)
    BY <1>7 DEF ScanBase64
  <2>2. /\ Found.colon \in 1 .. Len(data) /\ Found.exclam \in 1 .. Len(data)
        /\ Found.colon < Found.exclam
    BY <1>1, <2>1, FoundIs
  <2>3. data' \in Seq(Bytes) /\ Len(data') <= DataLength
    <3>1. data' \in Seq(Bytes) /\ Len(data') = Len(data) - Found.exclam
      BY <1>1, <2>1, <2>2, PopIs
    <3>2. QED
      BY <1>1, <1>2, <1>3, <2>2, <3>1
  <2>4. text \in Seq(Bytes)
    BY <1>1, <2>1, SegmentIs
  <2>5. decoded' \in [1 .. DecodeLength -> Bytes]
    <3>1. Decode(decoded, text) \in [1 .. DecodeLength -> Bytes]
      BY <1>1, <2>4, DecodeType
    <3>2. QED
      BY <1>1, <2>a, <3>1
  <2>6. SubSeq(decoded', 1, 2) \in Bytes \X Bytes
    <3>1. PICK d \in [1 .. DecodeLength -> Bytes] : d = decoded'
      BY <2>5
    <3>2. 1 \in 1 .. DecodeLength /\ 2 \in 1 .. DecodeLength /\ 1 + 1 = 2 /\ 1 \in Nat
      BY <1>3
    <3>3. d[1] \in Bytes /\ d[2] \in Bytes /\ d[1 + 1] \in Bytes
      BY <3>2
    <3>4. SubSeq(d, 1, 1 + 1) = <<d[1], d[1 + 1]>>
      BY <3>2, <3>3, FirstTwo
    <3>5. SubSeq(d, 1, 2) = <<d[1], d[2]>>
      BY <3>2, <3>4
    <3>6. QED
      BY <3>1, <3>3, <3>5
  <2>7. packets' \in Seq(Bytes \X Bytes)
    <3>1. PICK P, x : P = Bytes \X Bytes /\ x = SubSeq(decoded', 1, 2)
      OBVIOUS
    <3>2. packets \in Seq(P) /\ x \in P
      BY <1>1, <2>6, <3>1
    <3>3. Append(packets, x) \in Seq(P)
      BY <3>2, AppendProperties
    <3>4. packets' = packets \/ packets' = Append(packets, x)
      BY <2>1, <3>1
    <3>5. packets' \in Seq(P)
      BY <3>2, <3>3, <3>4
    <3>6. QED
      BY <3>1, <3>5
  <2>8. QED
    BY <1>1, <2>1, <2>3, <2>5, <2>7 DEF TypeOK
<1>8. ASSUME ScanCommands PROVE TypeOK'
  <2>1. /\ decoded' = decoded /\ packets' = packets /\ pc' = pc /\ line' = line
        /\ stream' = stream /\ carried' = carried /\ lost' = lost /\ delimited' = delimited
        /\ overrun' = overrun /\ Found.semicolon # 0 /\ Pop(Found.semicolon)
    BY <1>8 DEF ScanCommands
  <2>2. Found.semicolon \in 1 .. Len(data)
    BY <1>1, <2>1, FoundIs
  <2>3. data' \in Seq(Bytes) /\ Len(data') <= DataLength
    <3>1. data' \in Seq(Bytes) /\ Len(data') = Len(data) - Found.semicolon
      BY <1>1, <2>1, <2>2, PopIs
    <3>2. QED
      BY <1>1, <1>2, <1>3, <2>2, <3>1
  <2>4. QED
    BY <1>1, <2>1, <2>3 DEF TypeOK
<1>a. CASE DecodeForEver
  <2>1. /\ data' = data /\ packets' = packets /\ line' = line /\ stream' = stream
        /\ carried' = carried /\ lost' = lost /\ delimited' = delimited
        /\ overrun' = overrun /\ pc' = "stuck" /\ Base64Found
    BY <1>a DEF DecodeForEver
  <2>2. PICK text \in Texts(Segment64) : decoded' = Decode(Zeroed, text)
    BY <1>a DEF DecodeForEver
  <2>3. text \in Seq(Bytes) /\ Zeroed \in [1 .. DecodeLength -> Bytes]
    BY <1>1, <2>1, SegmentIs DEF Zeroed, Bytes
  <2>4. decoded' \in [1 .. DecodeLength -> Bytes]
    BY <2>2, <2>3, DecodeType
  <2>5. QED
    BY <1>1, <2>1, <2>4 DEF TypeOK
<1>9. CASE ScanNothing
  BY <1>1, <1>9 DEF TypeOK, ScanNothing
<1>10. CASE UNCHANGED vars
  BY <1>1, <1>10 DEF TypeOK, vars
<1>11. QED
  BY <1>4, <1>5, <1>6, <1>7, <1>8, <1>a, <1>9, <1>10 DEF Next, Scanning

\* Everything starts with its type.
LEMMA TypeInit == Init => TypeOK
<1> SUFFICES ASSUME Init PROVE TypeOK
  OBVIOUS
<1>1. /\ data = <<>> /\ packets = <<>> /\ pc = "receive" /\ lost = <<>> /\ overrun = FALSE
      /\ decoded = [i \in 1 .. DecodeLength |-> ZeroByte] /\ delimited = FALSE
      /\ stream \in Streams /\ line = FlattenSeq(stream)
  BY DEF Init, Zeroed
<1>2. data \in Seq(Bytes) /\ packets \in Seq(Bytes \X Bytes) /\ lost \in Seq(1 .. Len(stream))
      /\ Len(data) = 0 /\ Len(lost) = 0
  BY <1>1, EmptySeq
<1>3. ZeroByte \in Bytes
  BY DEF Bytes
<1>4. line \in Seq(Bytes) /\ carried \in Seq(Seq(Bytes)) /\ Len(carried) = Len(stream)
  BY <1>1, StreamBytes DEF Init, IsStream
<1>5. DataLength \in Nat /\ MaxLoss \in Nat
  BY FramingConstants
<1>6. Len(data) <= DataLength /\ Len(lost) <= MaxLoss
  BY <1>2, <1>5
<1>7. /\ decoded \in [1 .. DecodeLength -> Bytes] /\ pc \in {"receive", "scan", "stuck"}
      /\ stream \in Streams /\ overrun \in BOOLEAN /\ delimited \in BOOLEAN
  BY <1>1, <1>3
<1>8. QED
  BY <1>2, <1>4, <1>6, <1>7 DEF TypeOK

\* data_buffer never holds more than it has room for, the decode buffer keeps its
\* length, and what is passed to the packet queue are packets.
THEOREM FramingTypeCorrect == Spec => []TypeOK
<1>1. QED
  BY TypeInit, TypeStep, PTL DEF Spec

\* fs_device_process_packets_serial comes to an end: each turn of its loop pops
\* something, or is the last; only when the buffer holds a "=" it may hang.
THEOREM TurnsAreShorter == Spec => TurnsShrinkData
<1> DEFINE Turn == pc = "scan" => \/ pc' = "receive" \/ Len(data') < Len(data)
                                  \/ pc' = "stuck" /\ Padding \in Range(data)
<1>1. ASSUME TypeOK, [Next]_vars PROVE [Turn]_vars
  <2>1. data \in Seq(Bytes) /\ Len(data) \in Nat
    BY <1>1, LenProperties DEF TypeOK
  <2>2. ASSUME NEW n \in 1 .. Len(data), Pop(n) PROVE Len(data') < Len(data)
    <3>1. Len(data') = Len(data) - n
      BY <2>1, <2>2, PopIs
    <3>2. QED
      BY <2>1, <3>1
  <2>3. CASE ScanBinary
    <3>1. Found.exclam \in 1 .. Len(data) /\ Pop(Found.exclam)
      BY <2>1, <2>3, FoundIs DEF ScanBinary
    <3>2. QED
      BY <2>2, <3>1
  <2>4. CASE ScanBase64
    <3>1. Found.exclam \in 1 .. Len(data) /\ Pop(Found.exclam)
      BY <2>1, <2>4, FoundIs DEF ScanBase64
    <3>2. QED
      BY <2>2, <3>1
  <2>5. CASE ScanCommands
    <3>1. Found.semicolon \in 1 .. Len(data) /\ Pop(Found.semicolon)
      BY <2>1, <2>5, FoundIs DEF ScanCommands
    <3>2. QED
      BY <2>2, <3>1
  <2>a. CASE DecodeForEver
    <3>1. Base64Found /\ pc' = "stuck"
      BY <2>a DEF DecodeForEver
    <3>2. PICK text \in Texts(Segment64) : Padded(text)
      BY <2>a DEF DecodeForEver
    <3>3. Padding \in Range(data)
      BY <2>1, <3>1, <3>2, SegmentIs
    <3>4. QED
      BY <3>1, <3>3
  <2>6. CASE ScanNothing
    BY <2>6 DEF ScanNothing
  <2>7. CASE \E n \in 1 .. DataLength : Receive(n)
    BY <2>7 DEF Receive
  <2>8. CASE \E i \in 1 .. Len(line) : Lose(i) \/ \E c \in Noise : Garble(i, c)
    BY <2>8 DEF Lose, Garble
  <2>9. CASE UNCHANGED vars
    BY <2>9
  <2>10. QED
    BY <1>1, <2>3, <2>4, <2>5, <2>a, <2>6, <2>7, <2>8, <2>9 DEF Next, Scanning
<1>2. QED
  BY <1>1, FramingTypeCorrect, PTL DEF Spec, TurnsShrinkData

-----------------------------------------------------------------------------
(* What has been delivered.                                                *)

\* data_buffer and the line hold what the stream holds behind place p.
Held(p) ==
    /\ Window(carried, p, data) /\ Window(carried, p + Len(data), line)
    /\ p + Len(data) + Len(line) = Len(FlattenSeq(carried))

\* Only packets of frames that end at place p or in front of it have been passed on.
DeliveredSome(p) ==
    \E k \in 0 .. Len(carried) : EndAt(carried, k) <= p /\ Embeds(packets, Sent(carried, k))

\* A frame ends at place p, and all the packets in front of it have been passed on.
DeliveredAll(p) ==
    \E k \in 0 .. Len(carried) : EndAt(carried, k) = p /\ packets = Sent(carried, k)

\* The function has returned, as there is no frame in the buffer.
NothingFound == pc = "receive" => data = <<>> \/ ~FrameSeen(data)

\* What holds of the place where the buffer begins.
FrontAt(p) ==
    /\ Held(p) /\ DeliveredSome(p) /\ pc # "stuck"
    /\ ~overrun => DeliveredAll(p) /\ NothingFound

\* As long as the line has lost nothing.
FrameInv == Spared => \E p \in Nat : FrontAt(p)

\* What is popped is behind the front of the buffer.
LEMMA HeldAfterPop ==
    ASSUME TypeOK, IsStream(Bytes, carried), NEW p \in Nat, Held(p),
           NEW n \in 1 .. Len(data), Pop(n), line' = line, carried' = carried,
           NEW q \in Nat, q = p + n
    PROVE  Held(q)'
<1>1. data \in Seq(Bytes) /\ Len(data) \in Nat /\ Len(line) \in Nat
  BY LenProperties DEF TypeOK
<1>2. Len(data') = Len(data) - n /\ \A i \in 1 .. Len(data) - n : data'[i] = data[n + i]
  BY <1>1, PopIs
<1>3. PICK w, m : w = FlattenSeq(carried) /\ m = Len(w) /\ m \in Nat
  BY WholeStream DEF TypeOK
<1>4. /\ p + Len(data) + Len(line) = m
      /\ \A i \in 1 .. Len(data) : data[i] = w[p + i]
      /\ \A i \in 1 .. Len(line) : line[i] = w[p + Len(data) + i]
  BY <1>3 DEF Held, Window
<1>5. PICK l \in Nat : l = Len(data') /\ l = Len(data) - n
  <2>1. Len(data) - n \in Nat
    BY <1>1
  <2>2. QED
    BY <1>2, <2>1
<1>6. q + l = p + Len(data) /\ q + l <= m /\ p + Len(data) + Len(line) <= m
  BY <1>1, <1>4, <1>5
<1>7. ASSUME NEW i \in 1 .. l PROVE data'[i] = w[q + i]
  <2>1. PICK x \in 1 .. Len(data) : x = n + i /\ p + x = q + i
    <3>1. n + i \in 1 .. Len(data) /\ p + (n + i) = q + i
      BY <1>1, <1>5
    <3>2. QED
      BY <3>1
  <2>2. data'[i] = data[x]
    BY <1>2, <1>5, <2>1
  <2>3. data[x] = w[p + x]
    BY <1>4
  <2>4. QED
    BY <2>1, <2>2, <2>3
<1>8. Window(carried, q, data')
  BY <1>3, <1>5, <1>6, <1>7 DEF Window
<1>9. Window(carried, q + Len(data'), line)
  <2>1. PICK r \in Nat : r = p + Len(data) /\ r = q + Len(data')
    BY <1>1, <1>5, <1>6
  <2>2. Window(carried, r, line)
    BY <2>1 DEF Held
  <2>3. QED
    BY <2>1, <2>2
<1>10. q + Len(data') + Len(line) = Len(FlattenSeq(carried))
  BY <1>3, <1>4, <1>5, <1>6
<1>11. QED
  BY <1>8, <1>9, <1>10 DEF Held

\* A frame that is found, and whose packets are passed on.
LEMMA FrameDelivered ==
    ASSUME TypeOK, IsStream(Bytes, carried), NEW p \in Nat, Held(p), DeliveredSome(p),
           ~overrun => DeliveredAll(p), NEW n \in 1 .. Len(carried),
           NEW h \in 1 .. Len(data), NEW e \in 1 .. Len(data),
           p + h = EndAt(carried, n - 1) + 1, p + e = EndAt(carried, n),
           \A x \in 1 .. e - 1 : data[x] # Footer,
           HasPackets(carried[n]), packets' = packets \o PacketsOf(carried[n]),
           carried' = carried, overrun' = overrun, NEW q \in Nat, q = p + e
    PROVE  DeliveredSome(q)' /\ (~overrun' => DeliveredAll(q)')
<1>1. IsStream(Bytes, carried) /\ Len(carried) \in Nat
  BY WholeStream, LenProperties DEF TypeOK, IsStream
<1>2. packets \in Seq(Bytes \X Bytes) /\ data \in Seq(Bytes) /\ Window(carried, p, data)
  BY DEF TypeOK, Held
<1>3. n \in 0 .. Len(carried) /\ n - 1 \in 0 .. Len(carried)
  BY <1>1
<1>4. EndAt(carried, n - 1) \in Nat /\ EndAt(carried, n) \in Nat
  BY <1>1, <1>3, EndsInOrder
<1>5. /\ Sent(carried, n - 1) \in Seq(Bytes \X Bytes)
      /\ PacketsOf(carried[n]) \in Seq(Bytes \X Bytes)
      /\ Sent(carried, n) = Sent(carried, n - 1) \o PacketsOf(carried[n])
  <2>1. IsFrame(carried[n]) /\ carried[n] \in Seq(Bytes)
    BY <1>1, ElementOfSeq DEF IsStream
  <2>2. PacketsOf(carried[n]) \in Seq(Bytes \X Bytes)
    BY <2>1, PacketsOfFrame
  <2>3. QED
    BY <1>1, <1>3, <2>2, SentNext
<1>6. DeliveredSome(q)'
  <2>1. PICK k \in 0 .. Len(carried) : EndAt(carried, k) <= p /\ Embeds(packets, Sent(carried, k))
    BY DEF DeliveredSome
  <2>2. EndAt(carried, k) \in Nat /\ EndAt(carried, k) <= EndAt(carried, n - 1)
    <3>1. EndAt(carried, k) \in Nat
      BY <1>1, EndsInOrder
    <3>2. QED
      BY <1>4, <2>1, <3>1
  <2>3. n - 1 \in k .. Len(carried)
    <3>1. CASE k \in 0 .. n - 1
      BY <1>1, <1>3, <3>1
    <3>2. CASE n \in 0 .. k
      <4>1. EndAt(carried, n) <= EndAt(carried, k) /\ EndAt(carried, n - 1) < EndAt(carried, n)
        <5>1. Len(carried[n]) # 0
          BY PacketsTakeBytes
        <5>2. n - 1 \in 0 .. n - 1
          BY <1>1
        <5>3. QED
          BY <1>1, <3>2, <5>1, <5>2, EndsInOrder, EndsApart
      <4>2. QED
        BY <1>4, <2>2, <4>1
    <3>3. QED
      BY <1>1, <3>1, <3>2
  <2>4. Embeds(packets, Sent(carried, n - 1))
    BY <1>1, <1>2, <2>1, <2>3, SentMore
  <2>5. Embeds(packets', Sent(carried, n))
    <3>1. PICK D : D = Bytes \X Bytes
      OBVIOUS
    <3>2. PICK a \in Seq(D), b \in Seq(D), c \in Seq(D) :
            /\ a = packets /\ b = Sent(carried, n - 1) /\ c = PacketsOf(carried[n])
      BY <1>2, <1>5, <3>1
    <3>3. Embeds(a \o c, b \o c)
      BY <2>4, <3>2, EmbedsBehind
    <3>4. QED
      BY <1>5, <3>2, <3>3
  <2>6. EndAt(carried, n) <= q
    BY <1>4
  <2>7. QED
    BY <1>3, <2>5, <2>6 DEF DeliveredSome
<1>7. ASSUME ~overrun' PROVE DeliveredAll(q)'
  <2>1. PICK k \in 0 .. Len(carried) : EndAt(carried, k) = p /\ packets = Sent(carried, k)
    BY <1>7 DEF DeliveredAll
  <2>2. k < n /\ \A m \in k + 1 .. n - 1 : ~HasPackets(carried[m])
    <3>1. Window(carried, EndAt(carried, k), data) /\ EndAt(carried, k) + e = EndAt(carried, n)
      BY <1>2, <2>1
    <3>2. QED
      BY <1>1, <1>2, <3>1, NothingBetween
  <2>3. n - 1 \in k .. Len(carried)
    BY <1>1, <2>2
  <2>4. Sent(carried, n - 1) = Sent(carried, k)
    BY <1>1, <2>2, <2>3, SentSkip
  <2>5. packets' = Sent(carried, n)
    BY <1>5, <2>1, <2>4
  <2>6. EndAt(carried, n) = q
    OBVIOUS
  <2>7. QED
    BY <1>3, <2>5, <2>6 DEF DeliveredAll
<1>8. QED
  BY <1>6, <1>7

\* A read moves bytes from the line to the buffer; the oldest ones may give way.
LEMMA FrontReceive ==
    ASSUME TypeOK, IsStream(Bytes, carried), NEW p \in Nat, FrontAt(p),
           NEW n \in 1 .. DataLength, Receive(n)
    PROVE  \E q \in Nat : FrontAt(q)'
<1> DEFINE new == SubSeq(line, 1, n)
<1>1. /\ n \in 1 .. Len(line) /\ Len(line) \in Nat /\ Len(data) \in Nat
      /\ line' \in Seq(Bytes) /\ Len(line') = Len(line) - n
      /\ \A i \in 1 .. Len(line) - n : line'[i] = line[n + i]
      /\ new \in Seq(Bytes) /\ Len(new) = n /\ \A i \in 1 .. n : new[i] = line[i]
      /\ data \in Seq(Bytes)
  BY ReceiveIs DEF TypeOK
<1>2. /\ data' = PushBytes(data, new) /\ overrun' = (overrun \/ Len(data) + n > DataLength)
      /\ pc' = "scan" /\ carried' = carried /\ packets' = packets
  BY DEF Receive
<1> HIDE DEF new
<1>3. PICK all \in Seq(Bytes) :
        /\ all = data \o new /\ Len(all) = Len(data) + n
        /\ \A i \in 1 .. Len(data) + n : all[i] = IF i <= Len(data) THEN data[i]
                                                  ELSE new[i - Len(data)]
  <2>1. /\ data \o new \in Seq(Bytes) /\ Len(data \o new) = Len(data) + Len(new)
        /\ \A i \in 1 .. Len(data) + Len(new) :
             (data \o new)[i] = IF i <= Len(data) THEN data[i] ELSE new[i - Len(data)]
    BY <1>1, ConcatProperties
  <2>2. Len(new) = n
    BY <1>1
  <2>3. QED
    BY <2>1, <2>2
<1>4. PICK d \in 0 .. Len(all) :
        /\ Len(data') = Len(all) - d
        /\ \A i \in 1 .. Len(data') : data'[i] = all[d + i]
        /\ Len(all) <= DataLength => d = 0
  <2>1. LastBytes(PushBytes(data, new), data \o new)
    BY <1>1, PushBytesIs
  <2>2. LastBytes(data', all)
    BY <1>2, <1>3, <2>1
  <2>3. QED
    BY <2>2 DEF LastBytes
<1>5. PICK w, m : w = FlattenSeq(carried) /\ m = Len(w) /\ m \in Nat
  BY WholeStream DEF TypeOK
<1>6. /\ p + Len(data) + Len(line) = m
      /\ \A i \in 1 .. Len(data) : data[i] = w[p + i]
      /\ \A i \in 1 .. Len(line) : line[i] = w[p + Len(data) + i]
  BY <1>5 DEF FrontAt, Held, Window
<1>7. ASSUME NEW i \in 1 .. Len(all) PROVE all[i] = w[p + i]
  <2>1. i \in 1 .. Len(data) + n
    BY <1>3
  <2>2. CASE i <= Len(data)
    <3>1. i \in 1 .. Len(data)
      BY <1>1, <2>1, <2>2
    <3>2. QED
      BY <1>3, <1>6, <2>1, <2>2, <3>1
  <2>3. CASE ~(i <= Len(data))
    <3>1. PICK x \in 1 .. n : x = i - Len(data) /\ p + Len(data) + x = p + i
      <4>1. i - Len(data) \in 1 .. n /\ p + Len(data) + (i - Len(data)) = p + i
        BY <1>1, <2>1, <2>3
      <4>2. QED
        BY <4>1
    <3>2. x \in 1 .. Len(line)
      BY <1>1
    <3>3. all[i] = new[x] /\ new[x] = line[x] /\ line[x] = w[p + Len(data) + x]
      BY <1>1, <1>3, <1>6, <2>1, <2>3, <3>1, <3>2
    <3>4. QED
      BY <3>1, <3>3
  <2>4. QED
    BY <2>2, <2>3
<1>8. PICK q \in Nat, l \in Nat : q = p + d /\ l = Len(data') /\ q + l = p + Len(data) + n
  <2>1. /\ p + d \in Nat /\ Len(all) - d \in Nat
        /\ p + d + (Len(all) - d) = p + Len(data) + n
    BY <1>1, <1>3, SMTT(30)
  <2>2. QED
    BY <1>4, <2>1
<1>9. Window(carried, q, data')
  <2>1. ASSUME NEW i \in 1 .. l PROVE data'[i] = w[q + i]
    <3>1. PICK x \in 1 .. Len(all) : x = d + i /\ p + x = q + i
      <4>1. l = Len(all) - d /\ Len(all) \in Nat
        BY <1>1, <1>3, <1>4, <1>8
      <4>2. d + i \in 1 .. Len(all) /\ p + (d + i) = q + i
        BY <1>8, <4>1
      <4>3. QED
        BY <4>2
    <3>2. data'[i] = all[x]
      BY <1>4, <1>8, <3>1
    <3>3. QED
      BY <1>7, <3>1, <3>2
  <2>2. q + l <= m
    BY <1>1, <1>6, <1>8
  <2>3. QED
    BY <1>5, <1>8, <2>1, <2>2 DEF Window
<1>10. Window(carried, q + l, line')
  <2>1. PICK r \in Nat, k \in Nat : r = q + l /\ k = Len(line') /\ r + k <= m /\ k = Len(line) - n
    <3>1. q + l \in Nat /\ Len(line) - n \in Nat /\ q + l + (Len(line) - n) <= m
      BY <1>1, <1>6, <1>8
    <3>2. QED
      BY <1>1, <3>1
  <2>2. ASSUME NEW i \in 1 .. k PROVE line'[i] = w[r + i]
    <3>1. PICK x \in 1 .. Len(line) : x = n + i /\ p + Len(data) + x = r + i
      <4>1. n \in 1 .. Len(line) /\ Len(line) \in Nat /\ Len(data) \in Nat
        BY <1>1
      <4>2. n + i \in 1 .. Len(line) /\ p + Len(data) + (n + i) = r + i
        BY <1>8, <2>1, <4>1, SMTT(30)
      <4>3. QED
        BY <4>2
    <3>2. line'[i] = line[x]
      BY <1>1, <2>1, <3>1
    <3>3. QED
      BY <1>6, <3>1, <3>2
  <2>3. Window(carried, r, line')
    BY <1>5, <2>1, <2>2 DEF Window
  <2>4. QED
    BY <2>1, <2>3
<1>11. Held(q)'
  <2>1. q + l + Len(line') = m
    BY <1>1, <1>6, <1>8
  <2>2. QED
    BY <1>2, <1>5, <1>8, <1>9, <1>10, <2>1 DEF Held
<1>12. DeliveredSome(q)'
  <2>1. PICK k \in 0 .. Len(carried) : EndAt(carried, k) <= p /\ Embeds(packets, Sent(carried, k))
    BY DEF FrontAt, DeliveredSome
  <2>2. EndAt(carried, k) \in Nat
    BY WholeStream, EndsInOrder DEF TypeOK
  <2>3. EndAt(carried, k) <= q
    BY <1>8, <2>1, <2>2
  <2>4. QED
    BY <1>2, <2>1, <2>3 DEF DeliveredSome
<1>13. ASSUME ~overrun' PROVE DeliveredAll(q)' /\ NothingFound'
  <2>1. ~overrun /\ ~(Len(data) + n > DataLength)
    BY <1>2, <1>13
  <2>2. q = p
    <3>1. Len(all) <= DataLength
      BY <1>1, <1>3, <2>1, FramingConstants
    <3>2. QED
      BY <1>4, <1>8, <3>1
  <2>3. DeliveredAll(p)
    BY <2>1 DEF FrontAt
  <2>4. DeliveredAll(q)'
    BY <1>2, <2>2, <2>3 DEF DeliveredAll
  <2>5. QED
    BY <1>2, <2>4 DEF NothingFound
<1>14. QED
  BY <1>2, <1>11, <1>12, <1>13 DEF FrontAt

\* A frame is found, popped and passed on.
LEMMA FrontFrame ==
    ASSUME TypeOK, IsStream(Bytes, carried), NEW p \in Nat, FrontAt(p),
           NEW c \in {Header, HeaderV2}, HeaderIndex(data, c) # 0,
           FirstFooter(data) > HeaderIndex(data, c),
           \A n \in 1 .. Len(carried) :
             /\ carried[n][1] = c /\ HasPackets(carried[n])
             /\ p + HeaderIndex(data, c) = EndAt(carried, n - 1) + 1
             /\ p + FirstFooter(data) = EndAt(carried, n)
             => packets' = packets \o PacketsOf(carried[n]),
           Pop(FirstFooter(data)), pc = "scan", pc' = pc, line' = line, carried' = carried,
           overrun' = overrun
    PROVE  \E q \in Nat : FrontAt(q)'
<1>1. /\ IsStream(Bytes, carried) /\ data \in Seq(Bytes) /\ Len(data) \in Nat
      /\ Held(p) /\ Window(carried, p, data)
  BY WholeStream, LenProperties DEF TypeOK, FrontAt, Held
<1>2. PICK h \in 1 .. Len(data), e \in 1 .. Len(data) :
        h = HeaderIndex(data, c) /\ e = FirstFooter(data) /\ \A x \in 1 .. e - 1 : data[x] # Footer
  BY <1>1, HeaderIs
<1>3. PICK n \in 1 .. Len(carried) :
        /\ p + HeaderIndex(data, c) = EndAt(carried, n - 1) + 1
        /\ p + FirstFooter(data) = EndAt(carried, n)
        /\ carried[n][1] = c /\ HasPackets(carried[n])
  BY <1>1, FrameFound
<1>4. packets' = packets \o PacketsOf(carried[n])
  BY <1>3
<1>5. PICK q \in Nat : q = p + e
  BY <1>1
<1>6. Held(q)'
  BY <1>1, <1>2, <1>5, HeldAfterPop
<1>7. DeliveredSome(q)' /\ (~overrun' => DeliveredAll(q)')
  <2>1. DeliveredSome(p) /\ (~overrun => DeliveredAll(p))
    BY DEF FrontAt
  <2>2. p + h = EndAt(carried, n - 1) + 1 /\ p + e = EndAt(carried, n)
    BY <1>2, <1>3
  <2>3. HasPackets(carried[n]) /\ \A x \in 1 .. e - 1 : data[x] # Footer
    BY <1>2, <1>3
  <2>4. QED
    BY ONLY TypeOK, <1>1, <1>4, <1>5, <2>1, <2>2, <2>3, carried' = carried,
            overrun' = overrun, FrameDelivered
<1>8. NothingFound'
  BY DEF NothingFound
<1>9. QED
  BY <1>6, <1>7, <1>8 DEF FrontAt

\* So is a binary one.
LEMMA FrontBinary ==
    ASSUME TypeOK, IsStream(Bytes, carried), NEW p \in Nat, FrontAt(p), ScanBinary
    PROVE  \E q \in Nat : FrontAt(q)'
<1>1. /\ IsStream(Bytes, carried) /\ data \in Seq(Bytes) /\ Window(carried, p, data)
  BY WholeStream DEF TypeOK, FrontAt, Held
<1>2. /\ Found.binary = HeaderIndex(data, HeaderV2) /\ Found.exclam = FirstFooter(data)
      /\ Found.binary \in 1 .. Len(data) /\ Found.exclam \in 1 .. Len(data)
      /\ HeaderIndex(data, HeaderV2) # 0 /\ FirstFooter(data) > HeaderIndex(data, HeaderV2)
  BY <1>1, FoundIs DEF ScanBinary, BinaryFound
<1>3. /\ Pop(FirstFooter(data)) /\ pc = "scan" /\ pc' = pc /\ line' = line /\ carried' = carried
      /\ overrun' = overrun
      /\ packets' = packets \o SegmentPackets(SubSeq(data, Found.binary + 1, Found.exclam - 2))
  BY <1>2 DEF ScanBinary
<1>4. ASSUME NEW n \in 1 .. Len(carried), carried[n][1] = HeaderV2, HasPackets(carried[n]),
             p + HeaderIndex(data, HeaderV2) = EndAt(carried, n - 1) + 1,
             p + FirstFooter(data) = EndAt(carried, n)
      PROVE  packets' = packets \o PacketsOf(carried[n])
  <2>1. PICK h \in 1 .. Len(data), e \in 1 .. Len(data) :
          /\ h = Found.binary /\ e = Found.exclam
          /\ p + h = EndAt(carried, n - 1) + 1 /\ p + e = EndAt(carried, n)
    BY <1>2, <1>4
  <2>2. SegmentPackets(SubSeq(data, h + 1, e - 2)) = PacketsOf(carried[n])
    BY <1>1, <1>4, <2>1, BinaryPackets
  <2>3. QED
    BY <1>3, <2>1, <2>2
<1>5. QED
  BY <1>2, <1>3, <1>4, FrontFrame

\* Of a frame, all the text is decoded, and none of it is padding.
LEMMA FrameText ==
    ASSUME TypeOK, IsStream(Bytes, carried), NEW p \in Nat, FrontAt(p), Base64Found,
           NEW text \in Texts(Segment64)
    PROVE  text = Segment64 /\ ~Padded(text)
<1>1. /\ data \in Seq(Bytes) /\ Window(carried, p, data)
      /\ decoded \in [1 .. DecodeLength -> Bytes]
  BY DEF TypeOK, FrontAt, Held
<1>2. /\ Found.colon = HeaderIndex(data, Header) /\ Found.exclam = FirstFooter(data)
      /\ Found.colon \in 1 .. Len(data) /\ Found.exclam \in 1 .. Len(data)
      /\ HeaderIndex(data, Header) # 0 /\ FirstFooter(data) > HeaderIndex(data, Header)
  BY <1>1, FoundIs DEF Base64Found
<1>3. PICK n \in 1 .. Len(carried) :
        /\ p + Found.colon = EndAt(carried, n - 1) + 1 /\ p + Found.exclam = EndAt(carried, n)
        /\ carried[n][1] = Header /\ HasPackets(carried[n])
  <2>1. Header \in {Header, HeaderV2}
    OBVIOUS
  <2>2. QED
    BY <1>1, <1>2, <2>1, FrameFound
<1>4. DecodesTo(decoded, Segment64, carried[n])
  <2>1. PICK h \in 1 .. Len(data), e \in 1 .. Len(data) :
          /\ h = Found.colon /\ e = Found.exclam
          /\ p + h = EndAt(carried, n - 1) + 1 /\ p + e = EndAt(carried, n)
    BY <1>2, <1>3
  <2>2. DecodesTo(decoded, SubSeq(data, h + 1, e - 1), carried[n])
    BY <1>1, <1>3, <2>1, Base64Packets
  <2>3. QED
    BY <2>1, <2>2 DEF Segment64
<1>5. Invalid(Segment64) = {}
  BY <1>4 DEF DecodesTo, Decodable
<1>6. Positions(Segment64, LineEnd) = {}
  BY <1>5, FramingConstants DEF Positions, Invalid
<1>7. text = Segment64
  BY <1>6 DEF Texts
<1>8. QED
  BY <1>5, <1>7 DEF Padded

\* And a Base64 one.
LEMMA FrontBase64 ==
    ASSUME TypeOK, IsStream(Bytes, carried), NEW p \in Nat, FrontAt(p), ScanBase64
    PROVE  \E q \in Nat : FrontAt(q)'
<1>a. PICK segment : segment = Segment64
  OBVIOUS
<1>1. /\ IsStream(Bytes, carried) /\ data \in Seq(Bytes) /\ Window(carried, p, data)
      /\ packets \in Seq(Bytes \X Bytes) /\ decoded \in [1 .. DecodeLength -> Bytes]
  BY WholeStream DEF TypeOK, FrontAt, Held
<1>2. /\ Found.colon = HeaderIndex(data, Header) /\ Found.exclam = FirstFooter(data)
      /\ Found.colon \in 1 .. Len(data) /\ Found.exclam \in 1 .. Len(data)
      /\ HeaderIndex(data, Header) # 0 /\ FirstFooter(data) > HeaderIndex(data, Header)
  BY <1>1, FoundIs DEF ScanBase64, Base64Found
<1>3. /\ Pop(FirstFooter(data)) /\ pc = "scan" /\ pc' = pc /\ line' = line /\ carried' = carried
      /\ overrun' = overrun
      /\ decoded' = Decode(decoded, segment)
      /\ packets' = IF Decodable(segment) /\ decoded'[1] \in TypeBytes
                    THEN Append(packets, SubSeq(decoded', 1, 2)) ELSE packets
  <2>1. Base64Found
    BY DEF ScanBase64
  <2>2. \A text \in Texts(Segment64) : text = Segment64 /\ ~Padded(text)
    BY <2>1, FrameText
  <2>3. QED
    BY <1>2, <1>a, <2>2 DEF ScanBase64
<1>4. ASSUME NEW n \in 1 .. Len(carried), carried[n][1] = Header, HasPackets(carried[n]),
             p + HeaderIndex(data, Header) = EndAt(carried, n - 1) + 1,
             p + FirstFooter(data) = EndAt(carried, n)
      PROVE  packets' = packets \o PacketsOf(carried[n])
  <2>1. PICK h \in 1 .. Len(data), e \in 1 .. Len(data) :
          /\ h = Found.colon /\ e = Found.exclam
          /\ p + h = EndAt(carried, n - 1) + 1 /\ p + e = EndAt(carried, n)
    BY <1>2, <1>4
  <2>2. DecodesTo(decoded, SubSeq(data, h + 1, e - 1), carried[n])
    BY <1>1, <1>4, <2>1, Base64Packets
  <2>3. /\ Decodable(segment) /\ decoded'[1] \in TypeBytes
        /\ PacketsOf(carried[n]) = <<SubSeq(decoded', 1, 2)>>
    <3>1. segment = SubSeq(data, h + 1, e - 1) /\ decoded' = Decode(decoded, segment)
      BY <1>3, <1>a, <2>1 DEF Segment64
    <3>2. QED
      BY <2>2, <3>1 DEF DecodesTo
  <2>4. packets' = Append(packets, SubSeq(decoded', 1, 2))
    BY <1>3, <2>3
  <2>5. packets \o <<SubSeq(decoded', 1, 2)>> = Append(packets, SubSeq(decoded', 1, 2))
    <3>1. PICK P, x : P = Bytes \X Bytes /\ x = SubSeq(decoded', 1, 2)
      OBVIOUS
    <3>2. PacketsOf(carried[n]) \in Seq(P)
      <4>1. IsFrame(carried[n]) /\ carried[n] \in Seq(Bytes)
        BY <1>1, ElementOfSeq DEF IsStream
      <4>2. QED
        BY <3>1, <4>1, PacketsOfFrame
    <3>3. <<x>> \in Seq(P) /\ Len(<<x>>) = 1 /\ <<x>>[1] = x /\ 1 \in 1 .. 1
      BY <2>3, <3>1, <3>2
    <3>4. x \in P /\ packets \in Seq(P)
      <4>1. <<x>>[1] \in P
        BY <3>3, ElementOfSeq
      <4>2. QED
        BY <1>1, <3>1, <3>3, <4>1
    <3>5. Append(packets, x) = packets \o <<x>>
      BY <3>4, AppendIsConcat
    <3>6. QED
      BY <3>1, <3>5
  <2>6. QED
    BY <2>3, <2>4, <2>5
<1>5. QED
  BY <1>2, <1>3, <1>4, FrontFrame

\* Up to the terminator of a reply there are no packets.
LEMMA FrontCommands ==
    ASSUME TypeOK, IsStream(Bytes, carried), NEW p \in Nat, FrontAt(p), ScanCommands
    PROVE  \E q \in Nat : FrontAt(q)'
<1>1. /\ IsStream(Bytes, carried) /\ data \in Seq(Bytes) /\ Len(data) \in Nat
      /\ Held(p) /\ Window(carried, p, data) /\ Len(carried) \in Nat
  BY WholeStream, LenProperties DEF TypeOK, FrontAt, Held, IsStream
<1>2. /\ ~FrameSeen(data) /\ pc = "scan" /\ pc' = pc /\ line' = line /\ carried' = carried
      /\ overrun' = overrun /\ packets' = packets
      /\ Found.semicolon # 0 /\ Pop(Found.semicolon)
  BY <1>1, FoundIs DEF ScanCommands
<1>3. PICK e \in 1 .. Len(data) : e = Found.semicolon /\ data[e] = Terminator
  BY <1>1, <1>2, FoundIs
<1>4. PICK n \in 1 .. Len(carried) : p + e = EndAt(carried, n)
  BY <1>1, <1>3, EndOfFrame
<1>5. PICK q \in Nat : q = p + e
  BY <1>1
<1>6. Held(q)'
  BY <1>1, <1>2, <1>3, <1>5, HeldAfterPop
<1>7. DeliveredSome(q)'
  <2>1. PICK k \in 0 .. Len(carried) : EndAt(carried, k) <= p /\ Embeds(packets, Sent(carried, k))
    BY DEF FrontAt, DeliveredSome
  <2>2. EndAt(carried, k) \in Nat
    BY <1>1, EndsInOrder
  <2>3. EndAt(carried, k) <= q
    BY <1>5, <2>1, <2>2
  <2>4. QED
    BY <1>2, <2>1, <2>3 DEF DeliveredSome
<1>8. ASSUME ~overrun' PROVE DeliveredAll(q)'
  <2>1. PICK k \in 0 .. Len(carried) : EndAt(carried, k) = p /\ packets = Sent(carried, k)
    BY <1>2, <1>8 DEF FrontAt, DeliveredAll
  <2>2. n \in 0 .. Len(carried) /\ EndAt(carried, n) \in Nat
    <3>1. n \in 0 .. Len(carried)
      BY <1>1
    <3>2. QED
      BY <1>1, <3>1, EndsInOrder
  <2>3. n \in k .. Len(carried)
    <3>1. CASE n \in 0 .. k
      <4>1. EndAt(carried, n) <= EndAt(carried, k)
        BY <1>1, <3>1, EndsInOrder
      <4>2. QED
        BY <1>4, <2>1, <2>2, <4>1
    <3>2. QED
      BY <1>1, <2>2, <3>1
  <2>4. ASSUME NEW m \in k + 1 .. n, HasPackets(carried[m]) PROVE FALSE
    <3>1. m \in k + 1 .. Len(carried) /\ m \in 0 .. n /\ m \in 0 .. Len(carried)
      BY <1>1, <2>2, <2>3
    <3>2. EndAt(carried, m) \in Nat /\ EndAt(carried, m) <= EndAt(carried, n)
      BY <1>1, <2>2, <3>1, EndsInOrder
    <3>3. EndAt(carried, m) <= EndAt(carried, k) + Len(data)
      BY <1>1, <1>4, <2>1, <3>2
    <3>4. Window(carried, EndAt(carried, k), data)
      BY <1>1, <2>1
    <3>5. FrameSeen(data)
      BY <1>1, <2>4, <3>1, <3>3, <3>4, WholeFrameIsSeen
    <3>6. QED
      BY <1>2, <3>5
  <2>5. Sent(carried, n) = Sent(carried, k)
    BY <1>1, <2>3, <2>4, SentSkip
  <2>6. QED
    BY <1>2, <1>4, <1>5, <2>1, <2>2, <2>5 DEF DeliveredAll
<1>9. NothingFound'
  BY <1>2 DEF NothingFound
<1>10. QED
  BY <1>2, <1>6, <1>7, <1>8, <1>9 DEF FrontAt

\* What the line carries of a frame it has spared is the frame, and of text it is text,
\* unless it has made a delimiter.
Carries(s, c, l, made) ==
    /\ Len(c) = Len(s)
    /\ \A n \in 1 .. Len(s) :
         /\ (\A i \in 1 .. Len(l) : l[i] # n) => c[n] = s[n]
         /\ ~made => HasPackets(s[n]) \/ TextFrame(c[n])
CarriedInv ==
    Carries(stream, carried, lost, delimited) /\ (delimited => lost # <<>>)

\* Text holds no packets.
LEMMA TextHasNoPackets ==
    ASSUME NEW f, Len(f) \in Nat, TextFrame(f)
    PROVE  ~HasPackets(f)
<1> SUFFICES ASSUME HasPackets(f) PROVE FALSE
  OBVIOUS
<1>1. f[1] \in {Header, HeaderV2} /\ Len(f) > 2
  BY DEF HasPackets, Base64Frame, BinaryFrame
<1>2. 1 \in 1 .. Len(f)
  BY <1>1
<1>3. QED
  BY <1>1, <1>2 DEF TextFrame

\* And stays text when a byte of it is lost or garbled.
LEMMA TextStaysText ==
    ASSUME NEW f, NEW g, Len(f) \in Nat, Len(g) \in Nat, TextFrame(f), NEW j \in 1 .. Len(f),
           NEW d, NEW c, Struck(g, f, j, d, c), d = 0 => c \notin Delimiters
    PROVE  TextFrame(g)
<1>1. d \in {0, 1} /\ Len(g) = Len(f) - d
  BY DEF Struck
<1>2. ASSUME NEW x \in 1 .. Len(g)
      PROVE  g[x] \notin {Header, HeaderV2, Footer} /\ (g[x] = Terminator => x = Len(g))
  <2>1. CASE x < j
    <3>1. g[x] = f[x]
      BY <2>1 DEF Struck
    <3>2. x \in 1 .. Len(f) /\ x # Len(f)
      BY <2>1
    <3>3. QED
      BY <3>1, <3>2 DEF TextFrame
  <2>2. CASE ~(x < j) /\ d = 0 /\ x = j
    <3>1. g[x] = c /\ c \notin Delimiters
      BY <2>2 DEF Struck
    <3>2. QED
      BY <3>1 DEF Delimiters
  <2>3. CASE ~(x < j) /\ ~(d = 0 /\ x = j)
    <3>1. g[x] = f[x + d]
      BY <2>3 DEF Struck
    <3>2. PICK y \in 1 .. Len(f) : y = x + d
      <4>1. x + d \in 1 .. Len(f)
        BY <1>1
      <4>2. QED
        BY <4>1
    <3>3. f[y] \notin {Header, HeaderV2, Footer} /\ (f[y] = Terminator => y = Len(f))
      BY DEF TextFrame
    <3>4. y = Len(f) => x = Len(g)
      BY <1>1, <3>2
    <3>5. QED
      BY <3>1, <3>2, <3>3, <3>4
  <2>4. QED
    BY <2>1, <2>2, <2>3
<1>3. QED
  BY <1>2 DEF TextFrame

\* While the line spares the frames with packets, it carries a stream with the same packets.
LEMMA CarriedIs ==
    ASSUME NEW B, NEW s, IsStream(B, s), NEW c \in Seq(Seq(B)), NEW l,
           Carries(s, c, l, FALSE),
           \A i \in 1 .. Len(l) : ~HasPackets(s[l[i]])
    PROVE  /\ IsStream(B, c) /\ Len(c) = Len(s)
           /\ \A n \in 0 .. Len(s) : Sent(c, n) = Sent(s, n)
<1>1. Len(c) = Len(s) /\ Len(s) \in Nat
  BY WholeStream DEF Carries
<1>2. PICK T : T = Seq(B)
  OBVIOUS
<1>3. ASSUME NEW n \in 1 .. Len(s)
      PROVE  IsFrame(c[n]) /\ PacketsOf(c[n]) = PacketsOf(s[n])
  <2>1. IsFrame(s[n]) /\ s[n] \in Seq(B)
    BY ElementOfSeq DEF IsStream
  <2>2. CASE HasPackets(s[n])
    <3>1. \A i \in 1 .. Len(l) : l[i] # n
      BY <2>2
    <3>2. c[n] = s[n]
      BY <3>1 DEF Carries
    <3>3. QED
      BY <2>1, <3>2
  <2>3. CASE ~HasPackets(s[n])
    <3>1. c[n] \in Seq(B)
      BY <1>1, <1>2, ElementOfSeq
    <3>2. Len(c[n]) \in Nat
      BY <3>1, LenProperties
    <3>3. TextFrame(c[n])
      BY <2>3 DEF Carries
    <3>4. IsFrame(c[n]) /\ ~HasPackets(c[n])
      BY <3>2, <3>3, TextHasNoPackets DEF IsFrame
    <3>5. PacketsOf(c[n]) = <<>> /\ PacketsOf(s[n]) = <<>>
      BY <2>1, <2>3, <3>1, <3>4, PacketsOfFrame
    <3>6. QED
      BY <3>4, <3>5
  <2>4. QED
    BY <2>2, <2>3
<1>4. IsStream(B, c)
  BY <1>1, <1>3 DEF IsStream
<1>5. ASSUME NEW n \in 0 .. Len(s) PROVE Sent(c, n) = Sent(s, n)
  <2>1. \A k \in 1 .. n : k \in 1 .. Len(s)
    BY <1>1
  <2>2. \A k \in 1 .. n : PacketsOf(c[k]) = PacketsOf(s[k])
    BY <1>3, <2>1
  <2>3. [k \in 1 .. n |-> PacketsOf(c[k])] = [k \in 1 .. n |-> PacketsOf(s[k])]
    BY <2>2
  <2>4. QED
    BY <2>3 DEF Sent
<1>6. QED
  BY <1>1, <1>4, <1>5

\* So it does in every state.
LEMMA CarriedStream ==
    ASSUME TypeOK, CarriedInv, Spared
    PROVE  /\ IsStream(Bytes, carried) /\ Len(carried) = Len(stream)
           /\ \A n \in 0 .. Len(stream) : Sent(carried, n) = Sent(stream, n)
<1>1. IsStream(Bytes, stream) /\ carried \in Seq(Seq(Bytes))
  BY StreamBytes DEF TypeOK
<1>2. /\ Carries(stream, carried, lost, FALSE)
      /\ \A i \in 1 .. Len(lost) : ~HasPackets(stream[lost[i]])
  BY DEF CarriedInv, Spared, Carries
<1>3. QED
  BY <1>1, <1>2, CarriedIs

\* What the line has lost stays lost.
LEMMA LostGrows ==
    ASSUME TypeOK, NEW n \in 1 .. Len(stream), lost' = Append(lost, n)
    PROVE  /\ \A i \in 1 .. Len(lost) : i \in 1 .. Len(lost') /\ lost'[i] = lost[i]
           /\ \E i \in 1 .. Len(lost') : lost'[i] = n
<1>1. PICK N : N = 1 .. Len(stream)
  OBVIOUS
<1>2. lost \in Seq(N) /\ n \in N
  BY <1>1 DEF TypeOK
<1>3. Len(lost) \in Nat
  BY <1>2, LenProperties
<1>4. /\ Len(lost') = Len(lost) + 1 /\ lost'[Len(lost) + 1] = n
      /\ \A i \in 1 .. Len(lost) : lost'[i] = lost[i]
  BY <1>2, AppendProperties
<1>5. Len(lost) + 1 \in 1 .. Len(lost') /\ \A i \in 1 .. Len(lost) : i \in 1 .. Len(lost')
  BY <1>3, <1>4
<1>6. QED
  BY <1>4, <1>5

\* After the first byte is lost or garbled.
LEMMA LossIsRemembered ==
    ASSUME TypeOK, NEW i \in 1 .. Len(line), Lose(i) \/ \E c \in Noise : Garble(i, c)
    PROVE  lost' # <<>>
<1>1. PICK n \in 1 .. Len(stream) : lost' = Append(lost, n)
  BY DEF Lose, Garble, TypeOK
<1>2. \E x \in 1 .. Len(lost') : lost'[x] = n
  BY <1>1, LostGrows
<1>3. QED
  BY <1>2

\* A step keeps that.
LEMMA CarriedStep ==
    ASSUME TypeOK, CarriedInv, [Next]_vars
    PROVE  CarriedInv'
<1>1. CASE \E i \in 1 .. Len(line) : Lose(i) \/ \E c \in Noise : Garble(i, c)
  <2>1. PICK i \in 1 .. Len(line) : Lose(i) \/ \E c \in Noise : Garble(i, c)
    BY <1>1
  <2>2. PICK n \in 1 .. Len(carried) :
          \E j \in 1 .. Len(carried[n]) : \E d \in {0, 1} :
            \E c \in Bytes : LossAt(i, n, j, d, c)
    BY <2>1, LossIs
  <2>3. PICK j \in 1 .. Len(carried[n]), d \in {0, 1}, c \in Bytes :
          LossAt(i, n, j, d, c)
    BY <2>2
  <2>4. stream' = stream
    BY <2>1 DEF Lose, Garble
  <2>5. /\ lost' = Append(lost, n) /\ Struck(carried'[n], carried[n], j, d, c)
        /\ carried' = [carried EXCEPT ![n] = carried'[n]]
        /\ carried'[n] \in Seq(Bytes)
    BY <2>3 DEF LossAt
  <2>6. PICK T : T = Seq(Bytes)
    OBVIOUS
  <2>7. carried \in Seq(T) /\ Len(carried) = Len(stream)
    BY <2>6 DEF TypeOK
  <2>8. n \in 1 .. Len(stream)
    BY <2>7
  <2>9. ASSUME NEW m \in 1 .. Len(stream)
        PROVE  /\ (\A x \in 1 .. Len(lost') : lost'[x] # m) => carried'[m] = stream[m]
               /\ ~delimited' => HasPackets(stream[m]) \/ TextFrame(carried'[m])
    <3>1. CASE m = n
      <4>1. \E x \in 1 .. Len(lost') : lost'[x] = m
        BY <2>5, <2>8, <3>1, LostGrows
      <4>2. ASSUME ~delimited' PROVE HasPackets(stream[m]) \/ TextFrame(carried'[m])
        <5>0. ~delimited /\ (d = 0 => c \notin Delimiters)
          BY <2>3, <4>2 DEF LossAt
        <5>1. HasPackets(stream[n]) \/ TextFrame(carried[n])
          BY <2>8, <5>0 DEF CarriedInv, Carries
        <5>2. carried[n] \in Seq(Bytes)
          BY <2>6, <2>7, ElementOfSeq
        <5>3. Len(carried[n]) \in Nat /\ Len(carried'[n]) \in Nat
          BY <2>5, <5>2, LenProperties
        <5>4. TextFrame(carried[n]) => TextFrame(carried'[n])
          BY <2>5, <5>0, <5>3, TextStaysText
        <5>5. QED
          BY <3>1, <5>1, <5>4
      <4>3. QED
        BY <4>1, <4>2
    <3>2. CASE m # n
      <4>1. carried'[m] = carried[m]
        <5>1. PICK t : t = carried'[n] /\ carried' = [carried EXCEPT ![n] = t]
          BY <2>5
        <5>2. m \in DOMAIN carried
          BY <2>7, LenProperties
        <5>3. QED
          BY <3>2, <5>1, <5>2
      <4>2. (\A x \in 1 .. Len(lost') : lost'[x] # m) => \A x \in 1 .. Len(lost) : lost[x] # m
        BY <2>5, <2>8, LostGrows
      <4>3. ~delimited' => ~delimited
        BY <2>3 DEF LossAt
      <4>4. QED
        BY <4>1, <4>2, <4>3 DEF CarriedInv, Carries
    <3>3. QED
      BY <3>1, <3>2
  <2>10. Len(carried') = Len(stream')
    BY <2>3, <2>4, <2>7 DEF LossAt
  <2>11. lost' # <<>>
    BY <2>1, LossIsRemembered
  <2>12. QED
    BY <2>4, <2>9, <2>10, <2>11 DEF CarriedInv, Carries
<1>2. CASE ~\E i \in 1 .. Len(line) : Lose(i) \/ \E c \in Noise : Garble(i, c)
  <2>1. lost' = lost /\ carried' = carried /\ stream' = stream /\ delimited' = delimited
    BY <1>2 DEF Next, Scanning, Receive, ScanBinary, ScanBase64, DecodeForEver, ScanCommands,
                ScanNothing, vars
  <2>2. QED
    BY <2>1 DEF CarriedInv, Carries
<1>3. QED
  BY <1>1, <1>2

\* A byte of text is lost or garbled on the line, behind the buffer and in no frame
\* that has been delivered.
LEMMA FrontLoss ==
    ASSUME TypeOK, CarriedInv, Spared, NEW p \in Nat, FrontAt(p), TypeOK', CarriedInv',
           Spared', NEW i \in 1 .. Len(line), Lose(i) \/ \E c \in Noise : Garble(i, c)
    PROVE  FrontAt(p)'
<1>1. PICK n \in 1 .. Len(carried) :
        \E j \in 1 .. Len(carried[n]) : \E d \in {0, 1} :
          \E c \in Bytes : LossAt(i, n, j, d, c)
  BY LossIs
<1>2. PICK j \in 1 .. Len(carried[n]), d \in {0, 1}, c \in Bytes :
        LossAt(i, n, j, d, c)
  BY <1>1
<1>3. /\ data' = data /\ packets' = packets /\ pc' = pc /\ stream' = stream /\ overrun' = overrun
  BY DEF Lose, Garble
<1>4. PICK s, r : s = carried /\ r = carried'
  OBVIOUS
<1>5. /\ IsStream(Bytes, s) /\ Len(s) = Len(stream)
      /\ \A k \in 0 .. Len(s) : Sent(s, k) = Sent(stream, k)
  BY <1>4, CarriedStream
<1>6. /\ r \in Seq(Seq(Bytes)) /\ Len(r) = Len(s) /\ r = [s EXCEPT ![n] = r[n]]
      /\ Struck(r[n], s[n], j, d, c) /\ line' \in Seq(Bytes) /\ Struck(line', line, i, d, c)
      /\ Len(FlattenSeq(s)) - Len(line) + i = EndAt(s, n - 1) + j
  BY <1>2, <1>4 DEF LossAt, IsByte, EndAt, FirstFrames
<1>7. \A k \in 0 .. Len(s) : Sent(r, k) = Sent(s, k)
  <2>1. PICK l, t : l = lost' /\ t = stream
    OBVIOUS
  <2>2. Carries(t, r, l, FALSE) /\ \A x \in 1 .. Len(l) : ~HasPackets(t[l[x]])
    <3>1. /\ Carries(stream', carried', lost', FALSE)
          /\ \A x \in 1 .. Len(lost') : ~HasPackets(stream'[lost'[x]])
      BY DEF CarriedInv, Spared, Carries
    <3>2. t = stream' /\ r = carried' /\ l = lost'
      BY <1>3, <1>4, <2>1
    <3>3. QED
      BY <3>1, <3>2
  <2>3. IsStream(Bytes, t) /\ r \in Seq(Seq(Bytes))
    BY <1>6, <2>1, StreamBytes DEF TypeOK
  <2>4. \A k \in 0 .. Len(t) : Sent(r, k) = Sent(t, k)
    BY ONLY <2>2, <2>3, CarriedIs, Zenon
  <2>5. QED
    BY <1>5, <2>1, <2>4
<1>8. /\ \A k \in 0 .. n - 1 : EndAt(r, k) = EndAt(s, k)
      /\ \A k \in n .. Len(s) : EndAt(r, k) = EndAt(s, k) - d
      /\ Struck(FlattenSeq(r), FlattenSeq(s), EndAt(s, n - 1) + j, d, c)
  <2>1. n \in 1 .. Len(s) /\ j \in 1 .. Len(s[n])
    BY <1>4
  <2>2. IsStream(Bytes, s)
    BY <1>5
  <2>3. r \in Seq(Seq(Bytes)) /\ Len(r) = Len(s) /\ r = [s EXCEPT ![n] = r[n]]
    BY <1>6
  <2>4. Struck(r[n], s[n], j, d, c)
    BY <1>6
  <2>5. QED
    BY ONLY <2>1, <2>2, <2>3, <2>4, StreamStruck
<1>9. PICK m \in Nat, q \in Nat, u \in Nat, e \in Nat, l \in Nat :
        /\ m = Len(FlattenSeq(s)) /\ q = Len(data) /\ u = Len(line) /\ e = EndAt(s, n - 1)
        /\ l = Len(s[n]) /\ EndAt(s, n) = e + l /\ p + q + u = m
  <2>1. Len(FlattenSeq(s)) \in Nat /\ Len(s) \in Nat
    BY <1>5, WholeStream
  <2>2. Len(data) \in Nat /\ Len(line) \in Nat
    BY LenProperties DEF TypeOK
  <2>3. n \in 1 .. Len(s)
    BY <1>4
  <2>4. EndAt(s, n) = EndAt(s, n - 1) + Len(s[n])
    BY <1>5, <2>3, ByteOfFrame
  <2>5. EndAt(s, n - 1) \in Nat
    <3>1. n - 1 \in 0 .. Len(s)
      BY <2>1, <2>3
    <3>2. QED
      BY <1>5, <3>1, EndsInOrder
  <2>6. Len(s[n]) \in Nat
    BY <1>5, <2>3 DEF IsStream, IsFrame
  <2>7. p + Len(data) + Len(line) = Len(FlattenSeq(s))
    BY <1>4 DEF FrontAt, Held
  <2>8. QED
    BY <2>1, <2>2, <2>4, <2>5, <2>6, <2>7
<1>10. /\ p + q + u = m /\ i \in 1 .. u /\ j \in 1 .. l /\ d \in {0, 1}
       /\ i \in Nat /\ j \in Nat /\ e + j = p + q + i
  <2>1. i \in 1 .. u /\ j \in 1 .. l
    BY <1>4, <1>9
  <2>2. i \in Nat /\ j \in Nat
    BY <2>1
  <2>3. m - u + i = e + j /\ p + q + u = m
    BY <1>6, <1>9
  <2>4. e + j = p + q + i
    BY ONLY <2>2, <2>3, m \in Nat, u \in Nat, q \in Nat, p \in Nat, e \in Nat
  <2>5. QED
    BY <2>1, <2>2, <2>3, <2>4
<1>11. PICK w, v :
         /\ w = FlattenSeq(s) /\ v = FlattenSeq(r) /\ Struck(v, w, p + q + i, d, c)
         /\ \A x \in 1 .. q : data[x] = w[p + x]
         /\ \A x \in 1 .. u : line[x] = w[p + q + x]
  <2>1. Window(s, p, data) /\ Window(s, p + q, line)
    BY <1>4, <1>9 DEF FrontAt, Held
  <2>2. Struck(FlattenSeq(r), FlattenSeq(s), p + q + i, d, c)
    BY <1>8, <1>9, <1>10
  <2>3. QED
    BY <1>9, <2>1, <2>2 DEF Window
<1>12. /\ Len(v) = m - d /\ m - d \in Nat /\ u - d \in Nat /\ p + q + (u - d) = m - d
       /\ p + q <= m - d /\ p + q \in Nat /\ Len(line') = u - d
  <2>1. Len(v) = m - d /\ Len(line') = u - d
    BY <1>6, <1>9, <1>11 DEF Struck
  <2>2. m - d \in Nat /\ u - d \in Nat /\ p + q + (u - d) = m - d /\ p + q <= m - d
        /\ p + q \in Nat
    BY ONLY <1>10, m \in Nat, u \in Nat, q \in Nat, p \in Nat
  <2>3. QED
    BY <2>1, <2>2
<1>13. Window(r, p, data')
  <2>1. ASSUME NEW x \in 1 .. q PROVE data[x] = v[p + x]
    <3>1. PICK y \in 1 .. m - d : y = p + x /\ y < p + q + i
      <4>1. p + x \in 1 .. m - d /\ p + x < p + q + i
        BY ONLY <1>10, <1>12, p \in Nat, q \in Nat, m \in Nat, x \in 1 .. q
      <4>2. QED
        BY <4>1
    <3>2. v[y] = w[y]
      BY <1>11, <1>12, <3>1 DEF Struck
    <3>3. QED
      BY <1>11, <3>1, <3>2
  <2>2. QED
    BY <1>3, <1>9, <1>11, <1>12, <2>1 DEF Window
<1>14. Window(r, p + q, line')
  <2>1. ASSUME NEW x \in 1 .. u - d PROVE line'[x] = v[p + q + x]
    <3>1. PICK y \in 1 .. m - d, z \in 1 .. u :
            /\ y = p + q + x /\ z = x + d /\ y + d = p + q + z /\ x \in Nat
            /\ (y < p + q + i <=> x < i) /\ (y = p + q + i <=> x = i)
            /\ (x < i => x \in 1 .. u)
      <4>1. /\ p + q + x \in 1 .. m - d /\ x + d \in 1 .. u /\ p + q + x + d = p + q + (x + d)
            /\ x \in Nat /\ (p + q + x < p + q + i <=> x < i)
            /\ (p + q + x = p + q + i <=> x = i) /\ (x < i => x \in 1 .. u)
        BY ONLY <1>10, <1>12, p \in Nat, q \in Nat, m \in Nat, u \in Nat, x \in 1 .. u - d
      <4>2. QED
        BY <4>1
    <3>2. v[y] = IF x < i THEN w[y] ELSE IF d = 0 /\ x = i THEN c ELSE w[y + d]
      BY <1>11, <1>12, <3>1 DEF Struck
    <3>3. line'[x] = IF x < i THEN line[x] ELSE IF d = 0 /\ x = i THEN c ELSE line[z]
      BY <1>6, <1>12, <3>1 DEF Struck
    <3>4. line[z] = w[y + d] /\ (x < i => line[x] = w[y])
      BY <1>11, <3>1
    <3>5. QED
      BY <3>1, <3>2, <3>3, <3>4
  <2>2. Len(line') = u - d /\ Len(FlattenSeq(r)) = m - d /\ p + q + (u - d) <= m - d
    <3>1. p + q + (u - d) <= m - d
      BY <1>12
    <3>2. QED
      BY <1>11, <1>12, <3>1
  <2>3. ASSUME NEW x \in 1 .. u - d PROVE line'[x] = FlattenSeq(r)[p + q + x]
    BY <1>11, <2>1
  <2>4. p + q \in Nat
    BY <1>12
  <2>5. QED
    BY ONLY <2>2, <2>3, <2>4 DEF Window
<1>15. Held(p)'
  BY <1>3, <1>4, <1>9, <1>11, <1>12, <1>13, <1>14 DEF Held
<1>16. n \in 1 .. Len(s) /\ Len(s) \in Nat
  BY <1>4, <1>5, WholeStream
<1>17. DeliveredSome(p)'
  <2>1. PICK k \in 0 .. Len(s) : EndAt(s, k) <= p /\ Embeds(packets, Sent(s, k))
    BY <1>4 DEF FrontAt, DeliveredSome
  <2>2. EndAt(s, k) \in Nat
    BY <1>5, EndsInOrder
  <2>3. k \in 0 .. n - 1 \/ k \in n .. Len(s)
    BY <1>16
  <2>4. EndAt(r, k) <= p
    BY <1>8, <1>10, <2>1, <2>2, <2>3
  <2>5. Embeds(packets', Sent(r, k)) /\ k \in 0 .. Len(r)
    BY <1>3, <1>6, <1>7, <2>1
  <2>6. QED
    BY <1>4, <2>4, <2>5 DEF DeliveredSome
<1>18. ASSUME ~overrun' PROVE DeliveredAll(p)' /\ NothingFound'
  <2>1. DeliveredAll(p) /\ NothingFound
    BY <1>3, <1>18 DEF FrontAt
  <2>2. PICK k \in 0 .. Len(s) : EndAt(s, k) = p /\ packets = Sent(s, k)
    BY <1>4, <2>1 DEF DeliveredAll
  <2>3. k \in 0 .. n - 1
    <3>1. CASE n \in 0 .. k
      <4>1. EndAt(s, n) <= p
        BY <1>5, <2>2, <3>1, EndsInOrder
      <4>2. e + l <= p
        BY <1>9, <4>1
      <4>3. QED
        BY ONLY <1>10, <4>2, e \in Nat, l \in Nat, p \in Nat, q \in Nat
    <3>2. QED
      BY <1>16, <3>1
  <2>4. EndAt(r, k) = p /\ packets' = Sent(r, k) /\ k \in 0 .. Len(r)
    BY <1>3, <1>6, <1>7, <1>8, <2>2, <2>3
  <2>5. DeliveredAll(p)'
    BY <1>4, <2>4 DEF DeliveredAll
  <2>6. NothingFound'
    BY <1>3, <2>1 DEF NothingFound
  <2>7. QED
    BY <2>5, <2>6
<1>19. QED
  BY <1>3, <1>15, <1>17, <1>18 DEF FrontAt

\* What has been delivered stays so while the line spares frames with packets.
LEMMA FrameStep ==
    ASSUME TypeOK, CarriedInv, FrameInv, TypeOK', CarriedInv', [Next]_vars
    PROVE  FrameInv'
<1> SUFFICES ASSUME Spared' PROVE \E q \in Nat : FrontAt(q)'
  BY DEF FrameInv
<1>1. CASE \E i \in 1 .. Len(line) : Lose(i) \/ \E c \in Noise : Garble(i, c)
  <2>1. PICK i \in 1 .. Len(line) : Lose(i) \/ \E c \in Noise : Garble(i, c)
    BY <1>1
  <2>2. PICK n \in 1 .. Len(carried) :
          \E j \in 1 .. Len(carried[n]) : \E d \in {0, 1} :
            \E c \in Bytes : LossAt(i, n, j, d, c)
    BY <2>1, LossIs
  <2>3. Spared
    <3>1. lost' = Append(lost, n) /\ n \in 1 .. Len(stream) /\ stream' = stream
      BY <2>1, <2>2 DEF LossAt, TypeOK, Lose, Garble
    <3>2. \A x \in 1 .. Len(lost) : x \in 1 .. Len(lost') /\ lost'[x] = lost[x]
      BY <3>1, LostGrows
    <3>3. ~delimited
      BY <2>2 DEF LossAt, Spared
    <3>4. QED
      BY <3>1, <3>2, <3>3 DEF Spared
  <2>4. PICK p \in Nat : FrontAt(p)
    BY <2>3 DEF FrameInv
  <2>5. FrontAt(p)'
    BY <2>1, <2>3, <2>4, FrontLoss
  <2>6. QED
    BY <2>5
<1>2. CASE ~\E i \in 1 .. Len(line) : Lose(i) \/ \E c \in Noise : Garble(i, c)
  <2>1. lost' = lost /\ stream' = stream /\ delimited' = delimited
    BY <1>2 DEF Next, Scanning, Receive, ScanBinary, ScanBase64, DecodeForEver, ScanCommands,
                ScanNothing, vars
  <2>a. Spared
    BY <2>1 DEF Spared
  <2>b. IsStream(Bytes, carried)
    BY <2>a, CarriedStream
  <2>2. PICK p \in Nat : FrontAt(p)
    BY <2>a DEF FrameInv
  <2>3. CASE \E n \in 1 .. DataLength : Receive(n)
    BY <2>b, <2>2, <2>3, FrontReceive
  <2>4. CASE ScanBinary
    BY <2>b, <2>2, <2>4, FrontBinary
  <2>5. CASE ScanBase64
    BY <2>b, <2>2, <2>5, FrontBase64
  <2>c. CASE DecodeForEver
    <3>1. Base64Found
      BY <2>c DEF DecodeForEver
    <3>2. \A text \in Texts(Segment64) : ~Padded(text)
      BY <2>b, <2>2, <3>1, FrameText
    <3>3. QED
      BY <2>c, <3>2 DEF DecodeForEver
  <2>6. CASE ScanCommands
    BY <2>b, <2>2, <2>6, FrontCommands
  <2>7. CASE ScanNothing
    <3>1. data \in Seq(Bytes)
      BY DEF TypeOK
    <3>2. /\ data' = data /\ packets' = packets /\ line' = line /\ carried' = carried
          /\ overrun' = overrun /\ pc' = "receive"
          /\ data = <<>> \/ ~FrameSeen(data)
      BY <2>7, <3>1, FoundIs DEF ScanNothing
    <3>3. Held(p)' /\ DeliveredSome(p)'
      BY <2>2, <3>2 DEF FrontAt, Held, DeliveredSome
    <3>4. NothingFound'
      BY <3>2 DEF NothingFound
    <3>5. ~overrun' => DeliveredAll(p)'
      <4>1. ~overrun => DeliveredAll(p)
        BY <2>2 DEF FrontAt
      <4>2. packets' = packets /\ carried' = carried /\ overrun' = overrun
        BY <3>2
      <4>3. QED
        BY <4>1, <4>2 DEF DeliveredAll
    <3>6. QED
      BY <3>2, <3>3, <3>4, <3>5 DEF FrontAt
  <2>8. CASE UNCHANGED vars
    BY <2>2, <2>8 DEF FrontAt, Held, DeliveredSome, DeliveredAll, NothingFound, vars
  <2>9. QED
    BY <1>2, <2>3, <2>4, <2>5, <2>c, <2>6, <2>7, <2>8 DEF Next, Scanning
<1>3. QED
  BY <1>1, <1>2

\* Nothing has been read and nothing passed on.
LEMMA FrameInit == Init => CarriedInv /\ FrameInv
<1> SUFFICES ASSUME Init PROVE CarriedInv /\ FrontAt(0)
  BY DEF FrameInv
<1>1. /\ data = <<>> /\ packets = <<>> /\ pc = "receive" /\ stream \in Streams
      /\ line = FlattenSeq(stream) /\ carried = stream /\ delimited = FALSE
  BY DEF Init
<1>2. /\ IsStream(Bytes, carried) /\ Len(FlattenSeq(carried)) \in Nat /\ Len(carried) \in Nat
  BY <1>1, StreamBytes, WholeStream
<1>3. Len(data) = 0 /\ Len(packets) = 0
  BY <1>1
<1>4. Held(0)
  <2>1. Window(carried, 0, data)
    BY <1>2, <1>3 DEF Window
  <2>2. 0 + Len(data) = 0 /\ Len(line) = Len(FlattenSeq(carried))
    BY <1>1, <1>3
  <2>3. \A i \in 1 .. Len(line) : line[i] = FlattenSeq(carried)[0 + i]
    BY <1>1, <1>2
  <2>4. Window(carried, 0 + Len(data), line)
    BY <1>2, <2>2, <2>3 DEF Window
  <2>5. 0 + Len(data) + Len(line) = Len(FlattenSeq(carried))
    BY <1>2, <2>2
  <2>6. QED
    BY <2>1, <2>4, <2>5 DEF Held
<1>5. EndAt(carried, 0) = 0 /\ 0 \in 0 .. Len(carried)
  BY <1>2, EndsInOrder
<1>6. packets = Sent(carried, 0)
  <2>1. Sent(carried, 0) = <<>>
    BY <1>2, SentNext
  <2>2. packets = <<>>
    BY <1>1
  <2>3. QED
    BY <2>1, <2>2, Zenon
<1>7. DeliveredAll(0)
  BY <1>5, <1>6 DEF DeliveredAll
<1>8. DeliveredSome(0)
  <2>1. packets \in Seq(Bytes \X Bytes)
    BY TypeInit DEF TypeOK
  <2>2. Embeds(packets, Sent(carried, 0))
    BY <1>6, <2>1, EmbedsItself
  <2>3. QED
    BY <1>5, <2>2 DEF DeliveredSome
<1>9. CarriedInv
  <2>1. ASSUME NEW n \in 1 .. Len(stream) PROVE HasPackets(stream[n]) \/ TextFrame(stream[n])
    BY <1>1, <1>2 DEF IsStream, IsFrame
  <2>2. QED
    BY <1>1, <2>1 DEF CarriedInv, Carries
<1>10. QED
  BY <1>1, <1>4, <1>7, <1>8, <1>9 DEF FrontAt, NothingFound

\* It holds in every state.
LEMMA FrameCorrect == Spec => [](TypeOK /\ CarriedInv /\ FrameInv)
<1>1. QED
  BY TypeInit, TypeStep, FrameInit, CarriedStep, FrameStep, PTL DEF Spec

\* When the line has lost nothing, it carries what the device sends.
LEMMA NothingLost ==
    ASSUME TypeOK, CarriedInv, lost = <<>>
    PROVE  Spared /\ carried = stream
<1>1. 1 .. Len(lost) = {}
  OBVIOUS
<1>2. PICK T : T = Seq(Bytes)
  OBVIOUS
<1>3. carried \in Seq(T) /\ stream \in Seq(T) /\ Len(carried) = Len(stream)
  BY <1>2, StreamBytes DEF TypeOK, IsStream
<1>4. ~delimited /\ \A n \in 1 .. Len(stream) : carried[n] = stream[n]
  BY <1>1 DEF CarriedInv, Carries
<1>5. carried = stream
  BY <1>3, <1>4, SeqEqual
<1>6. QED
  BY <1>1, <1>4, <1>5 DEF Spared

\* When the function returns, a frame that has been read to its end has been delivered.
LEMMA ReadMeansDelivered ==
    ASSUME TypeOK, IsStream(Bytes, carried), NEW p \in Nat, FrontAt(p), pc = "receive",
           ~overrun, NEW k \in 0 .. Len(carried), EndAt(carried, k) = p,
           NEW n \in k .. Len(carried), EndAt(carried, n) <= p + Len(data)
    PROVE  Sent(carried, n) = Sent(carried, k)
<1>1. /\ Window(carried, p, data) /\ NothingFound /\ data \in Seq(Bytes)
      /\ Len(data) \in Nat /\ Len(carried) \in Nat
  BY WholeStream, LenProperties DEF TypeOK, FrontAt, Held
<1>2. ASSUME NEW m \in k + 1 .. n, HasPackets(carried[m]) PROVE FALSE
  <2>1. /\ m \in 1 .. Len(carried) /\ m \in 0 .. n /\ k \in 0 .. m - 1 /\ n \in 0 .. Len(carried)
        /\ m \in 0 .. Len(carried) /\ m \in k + 1 .. Len(carried)
    BY <1>1
  <2>2. EndAt(carried, m) \in Nat /\ EndAt(carried, n) \in Nat
    BY <2>1, EndsInOrder
  <2>3. EndAt(carried, m) <= EndAt(carried, n)
    BY <2>1, EndsInOrder
  <2>4. EndAt(carried, k) < EndAt(carried, m)
    <3>1. Len(carried[m]) # 0
      BY <1>2, PacketsTakeBytes
    <3>2. QED
      BY <2>1, <3>1, EndsApart
  <2>5. EndAt(carried, m) <= p + Len(data) /\ Len(data) # 0
    BY <1>1, <2>2, <2>3, <2>4
  <2>6. FrameSeen(data)
    BY <1>1, <1>2, <2>1, <2>5, WholeFrameIsSeen
  <2>7. data # <<>>
    BY <2>5
  <2>8. QED
    BY <1>1, <2>6, <2>7 DEF NothingFound
<1>3. QED
  BY <1>2, SentSkip

\* However the stream is cut into reads, each frame read to its end has delivered
\* its packets when fs_device_process_packets_serial returns, as long as data_buffer
\* has not overflowed.
THEOREM FramesArrive == Spec => []EveryFrameArrives
<1>1. ASSUME TypeOK, CarriedInv, FrameInv PROVE EveryFrameArrives
  <2> SUFFICES ASSUME pc = "receive", lost = <<>>, ~overrun
               PROVE  packets = PacketsSent(FramesRead)
    BY DEF EveryFrameArrives
  <2>0. carried = stream /\ Spared
    BY <1>1, NothingLost
  <2>1. PICK p \in Nat : FrontAt(p)
    BY <1>1, <2>0 DEF FrameInv
  <2>2. p + Len(data) + Len(line) = Len(FlattenSeq(stream)) /\ DeliveredAll(p)
    BY <2>0, <2>1 DEF FrontAt, Held
  <2>3. /\ IsStream(Bytes, stream) /\ Len(FlattenSeq(stream)) \in Nat
        /\ Len(data) \in Nat /\ Len(line) \in Nat /\ Len(stream) \in Nat
    BY <1>1, StreamBytes, LenProperties DEF TypeOK, IsStream
  <2>4. PICK k \in 0 .. Len(stream) : EndAt(stream, k) = p /\ packets = Sent(stream, k)
    BY <2>0, <2>2 DEF DeliveredAll
  <2> DEFINE S == {n \in 0 .. Len(stream) : EndAt(stream, n) <= p + Len(data)}
  <2>5. FramesRead = Max(S)
    <3>1. Len(FlattenSeq(stream)) - Len(line) = p + Len(data)
      BY <2>2, <2>3
    <3>2. \A n : Len(FlattenSeq(SubSeq(stream, 1, n))) = EndAt(stream, n)
      BY DEF EndAt, FirstFrames
    <3>3. S = {n \in 0 .. Len(stream) :
                 Len(FlattenSeq(SubSeq(stream, 1, n))) <= Len(FlattenSeq(stream)) - Len(line)}
      BY <3>1, <3>2
    <3> HIDE DEF S
    <3>4. QED
      BY <3>3 DEF FramesRead
  <2>6. PICK n \in 0 .. Len(stream) : n = FramesRead /\ EndAt(stream, n) <= p + Len(data) /\ k <= n
    <3>1. k \in S /\ S \in SUBSET (0 .. Len(stream))
      BY <2>3, <2>4
    <3>2. Max(S) \in S /\ \A x \in S : x <= Max(S)
      <4> HIDE DEF S
      <4>1. QED
        BY <2>3, <3>1, MaxIs
    <3>3. QED
      BY <2>5, <3>1, <3>2
  <2>7. n \in k .. Len(stream)
    BY <2>3, <2>6
  <2>8. Sent(stream, n) = Sent(stream, k)
    BY <1>1, <2>0, <2>1, <2>3, <2>4, <2>6, <2>7, ReadMeansDelivered
  <2>9. PacketsSent(n) = Sent(stream, n)
    BY DEF PacketsSent, Sent
  <2>10. QED
    BY <2>4, <2>6, <2>8, <2>9
<1>2. QED
  BY <1>1, FrameCorrect, PTL

\* Bytes of text that are lost, or garbled into anything but delimiters, those of a reply
\* for instance, cost no packet of the frames around it: once all has been read, all the
\* packets have arrived.  Nor do they hang the thread.
THEOREM LossSparesFrames == Spec => []LostReplyByteCostsNoFrame
<1>1. ASSUME TypeOK, CarriedInv, FrameInv PROVE LostReplyByteCostsNoFrame
  <2>0. Spared => pc # "stuck"
    BY <1>1 DEF FrameInv, FrontAt
  <2> SUFFICES ASSUME pc = "receive", line = <<>>, ~overrun, Spared
               PROVE  packets = PacketsSent(Len(stream))
    BY <2>0 DEF LostReplyByteCostsNoFrame
  <2>1. /\ IsStream(Bytes, carried) /\ Len(carried) = Len(stream) /\ Len(carried) \in Nat
        /\ \A n \in 0 .. Len(stream) : Sent(carried, n) = Sent(stream, n)
    BY <1>1, CarriedStream, WholeStream
  <2>2. PICK p \in Nat : FrontAt(p)
    BY <1>1 DEF FrameInv
  <2>3. p + Len(data) + Len(line) = Len(FlattenSeq(carried)) /\ DeliveredAll(p)
    BY <2>2 DEF FrontAt, Held
  <2>4. PICK k \in 0 .. Len(carried) : EndAt(carried, k) = p /\ packets = Sent(carried, k)
    BY <2>3 DEF DeliveredAll
  <2>5. PICK n \in k .. Len(carried) : n = Len(carried)
    BY <2>1
  <2>6. EndAt(carried, n) <= p + Len(data)
    <3>1. Len(line) = 0 /\ Len(data) \in Nat
      BY <1>1, LenProperties DEF TypeOK
    <3>2. EndAt(carried, n) = Len(FlattenSeq(carried)) /\ Len(FlattenSeq(carried)) \in Nat
      BY <2>1, <2>5, EndsInOrder, WholeStream
    <3>3. QED
      BY <2>3, <3>1, <3>2
  <2>7. Sent(carried, n) = Sent(carried, k)
    BY <1>1, <2>1, <2>2, <2>4, <2>6, ReadMeansDelivered
  <2>8. n \in 0 .. Len(stream) /\ n = Len(stream)
    BY <2>1, <2>5
  <2>9. PacketsSent(n) = Sent(stream, n)
    BY DEF PacketsSent, Sent
  <2>10. QED
    BY <2>1, <2>4, <2>7, <2>8, <2>9
<1>2. QED
  BY <1>1, FrameCorrect, PTL

\* Even when data_buffer has overflowed, and when text around the frames has lost bytes,
\* no packet is made up, repeated or out of order.
THEOREM PacketsInOrder == Spec => []OnlySentPacketsInOrder
<1>1. ASSUME TypeOK, CarriedInv, FrameInv PROVE OnlySentPacketsInOrder
  <2> DEFINE sent == PacketsSent(Len(stream))
  <2> SUFFICES ASSUME Spared
               PROVE  /\ Range(packets) \subseteq Range(sent)
                      /\ \A i, j \in 1 .. Len(packets) : i < j =>
                           \E m, n \in 1 .. Len(sent) :
                              m < n /\ sent[m] = packets[i] /\ sent[n] = packets[j]
    BY DEF OnlySentPacketsInOrder
  <2>1. PICK p \in Nat : FrontAt(p)
    BY <1>1 DEF FrameInv
  <2>2. PICK k \in 0 .. Len(stream) : Embeds(packets, Sent(stream, k))
    <3>1. PICK m \in 0 .. Len(carried) : Embeds(packets, Sent(carried, m))
      BY <2>1 DEF FrontAt, DeliveredSome
    <3>2. /\ Len(carried) = Len(stream)
          /\ \A n \in 0 .. Len(stream) : Sent(carried, n) = Sent(stream, n)
      BY <1>1, CarriedStream
    <3>3. QED
      BY <3>1, <3>2
  <2>3. /\ IsStream(Bytes, stream) /\ packets \in Seq(Bytes \X Bytes) /\ Len(stream) \in Nat
    BY <1>1, StreamBytes, LenProperties DEF TypeOK, IsStream
  <2>4. Len(stream) \in k .. Len(stream) /\ Len(stream) \in 0 .. Len(stream)
    BY <2>3
  <2>5. sent = Sent(stream, Len(stream))
    BY DEF PacketsSent, Sent
  <2> HIDE DEF sent
  <2>6. Embeds(packets, sent) /\ sent \in Seq(Bytes \X Bytes)
    BY <2>2, <2>3, <2>4, <2>5, SentMore, SentNext
  <2>7. PICK f \in [1 .. Len(packets) -> 1 .. Len(sent)] :
          /\ \A i \in 1 .. Len(packets) : packets[i] = sent[f[i]]
          /\ \A i, j \in 1 .. Len(packets) : i < j => f[i] < f[j]
    BY <2>6 DEF Embeds
  <2>8. DOMAIN packets = 1 .. Len(packets) /\ DOMAIN sent = 1 .. Len(sent)
    <3>1. PICK P : P = Bytes \X Bytes /\ packets \in Seq(P) /\ sent \in Seq(P)
      BY <2>3, <2>6
    <3>2. QED
      BY <3>1, LenProperties
  <2>9. Range(packets) \subseteq Range(sent)
    <3>1. ASSUME NEW i \in DOMAIN packets PROVE packets[i] \in Range(sent)
      <4>1. f[i] \in DOMAIN sent /\ packets[i] = sent[f[i]]
        BY <2>7, <2>8
      <4>2. QED
        BY <4>1 DEF Range
    <3>2. QED
      BY <3>1 DEF Range
  <2>10. ASSUME NEW i \in 1 .. Len(packets), NEW j \in 1 .. Len(packets), i < j
         PROVE  \E m, n \in 1 .. Len(sent) :
                   m < n /\ sent[m] = packets[i] /\ sent[n] = packets[j]
    <3>1. /\ f[i] \in 1 .. Len(sent) /\ f[j] \in 1 .. Len(sent) /\ f[i] < f[j]
          /\ sent[f[i]] = packets[i] /\ sent[f[j]] = packets[j]
      BY <2>7, <2>10
    <3>2. QED
      BY <3>1
  <2>11. QED
    BY <2>9, <2>10
<1>2. QED
  BY <1>1, FrameCorrect, PTL

-----------------------------------------------------------------------------
(* Replies.                                                                *)

\* A sequence over some bytes is one over more of them.
LEMMA SeqWider ==
    ASSUME NEW B, NEW C, NEW s \in Seq(B)
    PROVE  s \in Seq(B \cup C)
<1>1. Len(s) \in Nat /\ s \in [1 .. Len(s) -> B]
  BY LenProperties
<1>2. s \in [1 .. Len(s) -> B \cup C]
  BY <1>1
<1>3. QED
  BY <1>1, <1>2, SeqDef

\* The command a reply is: the reply without its terminator.
Body(f) == SubSeq(f, 1, Len(f) - 1)

\* It begins with the letter, and the value follows.
LEMMA BodyIs ==
    ASSUME NEW B, NEW f \in Seq(B), Len(f) # 0
    PROVE  /\ Body(f) \in Seq(B) /\ Len(Body(f)) = Len(f) - 1
           /\ Len(f) = 1 => Body(f) = <<>>
           /\ Len(f) > 1 => /\ Body(f) # <<>> /\ Head(Body(f)) = Head(f)
                            /\ Tail(Body(f)) = SubSeq(f, 2, Len(f) - 1)
<1>1. PICK l \in Nat : l = Len(f) - 1
  <2>1. Len(f) - 1 \in Nat
    BY LenProperties
  <2>2. QED
    BY <2>1
<1>2. Len(f) = l + 1 /\ l <= Len(f) /\ 0 <= l
  BY <1>1, LenProperties
<1>3. PICK b : b = SubSeq(f, 1, l)
  OBVIOUS
<1>4. b \in Seq(B) /\ Len(b) = l /\ \A i \in 1 .. l : b[i] = f[i]
  <2>1. /\ SubSeq(f, 0 + 1, l) \in Seq(B) /\ Len(SubSeq(f, 0 + 1, l)) = l - 0
        /\ \A i \in 1 .. l - 0 : SubSeq(f, 0 + 1, l)[i] = f[0 + i]
    BY <1>2, PartIs
  <2>2. 0 + 1 = 1 /\ l - 0 = l /\ \A i \in 1 .. l : 0 + i = i
    BY <1>1
  <2>3. QED
    BY <1>3, <2>1, <2>2
<1>5. b = Body(f)
  BY <1>1, <1>3 DEF Body
<1>6. CASE l = 0
  <2>1. b = <<>>
    BY <1>4, <1>6, EmptySeq
  <2>2. Len(f) = 1
    BY <1>2, <1>6
  <2>3. QED
    BY <1>1, <1>4, <1>5, <2>1, <2>2
<1>7. CASE l > 0
  <2>1. b # <<>>
    BY <1>4, <1>7, EmptySeq
  <2>2. Head(b) = f[1] /\ Head(f) = f[1]
    <3>1. Head(b) = b[1]
      BY <1>4, <2>1, HeadTailProperties
    <3>2. f # <<>>
      BY <1>2, EmptySeq
    <3>3. Head(f) = f[1]
      BY <3>2, HeadTailProperties
    <3>4. 1 \in 1 .. l
      BY <1>7
    <3>5. QED
      BY <1>4, <3>1, <3>3, <3>4
  <2>3. /\ Tail(b) \in Seq(B) /\ Len(Tail(b)) = l - 1
        /\ \A i \in 1 .. l - 1 : Tail(b)[i] = b[i + 1]
    BY <1>4, <2>1, HeadTailProperties
  <2>4. PICK t : t = SubSeq(f, 2, l)
    OBVIOUS
  <2>5. t \in Seq(B) /\ Len(t) = l - 1 /\ \A i \in 1 .. l - 1 : t[i] = f[1 + i]
    <3>1. 1 \in Nat /\ 1 <= l
      BY <1>7
    <3>2. /\ SubSeq(f, 1 + 1, l) \in Seq(B) /\ Len(SubSeq(f, 1 + 1, l)) = l - 1
          /\ \A i \in 1 .. l - 1 : SubSeq(f, 1 + 1, l)[i] = f[1 + i]
      BY <1>2, <3>1, PartIs
    <3>3. QED
      BY <2>4, <3>2
  <2>6. ASSUME NEW i \in 1 .. l - 1 PROVE Tail(b)[i] = t[i]
    <3>1. i + 1 \in 1 .. l /\ i + 1 = 1 + i
      BY <1>1
    <3>2. QED
      BY <1>4, <2>3, <2>5, <3>1
  <2>7. Tail(b) = t
    BY <2>3, <2>5, <2>6, SeqEqual
  <2>8. Len(f) > 1
    BY <1>2, <1>7
  <2>9. QED
    BY <1>1, <1>2, <1>4, <1>5, <2>1, <2>2, <2>4, <2>7, <2>8
<1>8. QED
  BY <1>6, <1>7

\* What fs_handle_received_commands makes of a reply.
LEMMA HandleReply ==
    ASSUME NEW B, NEW f \in Seq(B), Len(f) # 0, f[Len(f)] = Terminator,
           NEW dev, DOMAIN dev = Attributes, NEW a \in Attributes
    PROVE  Handle(dev, Body(f))[a] = IF Says(f, a) THEN Said(f) ELSE dev[a]
<1>1. /\ Len(f) = 1 => Body(f) = <<>>
      /\ Len(f) > 1 => /\ Body(f) # <<>> /\ Head(Body(f)) = Head(f)
                       /\ Tail(Body(f)) = SubSeq(f, 2, Len(f) - 1)
  BY BodyIs
<1>2. Len(f) \in Nat /\ BaudRate \in Numbers
  BY LenProperties, CommandConstants
<1>3. CASE Len(f) = 1
  <2>1. f # <<>> /\ Head(f) = f[1]
    BY <1>3, EmptySeq, HeadTailProperties, SMTT(30)
  <2>2. ~Says(f, a)
    BY <1>3, <2>1, FramingConstants DEF Says
  <2>3. Handle(dev, Body(f)) = dev
    <3>1. PICK c : c = Body(f)
      OBVIOUS
    <3>2. c = <<>>
      BY <1>1, <1>3, <3>1
    <3>3. Handle(dev, c) = dev
      BY <3>2, Zenon DEF Handle
    <3>4. QED
      BY <3>1, <3>3
  <2>4. QED
    BY <2>2, <2>3
<1>4. CASE Len(f) > 1
  <2>1. PICK c : c = Body(f)
    OBVIOUS
  <2>2. c # <<>> /\ Head(c) = Head(f) /\ Tail(c) = SubSeq(f, 2, Len(f) - 1)
    BY <1>1, <1>4, <2>1
  <2>3. Said(f) = Value(Head(c), Tail(c))
    BY <2>2 DEF Said
  <2>4. Head(c) = BaudRate => Said(f) = Number(Tail(c))
    BY <1>2, <2>3 DEF Value
  <2>5. CASE Head(c) \in Attributes /\ (Head(c) = BaudRate => Number(Tail(c)) # <<>>)
    <3>1. Handle(dev, c) = [dev EXCEPT ![Head(c)] = Value(Head(c), Tail(c))]
      BY <2>2, <2>5 DEF Handle
    <3>2. Handle(dev, c)[a] = IF a = Head(c) THEN Said(f) ELSE dev[a]
      BY <2>3, <3>1
    <3>3. Says(f, a) <=> a = Head(c)
      BY <2>2, <2>4, <2>5 DEF Says
    <3>4. QED
      BY <2>1, <3>2, <3>3
  <2>6. CASE ~(Head(c) \in Attributes /\ (Head(c) = BaudRate => Number(Tail(c)) # <<>>))
    <3>1. Handle(dev, c) = dev
      BY <2>6 DEF Handle
    <3>2. ~Says(f, a)
      BY <2>2, <2>4, <2>6 DEF Says
    <3>3. QED
      BY <2>1, <3>1, <3>2
  <2>7. QED
    BY <2>5, <2>6
<1>5. Len(f) = 1 \/ Len(f) > 1
  <2>1. \A l \in Nat : l # 0 => l = 1 \/ l > 1
    OBVIOUS
  <2>2. QED
    BY <1>2, <2>1, Zenon
<1>6. QED
  BY <1>3, <1>4, <1>5

-----------------------------------------------------------------------------
(* The scan of a buffer in which no frame with packets is whole.           *)

\* Replies and line ends, and frames with packets between them.
Simple(f) == Len(f) # 0 /\ (HasPackets(f) \/ ReplyFrame(f) \/ LineFrame(f))
AllSimple(s) == \A n \in 1 .. Len(s) : Simple(s[n])

\* In them a terminator ends a reply.
LEMMA TerminatorEnds ==
    ASSUME NEW f, IsFrame(f), Simple(f), NEW i \in 1 .. Len(f), f[i] = Terminator
    PROVE  i = Len(f) /\ ReplyFrame(f)
<1>1. i = Len(f) /\ ~HasPackets(f)
  BY DelimiterPlaces
<1>2. ~LineFrame(f)
  <2>1. Terminator # LineEnd
    BY DEF Terminator, LineEnd
  <2>2. QED
    BY <2>1 DEF LineFrame
<1>3. QED
  BY <1>1, <1>2 DEF Simple

\* The payload that fs_segment_commands has collected of a frame after i bytes.
Collected(f, i, payload) ==
    ~HasPackets(f) => payload = IF ReplyFrame(f) THEN SubSeq(f, 1, i) ELSE <<>>

\* ... at place x of the stream.
CollectedAt(s, x, payload) ==
    \A j \in 1 .. Len(s) :
        EndAt(s, j - 1) <= x /\ x < EndAt(s, j) => Collected(s[j], x - EndAt(s, j - 1), payload)

\* A place is within one frame at most.
LEMMA OneFrame ==
    ASSUME NEW B, NEW s, IsStream(B, s), NEW x \in Nat, NEW i \in 1 .. Len(s),
           NEW j \in 1 .. Len(s), EndAt(s, i - 1) <= x, x < EndAt(s, i),
           EndAt(s, j - 1) <= x, x < EndAt(s, j)
    PROVE  i = j
<1>1. Len(s) \in Nat
  BY LenProperties DEF IsStream
<1>2. /\ EndAt(s, i) \in Nat /\ EndAt(s, i - 1) \in Nat
      /\ EndAt(s, j) \in Nat /\ EndAt(s, j - 1) \in Nat
  <2>1. i \in 0 .. Len(s) /\ i - 1 \in 0 .. Len(s) /\ j \in 0 .. Len(s) /\ j - 1 \in 0 .. Len(s)
    BY <1>1
  <2>2. QED
    BY <2>1, EndsInOrder
<1>3. CASE i < j
  <2>1. j - 1 \in 0 .. Len(s) /\ i \in 0 .. j - 1
    BY <1>1, <1>3
  <2>2. EndAt(s, i) <= EndAt(s, j - 1)
    BY <2>1, EndsInOrder
  <2>3. QED
    BY <1>2, <2>2
<1>4. CASE j < i
  <2>1. i - 1 \in 0 .. Len(s) /\ j \in 0 .. i - 1
    BY <1>1, <1>4
  <2>2. EndAt(s, j) <= EndAt(s, i - 1)
    BY <2>1, EndsInOrder
  <2>3. QED
    BY <1>2, <2>2
<1>5. QED
  BY <1>1, <1>3, <1>4

\* So what is known there of one frame is all there is to know.
LEMMA CollectedWithin ==
    ASSUME NEW B, NEW s, IsStream(B, s), NEW x \in Nat, NEW j \in 1 .. Len(s),
           EndAt(s, j - 1) <= x, x < EndAt(s, j),
           NEW i, i = x - EndAt(s, j - 1), NEW payload, Collected(s[j], i, payload)
    PROVE  CollectedAt(s, x, payload)
<1> SUFFICES ASSUME NEW n \in 1 .. Len(s), EndAt(s, n - 1) <= x, x < EndAt(s, n)
             PROVE  Collected(s[n], x - EndAt(s, n - 1), payload)
  BY DEF CollectedAt
<1>1. n = j
  BY OneFrame
<1>2. QED
  BY <1>1

\* Between frames nothing is collected.
LEMMA CollectedBetween ==
    ASSUME NEW B, NEW s, IsStream(B, s), NEW j \in 0 .. Len(s)
    PROVE  CollectedAt(s, EndAt(s, j), <<>>)
<1> SUFFICES ASSUME NEW n \in 1 .. Len(s), EndAt(s, n - 1) <= EndAt(s, j),
                    EndAt(s, j) < EndAt(s, n)
             PROVE  Collected(s[n], EndAt(s, j) - EndAt(s, n - 1), <<>>)
  BY DEF CollectedAt
<1>1. Len(s) \in Nat
  BY LenProperties DEF IsStream
<1>2. n \in 0 .. Len(s) /\ n - 1 \in 0 .. Len(s)
  BY <1>1
<1>3. EndAt(s, n) \in Nat /\ EndAt(s, n - 1) \in Nat /\ EndAt(s, j) \in Nat
  BY <1>2, EndsInOrder
<1>4. ~(n <= j)
  <2> SUFFICES ASSUME n <= j PROVE FALSE
    OBVIOUS
  <2>1. n \in 0 .. j
    BY <1>1
  <2>2. EndAt(s, n) <= EndAt(s, j)
    BY <2>1, EndsInOrder
  <2>3. QED
    BY <1>3, <2>2
<1>5. j \in 0 .. n - 1
  BY <1>1, <1>4
<1>6. EndAt(s, j) <= EndAt(s, n - 1)
  BY <1>2, <1>5, EndsInOrder
<1>7. EndAt(s, j) - EndAt(s, n - 1) = 0
  BY <1>3, <1>6
<1>8. SubSeq(s[n], 1, 0) = <<>>
  BY SubSeqEmpty
<1>9. Collected(s[n], 0, <<>>)
  BY <1>8, Zenon DEF Collected
<1>10. QED
  BY <1>7, <1>9

\* What byte i of a frame does to the locals of fs_segment_commands.
CollectStep(f, i, u, t) ==
    /\ \/ t.queue = u.queue
       \/ ReplyFrame(f) /\ i = Len(f) /\ t.queue = Append(u.queue, Body(f))
    /\ t.ret = "none" /\ i < Len(f) => Collected(f, i, t.payload)
    /\ t.ret = "none" /\ i = Len(f) => t.payload = <<>>
    /\ ReplyFrame(f) /\ i < Len(f) => t.queue = u.queue /\ t.ret = "none"
    /\ ReplyFrame(f) /\ i = Len(f) /\ Len(u.queue) < CommandQueueLength =>
         t.queue = Append(u.queue, Body(f)) /\ t.ret = "none"

\* A byte of a reply is collected, its terminator queues the reply, and nothing else
\* is ever queued, unless a frame with packets is whole.
LEMMA CollectByte ==
    ASSUME NEW B, NEW f \in Seq(B), IsFrame(f), Simple(f), NEW i \in 1 .. Len(f),
           HasPackets(f) => i < Len(f), NEW P, NEW u, ScanType(P, u), u.ret = "none",
           Collected(f, i - 1, u.payload), NEW t, ByteStep(u, f[i], t)
    PROVE  CollectStep(f, i, u, t)
<1>1. PICK l \in Nat : l = Len(f) /\ l # 0 /\ i \in 1 .. l
  BY DEF IsFrame, Simple
<1>2. /\ f[i] = Terminator => i = Len(f) /\ ReplyFrame(f)
      /\ f[i] = LineEnd => f[i] \in Marks
      /\ f[i] = Terminator => f[i] \in Marks
      /\ f[i] \notin Marks => f[i] # Terminator /\ f[i] # LineEnd
  BY TerminatorEnds DEF Marks
<1>3. Terminator # LineEnd /\ Terminator # Footer
  BY DEF Terminator, LineEnd, Footer
<1>4. CASE HasPackets(f)
  <2>1. ~ReplyFrame(f) /\ i < Len(f) /\ i # Len(f)
    <3>1. f[Len(f)] = Footer
      BY <1>4, PacketFrameEnds
    <3>2. ~ReplyFrame(f)
      BY <1>3, <3>1 DEF ReplyFrame
    <3>3. i < l /\ i # l
      BY <1>1, <1>4
    <3>4. QED
      BY <1>1, <3>2, <3>3
  <2>2. t.queue = u.queue
    BY <1>2, <2>1 DEF ByteStep
  <2>3. QED
    BY <1>4, <2>1, <2>2 DEF CollectStep, Collected
<1>5. CASE ReplyFrame(f) /\ i < Len(f)
  <2>1. ~HasPackets(f) /\ f[Len(f)] = Terminator
    <3>1. f[Len(f)] = Terminator
      BY <1>5 DEF ReplyFrame
    <3>2. HasPackets(f) => f[Len(f)] = Footer
      BY PacketFrameEnds
    <3>3. QED
      BY <1>3, <3>1, <3>2
  <2>2. i # Len(f) /\ i \in 1 .. Len(f) - 1
    <3>1. i # l /\ i \in 1 .. l - 1
      BY <1>1, <1>5
    <3>2. QED
      BY <1>1, <3>1
  <2>3. f[i] \notin Marks
    <3>1. f[i] # LineEnd
      BY <1>5 DEF ReplyFrame
    <3>2. QED
      BY <1>2, <2>2, <3>1 DEF Marks
  <2>4. u.payload = SubSeq(f, 1, i - 1)
    BY <1>5, <2>1 DEF Collected
  <2>5. PICK h \in Nat : h = i - 1 /\ i = h + 1 /\ h < l - 1 /\ h + 1 <= l
    <3>1. i - 1 \in Nat /\ i = (i - 1) + 1 /\ i - 1 < l - 1 /\ (i - 1) + 1 <= l
      BY <1>1, <1>5
    <3>2. QED
      BY <3>1
  <2>6. Len(u.payload) < CommandLength - 1
    <3>1. Len(SubSeq(f, 0 + 1, h)) = h - 0
      <4>1. h \in Nat /\ h <= Len(f) /\ 0 \in Nat /\ 0 <= h
        BY <1>1, <2>5
      <4>2. QED
        BY <4>1, PartIs
    <3>2. 0 + 1 = 1 /\ h - 0 = h
      BY <2>5
    <3>3. Len(u.payload) = h
      BY <2>4, <2>5, <3>1, <3>2
    <3>4. l <= CommandLength /\ CommandLength \in Nat
      BY <1>1, <1>5, CommandConstants DEF ReplyFrame
    <3>5. h < CommandLength - 1
      BY <1>1, <2>5, <3>4
    <3>6. QED
      BY <3>3, <3>5
  <2>7. t.queue = u.queue /\ t.payload = Append(u.payload, f[i]) /\ t.ret = "none"
    BY <2>3, <2>6, <1>2 DEF ByteStep
  <2>8. Append(SubSeq(f, 1, h), f[h + 1]) = SubSeq(f, 1, h + 1)
    <3>1. h + 1 <= Len(f) /\ 1 \in 1 .. h + 1
      BY <1>1, <2>5
    <3>2. QED
      BY <3>1, OneLonger
  <2>9. t.payload = SubSeq(f, 1, i)
    BY <2>4, <2>5, <2>7, <2>8
  <2>10. QED
    BY <1>5, <2>2, <2>7, <2>9 DEF CollectStep, Collected
<1>6. CASE ReplyFrame(f) /\ i = Len(f)
  <2>1. f[i] = Terminator /\ ~HasPackets(f) /\ ~(i < Len(f))
    <3>1. f[i] = Terminator
      BY <1>6 DEF ReplyFrame
    <3>2. ~(i < l)
      BY <1>1, <1>6
    <3>3. QED
      BY <1>1, <1>6, <3>1, <3>2
  <2>2. u.payload = Body(f)
    BY <1>6, <2>1 DEF Collected, Body
  <2>3. \/ /\ Len(u.queue) < CommandQueueLength
           /\ t.queue = Append(u.queue, u.payload) /\ t.payload = <<>> /\ t.ret = "none"
        \/ /\ ~(Len(u.queue) < CommandQueueLength)
           /\ t.queue = u.queue /\ t.ret = "full"
    BY <1>2, <1>3, <2>1 DEF ByteStep
  <2>4. QED
    BY <1>6, <2>1, <2>2, <2>3 DEF CollectStep
<1>7. CASE LineFrame(f)
  <2>1. f[i] = LineEnd /\ f[Len(f)] = LineEnd
    <3>1. l \in 1 .. l
      BY <1>1
    <3>2. QED
      BY <1>1, <1>7, <3>1 DEF LineFrame
  <2>2. ~ReplyFrame(f)
    BY <1>3, <2>1 DEF ReplyFrame
  <2>3. t.queue = u.queue /\ (t.ret = "none" => t.payload = <<>>)
    BY <1>2, <1>3, <2>1 DEF ByteStep
  <2>4. QED
    BY <2>2, <2>3 DEF CollectStep, Collected
<1>8. QED
  <2>1. HasPackets(f) \/ ReplyFrame(f) \/ LineFrame(f)
    BY DEF Simple
  <2>2. i < Len(f) \/ i = Len(f)
    <3>1. i < l \/ i = l
      BY <1>1
    <3>2. QED
      BY <1>1, <3>1
  <2>3. QED
    BY <1>4, <1>5, <1>6, <1>7, <2>1, <2>2

\* Of l bytes between places c and e, byte i is the next one at place x, and y is the
\* place behind it.
Inside(x, y, c, e, l, i) ==
    /\ x \in Nat /\ c <= x /\ x < e /\ x - c = i - 1
    /\ y \in Nat /\ y = x + 1
    /\ i < l => c <= y /\ y < e /\ y - c = i
    /\ i = l => y = e

\* It is when it is counted from the place behind.
LEMMA InsideIs ==
    ASSUME NEW x \in Nat, NEW y, y = x + 1, NEW c \in Nat, NEW l \in Nat, NEW e, e = c + l,
           NEW i \in 1 .. l, i = y - c
    PROVE  Inside(x, y, c, e, l, i)
<1>1. QED
  BY DEF Inside

\* Byte i of frame j is the next one, and it is not the end of a frame with packets.
NextByte(s, x, y, j, i) ==
    /\ Inside(x, y, EndAt(s, j - 1), EndAt(s, j), Len(s[j]), i)
    /\ HasPackets(s[j]) => i < Len(s[j])

\* A buffer in which the scanner finds no frame does not hold the end of one.
LEMMA NextByteIs ==
    ASSUME NEW B, NEW s, IsStream(B, s), NEW k \in 0 .. Len(s), NEW C, NEW buf \in Seq(C),
           Window(s, EndAt(s, k), buf), ~FrameSeen(buf), NEW n \in 0 .. Len(buf) - 1,
           NEW x, x = EndAt(s, k) + n, NEW y, y = x + 1
    PROVE  \E j \in k + 1 .. Len(s) : \E i \in 1 .. Len(s[j]) :
             NextByte(s, x, y, j, i) /\ buf[n + 1] = s[j][i]
<1>1. PICK b \in Nat, m \in Nat, a \in Nat : b = Len(buf) /\ m = Len(s) /\ a = EndAt(s, k)
  BY LenProperties, EndsInOrder DEF IsStream
<1>2. /\ n + 1 \in 1 .. Len(buf) /\ x \in Nat /\ x = a + n /\ n \in 0 .. b - 1
      /\ a + (n + 1) = x + 1
  BY <1>1
<1>3. y \in 1 .. Len(FlattenSeq(s)) /\ buf[n + 1] = FlattenSeq(s)[y]
  <2>1. Len(FlattenSeq(s)) \in Nat /\ a + b <= Len(FlattenSeq(s))
    BY <1>1, EndsInOrder, FramesArePlaced, LenProperties DEF IsStream, Window
  <2>2. x + 1 \in 1 .. Len(FlattenSeq(s))
    BY <1>1, <1>2, <2>1, SMTT(30)
  <2>3. buf[n + 1] = FlattenSeq(s)[EndAt(s, k) + (n + 1)]
    BY <1>2 DEF Window
  <2>4. QED
    BY <1>1, <1>2, <2>2, <2>3
<1>4. PICK j \in 1 .. Len(s) : InFrame(s, j, y)
  BY <1>3, FrameOfByte
<1>5. PICK i \in 1 .. Len(s[j]) : i = y - EndAt(s, j - 1) /\ buf[n + 1] = s[j][i]
  BY <1>3, <1>4 DEF InFrame
<1>6. PICK c \in Nat, e, l \in Nat :
        c = EndAt(s, j - 1) /\ e = EndAt(s, j) /\ e = c + l /\ l = Len(s[j])
  <2>1. j - 1 \in 0 .. Len(s)
    BY <1>1
  <2>2. EndAt(s, j - 1) \in Nat /\ EndAt(s, j) \in Nat
    <3>1. j \in 0 .. Len(s)
      BY <1>1
    <3>2. QED
      BY <2>1, <3>1, EndsInOrder
  <2>3. EndAt(s, j) = EndAt(s, j - 1) + Len(s[j])
    BY ByteOfFrame
  <2>4. Len(s[j]) \in Nat
    BY DEF IsStream, IsFrame
  <2>5. QED
    BY <2>2, <2>3, <2>4
<1>7. Inside(x, y, c, e, l, i)
  <2>1. x \in Nat /\ i = y - c /\ i \in 1 .. l /\ e = c + l
    BY <1>2, <1>5, <1>6
  <2>2. QED
    BY <2>1, InsideIs
<1>8. j \in k + 1 .. Len(s)
  <2>1. CASE j <= k
    <3>1. j \in 0 .. k
      BY <1>1, <2>1
    <3>2. e <= a /\ e \in Nat
      BY <1>1, <1>6, <3>1, EndsInOrder
    <3>3. x < e /\ a <= x
      <4>1. x < e
        BY <1>7 DEF Inside
      <4>2. a <= x
        BY ONLY <1>2, a \in Nat, b \in Nat
      <4>3. QED
        BY <4>1, <4>2
    <3>4. QED
      BY <1>2, <3>2, <3>3
  <2>2. CASE ~(j <= k)
    BY <1>1, <2>2
  <2>3. QED
    BY <2>1, <2>2
<1>9. ASSUME HasPackets(s[j]) PROVE i < l
  <2>0. i \in 1 .. l
    BY <1>5, <1>6
  <2> SUFFICES ASSUME i = l PROVE FALSE
    BY <2>0
  <2>1. e = y
    BY <1>7 DEF Inside
  <2>2. y <= a + b
    BY <1>2
  <2>3. EndAt(s, j) <= EndAt(s, k) + Len(buf)
    BY <1>1, <1>6, <2>1, <2>2
  <2>4. QED
    BY <1>8, <1>9, <2>3, WholeFrameIsSeen
<1>10. NextByte(s, x, y, j, i)
  BY <1>6, <1>7, <1>9 DEF NextByte
<1>11. QED
  BY <1>5, <1>8, <1>10

\* A command that is a reply.
Replied(s, cmd) == \E n \in 1 .. Len(s) : ReplyFrame(s[n]) /\ cmd = Body(s[n])

\* At place x: nothing but whole replies are queued, and a part of one is collected.
Understood(s, x, u) ==
    /\ \A i \in 1 .. Len(u.queue) : Replied(s, u.queue[i])
    /\ u.ret = "none" => CollectedAt(s, x, u.payload)

\* The next byte at a place does to the locals what it does within its frame.
LEMMA CollectNext ==
    ASSUME NEW B, NEW s, IsStream(B, s), AllSimple(s), NEW x, NEW j \in 1 .. Len(s),
           NEW i \in 1 .. Len(s[j]), NEW y, NextByte(s, x, y, j, i), NEW P, NEW u, ScanType(P, u),
           u.ret = "none", CollectedAt(s, x, u.payload), NEW t, t = ScanByte(u, s[j][i])
    PROVE  CollectStep(s[j], i, u, t) /\ (t.ret = "none" => CollectedAt(s, y, t.payload))
<1>1. s[j] \in Seq(B) /\ IsFrame(s[j]) /\ Simple(s[j]) /\ j \in 0 .. Len(s)
  BY ElementOfSeq, LenProperties DEF IsStream, AllSimple
<1>2. /\ EndAt(s, j - 1) <= x /\ x < EndAt(s, j) /\ x - EndAt(s, j - 1) = i - 1
      /\ HasPackets(s[j]) => i < Len(s[j])
      /\ x \in Nat /\ y \in Nat
  BY DEF NextByte, Inside
<1>3. Collected(s[j], i - 1, u.payload)
  BY <1>2 DEF CollectedAt
<1>4. ByteStep(u, s[j][i], t)
  BY ScanByteSteps DEF ScanType
<1>5. CollectStep(s[j], i, u, t)
  BY <1>1, <1>2, <1>3, <1>4, CollectByte
<1>6. ASSUME t.ret = "none" PROVE CollectedAt(s, y, t.payload)
  <2>1. CASE i < Len(s[j])
    <3>1. Collected(s[j], i, t.payload)
      BY <1>5, <1>6, <2>1 DEF CollectStep
    <3>2. y \in Nat /\ EndAt(s, j - 1) <= y /\ y < EndAt(s, j) /\ i = y - EndAt(s, j - 1)
      BY <2>1 DEF NextByte, Inside
    <3>3. QED
      BY <3>1, <3>2, CollectedWithin
  <2>2. CASE i = Len(s[j])
    <3>1. t.payload = <<>>
      BY <1>5, <1>6, <2>2 DEF CollectStep
    <3>2. y = EndAt(s, j)
      BY <2>2 DEF NextByte, Inside
    <3>3. CollectedAt(s, EndAt(s, j), <<>>)
      BY <1>1, CollectedBetween
    <3>4. QED
      BY <3>1, <3>2, <3>3
  <2>3. i < Len(s[j]) \/ i = Len(s[j])
    BY <1>1 DEF IsFrame
  <2>4. QED
    BY <2>1, <2>2, <2>3
<1>7. QED
  BY <1>5, <1>6

\* So only replies are queued.
LEMMA UnderstoodByte ==
    ASSUME NEW B, NEW s, IsStream(B, s), AllSimple(s), NEW x, NEW j \in 1 .. Len(s),
           NEW i \in 1 .. Len(s[j]), NEW y, NextByte(s, x, y, j, i), NEW u, ScanType(B, u),
           Understood(s, x, u), NEW t, t = ScanByte(u, s[j][i])
    PROVE  Understood(s, y, t)
<1>1. CASE u.ret # "none"
  <2>1. t = u
    BY <1>1 DEF ScanByte
  <2>2. QED
    BY <1>1, <2>1 DEF Understood
<1>2. CASE u.ret = "none"
  <2>1. CollectStep(s[j], i, u, t) /\ (t.ret = "none" => CollectedAt(s, y, t.payload))
    BY <1>2, CollectNext DEF Understood
  <2>2. CASE t.queue = u.queue
    BY <2>1, <2>2 DEF Understood
  <2>3. CASE ReplyFrame(s[j]) /\ t.queue = Append(u.queue, Body(s[j]))
    <3>1. Replied(s, Body(s[j]))
      BY <2>3 DEF Replied
    <3>2. ASSUME NEW n \in 1 .. Len(t.queue) PROVE Replied(s, t.queue[n])
      <4>1. PICK q \in Seq(Seq(B)) : q = u.queue /\ Len(q) \in Nat
        BY LenProperties DEF ScanType, Locals
      <4>2. PICK c \in Seq(B) : c = Body(s[j]) /\ t.queue = Append(q, c)
        <5>1. s[j] \in Seq(B) /\ Len(s[j]) # 0
          BY ElementOfSeq DEF IsStream, AllSimple, Simple
        <5>2. Body(s[j]) \in Seq(B)
          BY <5>1, BodyIs
        <5>3. QED
          BY <2>3, <4>1, <5>2
      <4>3. /\ Len(Append(q, c)) = Len(q) + 1 /\ Append(q, c)[Len(q) + 1] = c
            /\ \A k \in 1 .. Len(q) : Append(q, c)[k] = q[k]
        BY <4>1, <4>2, AppendProperties
      <4>4. n \in 1 .. Len(q) \/ n = Len(q) + 1
        BY <4>1, <4>2, <4>3
      <4>5. QED
        BY <3>1, <4>1, <4>2, <4>3, <4>4 DEF Understood
    <3>3. QED
      BY <2>1, <3>2 DEF Understood
  <2>4. QED
    BY <2>1, <2>2, <2>3 DEF CollectStep
<1>3. QED
  BY <1>1, <1>2

\* Whatever is queued after a buffer without a whole frame, whole replies are.
LEMMA SegmentUnderstood ==
    ASSUME NEW B, NEW s, IsStream(B, s), AllSimple(s), NEW k \in 0 .. Len(s), NEW buf \in Seq(B),
           Window(s, EndAt(s, k), buf), ~FrameSeen(buf), NEW q, Queued(B, q),
           \A i \in 1 .. Len(q) : Replied(s, q[i])
    PROVE  Understood(s, EndAt(s, k) + Len(buf), Segment(q, buf))
<1> DEFINE S == {n \in 0 .. Len(buf) : Understood(s, EndAt(s, k) + n, Scanned(q, buf, n))}
<1>1. Len(buf) \in Nat /\ EndAt(s, k) \in Nat /\ EndAt(s, k) + 0 = EndAt(s, k)
  BY LenProperties, EndsInOrder
<1>2. buf \in Seq(B \cup Marks)
  BY SeqWider
<1>3. 0 \in S
  <2>1. PICK u : u = Scanned(q, buf, 0)
    OBVIOUS
  <2>2. u.queue = q /\ u.payload = <<>>
    <3>1. u = Scan(q)
      BY <2>1, Segmentation
    <3>2. QED
      BY <3>1 DEF Scan
  <2>3. CollectedAt(s, EndAt(s, k), <<>>)
    BY CollectedBetween
  <2>4. CollectedAt(s, EndAt(s, k), u.payload)
    BY <2>2, <2>3, Zenon
  <2>5. Understood(s, EndAt(s, k), u)
    BY <2>2, <2>4 DEF Understood
  <2>6. QED
    BY <1>1, <2>1, <2>5
<1>4. ASSUME NEW n \in 0 .. Len(buf) - 1, n \in S PROVE n + 1 \in S
  <2>1. n \in 0 .. Len(buf) /\ n + 1 \in 0 .. Len(buf)
    BY <1>1
  <2>2. PICK x, y : x = EndAt(s, k) + n /\ y = x + 1
    OBVIOUS
  <2>3. y = EndAt(s, k) + (n + 1)
    BY <1>1, <2>2
  <2>4. PICK j \in k + 1 .. Len(s) : \E i \in 1 .. Len(s[j]) :
          NextByte(s, x, y, j, i) /\ buf[n + 1] = s[j][i]
    BY <2>2, NextByteIs
  <2>5. PICK i \in 1 .. Len(s[j]) : NextByte(s, x, y, j, i) /\ buf[n + 1] = s[j][i]
    BY <2>4
  <2>6. j \in 1 .. Len(s)
    OBVIOUS
  <2>7. PICK u : u = Scanned(q, buf, n)
    OBVIOUS
  <2>8. ScanType(B, u) /\ Understood(s, x, u)
    BY <1>2, <1>4, <2>1, <2>2, <2>7, SegmentType
  <2>9. PICK t : t = ScanByte(u, s[j][i])
    OBVIOUS
  <2>10. Understood(s, y, t)
    BY <2>5, <2>6, <2>8, <2>9, UnderstoodByte
  <2>11. Scanned(q, buf, n + 1) = t
    BY <2>5, <2>7, <2>9, Segmentation
  <2>12. QED
    BY <2>1, <2>3, <2>10, <2>11
<1>5. \A n \in 0 .. Len(buf) : n \in S
  <2> HIDE DEF S
  <2>1. QED
    BY <1>1, <1>3, <1>4, Induction
<1>6. Segment(q, buf) = Scanned(q, buf, Len(buf)) /\ Len(buf) \in S
  <2>1. Len(buf) \in 0 .. Len(buf)
    BY <1>1
  <2>2. QED
    BY <1>5, <2>1, Segmentation
<1>7. QED
  BY <1>6

-----------------------------------------------------------------------------
(* A stream of replies only.                                               *)

\* m frames have passed at place x.
Passed(s, x, m) ==
    m \in 0 .. Len(s) /\ EndAt(s, m) <= x /\ (m < Len(s) => x < EndAt(s, m + 1))

\* There is one such number.
LEMMA PassedOnce ==
    ASSUME NEW B, NEW s, IsStream(B, s), NEW x \in Nat,
           NEW m, Passed(s, x, m), NEW n, Passed(s, x, n)
    PROVE  ~(m < n)
<1> SUFFICES ASSUME m < n PROVE FALSE
  OBVIOUS
<1>1. m \in 0 .. Len(s) /\ n \in 0 .. Len(s) /\ Len(s) \in Nat
  BY LenProperties DEF Passed, IsStream
<1>2. m < Len(s) /\ m + 1 \in 0 .. n /\ m + 1 \in 0 .. Len(s)
  BY <1>1
<1>3. EndAt(s, m + 1) <= EndAt(s, n) /\ EndAt(s, m + 1) \in Nat /\ EndAt(s, n) \in Nat
  BY <1>1, <1>2, EndsInOrder
<1>4. x < EndAt(s, m + 1) /\ EndAt(s, n) <= x
  BY <1>2 DEF Passed
<1>5. QED
  BY <1>3, <1>4

\* The commands that the frames from k + 1 to m are.
Bodies(s, k, m) == [i \in 1 .. m - k |-> Body(s[k + i])]

\* They are commands.
LEMMA BodiesType ==
    ASSUME NEW B, NEW s, IsStream(B, s), AllSimple(s), NEW k \in 0 .. Len(s), NEW m \in k .. Len(s)
    PROVE  Bodies(s, k, m) \in Seq(Seq(B)) /\ Len(Bodies(s, k, m)) = m - k
<1>1. k \in Nat /\ m \in Nat /\ Len(s) \in Nat
  BY LenProperties DEF IsStream
<1>2. PICK g \in Nat : g = m - k
  <2>1. m - k \in Nat
    BY <1>1
  <2>2. QED
    BY <2>1
<1>3. PICK T : T = Seq(B)
  OBVIOUS
<1>4. ASSUME NEW i \in 1 .. g PROVE Body(s[k + i]) \in T
  <2>1. PICK n \in 1 .. Len(s) : n = k + i
    <3>1. k + i \in 1 .. Len(s)
      BY <1>1, <1>2
    <3>2. QED
      BY <3>1
  <2>2. s[n] \in Seq(B) /\ Len(s[n]) # 0
    BY ElementOfSeq DEF IsStream, AllSimple, Simple
  <2>3. QED
    BY <1>3, <2>1, <2>2, BodyIs
<1>5. PICK b : b = Bodies(s, k, m)
  OBVIOUS
<1>6. b = [i \in 1 .. g |-> Body(s[k + i])]
  BY <1>2, <1>5 DEF Bodies
<1>7. b \in [1 .. g -> T]
  BY <1>4, <1>6
<1>8. b \in Seq(T) /\ Len(b) = g
  BY <1>7, SeqDef, LenProperties
<1>9. QED
  BY <1>2, <1>3, <1>5, <1>8

\* One more frame is one more command.
LEMMA BodiesNext ==
    ASSUME NEW B, NEW s, IsStream(B, s), AllSimple(s), NEW k \in 0 .. Len(s),
           NEW j \in k + 1 .. Len(s)
    PROVE  Bodies(s, k, j) = Append(Bodies(s, k, j - 1), Body(s[j]))
<1>1. /\ k \in Nat /\ j \in Nat /\ Len(s) \in Nat
      /\ j - 1 \in k .. Len(s) /\ j \in k .. Len(s) /\ j \in 1 .. Len(s)
  BY LenProperties DEF IsStream
<1>2. PICK h \in Nat : h = j - 1 - k /\ j - k = h + 1 /\ k + (h + 1) = j
  <2>1. j - 1 - k \in Nat /\ j - k = (j - 1 - k) + 1 /\ k + ((j - 1 - k) + 1) = j
    BY <1>1
  <2>2. QED
    BY <2>1
<1>3. PICK a, b, T : a = Bodies(s, k, j - 1) /\ b = Bodies(s, k, j) /\ T = Seq(B)
  OBVIOUS
<1>4. a \in Seq(T) /\ Len(a) = h /\ b \in Seq(T) /\ Len(b) = h + 1
  <2>1. Bodies(s, k, j - 1) \in Seq(Seq(B)) /\ Len(Bodies(s, k, j - 1)) = j - 1 - k
    BY <1>1, BodiesType
  <2>2. Bodies(s, k, j) \in Seq(Seq(B)) /\ Len(Bodies(s, k, j)) = j - k
    BY <1>1, BodiesType
  <2>3. QED
    BY <1>2, <1>3, <2>1, <2>2
<1>5. a = [i \in 1 .. h |-> Body(s[k + i])] /\ b = [i \in 1 .. h + 1 |-> Body(s[k + i])]
  BY <1>2, <1>3 DEF Bodies
<1>6. PICK c \in T : c = Body(s[j])
  <2>1. s[j] \in Seq(B) /\ Len(s[j]) # 0
    BY <1>1, ElementOfSeq DEF IsStream, AllSimple, Simple
  <2>2. QED
    BY <1>3, <2>1, BodyIs
<1>7. /\ Append(a, c) \in Seq(T) /\ Len(Append(a, c)) = h + 1 /\ Append(a, c)[h + 1] = c
      /\ \A i \in 1 .. h : Append(a, c)[i] = a[i]
  BY <1>4, AppendProperties
<1>8. ASSUME NEW i \in 1 .. h + 1 PROVE b[i] = Append(a, c)[i]
  <2>1. CASE i = h + 1
    BY <1>2, <1>5, <1>6, <1>7, <2>1
  <2>2. CASE i # h + 1
    <3>1. i \in 1 .. h
      BY <2>2
    <3>2. QED
      BY <1>5, <1>7, <3>1
  <2>3. QED
    BY <2>1, <2>2
<1>9. b = Append(a, c)
  BY <1>4, <1>7, <1>8, SeqEqual
<1>10. QED
  BY <1>3, <1>6, <1>9

\* At place x: the commands of all the frames that have passed since frame k are queued.
AllQueued(s, k, x, u) ==
    /\ u.ret = "none" /\ CollectedAt(s, x, u.payload)
    /\ \A m \in k .. Len(s) : Passed(s, x, m) => u.queue = Bodies(s, k, m)

\* A byte of a reply keeps it so, as the queue takes one command of every reply.
LEMMA AllQueuedByte ==
    ASSUME NEW B, NEW s, IsStream(B, s), AllSimple(s), Len(s) <= CommandQueueLength,
           NEW k \in 0 .. Len(s),
           NEW x, NEW j \in k + 1 .. Len(s), ReplyFrame(s[j]), NEW i \in 1 .. Len(s[j]),
           NEW y, NextByte(s, x, y, j, i), NEW u, ScanType(B, u), AllQueued(s, k, x, u),
           NEW t, t = ScanByte(u, s[j][i])
    PROVE  AllQueued(s, k, y, t)
<1>1. /\ Len(s) \in Nat /\ CommandQueueLength \in Nat /\ j \in 1 .. Len(s)
      /\ j \in 0 .. Len(s) /\ j - 1 \in 0 .. Len(s) /\ j - 1 \in k .. Len(s) /\ j - 1 + 1 = j
      /\ j - 1 - k < Len(s)
  BY LenProperties, CommandConstants DEF IsStream
<1>2. CollectStep(s[j], i, u, t) /\ (t.ret = "none" => CollectedAt(s, y, t.payload))
  BY <1>1, CollectNext DEF AllQueued
<1>3. /\ x \in Nat /\ EndAt(s, j - 1) <= x /\ x < EndAt(s, j) /\ y \in Nat
      /\ i < Len(s[j]) => EndAt(s, j - 1) <= y /\ y < EndAt(s, j)
      /\ i = Len(s[j]) => y = EndAt(s, j)
  BY DEF NextByte, Inside
<1>4. u.queue = Bodies(s, k, j - 1)
  <2>1. Passed(s, x, j - 1)
    BY <1>1, <1>3 DEF Passed
  <2>2. QED
    BY <1>1, <2>1 DEF AllQueued
<1>5. CASE i < Len(s[j])
  <2>1. t.queue = u.queue /\ t.ret = "none"
    BY <1>2, <1>5 DEF CollectStep
  <2>2. ASSUME NEW m \in k .. Len(s), Passed(s, y, m) PROVE m = j - 1
    <3>1. Passed(s, y, j - 1)
      BY <1>1, <1>3, <1>5 DEF Passed
    <3>2. ~(m < j - 1) /\ ~(j - 1 < m)
      BY <1>3, <2>2, <3>1, PassedOnce
    <3>3. QED
      BY <1>1, <3>2
  <2>3. QED
    BY <1>2, <1>4, <2>1, <2>2 DEF AllQueued
<1>6. CASE i = Len(s[j])
  <2>1. Len(u.queue) < CommandQueueLength
    <3>1. Len(u.queue) = j - 1 - k
      <4>1. PICK m \in k .. Len(s) : m = j - 1
        BY <1>1
      <4>2. Len(Bodies(s, k, m)) = m - k
        BY BodiesType
      <4>3. QED
        BY <1>4, <4>1, <4>2
    <3>2. QED
      BY <1>1, <3>1
  <2>2. t.queue = Append(u.queue, Body(s[j])) /\ t.ret = "none"
    BY <1>2, <1>6, <2>1 DEF CollectStep
  <2>3. t.queue = Bodies(s, k, j)
    BY <1>4, <2>2, BodiesNext
  <2>4. ASSUME NEW m \in k .. Len(s), Passed(s, y, m) PROVE m = j
    <3>1. Passed(s, y, j)
      <4>1. EndAt(s, j) \in Nat
        BY <1>1, EndsInOrder
      <4>2. j < Len(s) => EndAt(s, j) < EndAt(s, j + 1)
        <5>1. j < Len(s) => j + 1 \in 1 .. Len(s) /\ j \in 0 .. j + 1 - 1
          BY ONLY <1>1
        <5>2. QED
          BY <5>1, EndsApart DEF AllSimple, Simple
      <4>3. QED
        BY <1>1, <1>3, <1>6, <4>1, <4>2 DEF Passed
    <3>2. ~(m < j) /\ ~(j < m)
      BY <1>3, <2>4, <3>1, PassedOnce
    <3>3. QED
      BY <1>1, <3>2
  <2>5. QED
    BY <1>2, <2>2, <2>3, <2>4 DEF AllQueued
<1>7. i < Len(s[j]) \/ i = Len(s[j])
  BY <1>1 DEF IsStream, IsFrame
<1>8. QED
  BY <1>5, <1>6, <1>7

\* The device sends replies and nothing else, and no more than the queue takes.
OnlyReplies(s) ==
    Len(s) <= CommandQueueLength /\ \A n \in 1 .. Len(s) : ReplyFrame(s[n])

\* Then the scanner never takes anything for a frame with packets.
LEMMA NoFrameInReplies ==
    ASSUME NEW B, NEW s, IsStream(B, s), \A n \in 1 .. Len(s) : ReplyFrame(s[n]), NEW p,
           NEW C, NEW buf \in Seq(C), Window(s, p, buf)
    PROVE  ~FrameSeen(buf)
<1> SUFFICES ASSUME FrameSeen(buf) PROVE FALSE
  OBVIOUS
<1>1. PICK c \in {Header, HeaderV2} :
        HeaderIndex(buf, c) # 0 /\ FirstFooter(buf) > HeaderIndex(buf, c)
  BY DEF FrameSeen
<1>2. PICK n \in 1 .. Len(s) : HasPackets(s[n])
  BY <1>1, FrameFound
<1>3. s[n][Len(s[n])] = Footer /\ s[n][Len(s[n])] = Terminator
  BY <1>2, PacketFrameEnds DEF IsStream, ReplyFrame
<1>4. QED
  BY <1>3 DEF Footer, Terminator

\* And all the replies in the buffer are queued, one by one.
LEMMA SegmentReplies ==
    ASSUME NEW B, NEW s, IsStream(B, s), AllSimple(s), OnlyReplies(s), NEW k \in 0 .. Len(s),
           NEW buf \in Seq(B), Window(s, EndAt(s, k), buf)
    PROVE  AllQueued(s, k, EndAt(s, k) + Len(buf), Segment(<<>>, buf))
<1> DEFINE S == {n \in 0 .. Len(buf) :
                   AllQueued(s, k, EndAt(s, k) + n, Scanned(<<>>, buf, n))}
<1>1. Len(buf) \in Nat /\ EndAt(s, k) \in Nat /\ EndAt(s, k) + 0 = EndAt(s, k)
  BY LenProperties, EndsInOrder
<1>2. buf \in Seq(B \cup Marks) /\ Queued(B, <<>>) /\ ~FrameSeen(buf)
  <2>1. Queued(B, <<>>)
    BY EmptySeq, CommandConstants DEF Queued
  <2>2. QED
    BY <2>1, SeqWider, NoFrameInReplies DEF OnlyReplies
<1>3. 0 \in S
  <2>1. PICK u : u = Scanned(<<>>, buf, 0)
    OBVIOUS
  <2>2. u.queue = <<>> /\ u.payload = <<>> /\ u.ret = "none"
    <3>1. u = Scan(<<>>)
      BY <2>1, Segmentation
    <3>2. QED
      BY <3>1 DEF Scan
  <2>3. CollectedAt(s, EndAt(s, k), u.payload)
    <3>1. CollectedAt(s, EndAt(s, k), <<>>)
      BY CollectedBetween
    <3>2. QED
      BY <2>2, <3>1, Zenon
  <2>4. ASSUME NEW m \in k .. Len(s), Passed(s, EndAt(s, k), m) PROVE m = k
    <3>1. k \in Nat /\ Len(s) \in Nat
      BY LenProperties DEF IsStream
    <3>2. k < Len(s) => EndAt(s, k) < EndAt(s, k + 1)
      <4>1. k < Len(s) => k + 1 \in 1 .. Len(s) /\ k \in 0 .. k + 1 - 1
        BY <3>1
      <4>2. QED
        BY <4>1, EndsApart DEF AllSimple, Simple
    <3>3. Passed(s, EndAt(s, k), k)
      BY <1>1, <3>2 DEF Passed
    <3>4. ~(k < m)
      BY <1>1, <2>4, <3>3, PassedOnce
    <3>5. QED
      BY <3>1, <3>4
  <2>5. Bodies(s, k, k) = <<>>
    <3>1. 1 .. k - k = {}
      OBVIOUS
    <3>2. Bodies(s, k, k) \in Seq({}) /\ Len(Bodies(s, k, k)) = 0
      <4>1. Bodies(s, k, k) \in [1 .. 0 -> {}]
        BY <3>1 DEF Bodies
      <4>2. QED
        BY <4>1, SeqDef, LenProperties
    <3>3. QED
      BY <3>2, EmptySeq
  <2>6. AllQueued(s, k, EndAt(s, k), u)
    <3>1. ASSUME NEW m \in k .. Len(s), Passed(s, EndAt(s, k), m)
          PROVE  u.queue = Bodies(s, k, m)
      BY <2>2, <2>4, <2>5, <3>1, Zenon
    <3>2. QED
      BY <2>2, <2>3, <3>1 DEF AllQueued
  <2>7. QED
    BY <1>1, <2>1, <2>6
<1>4. ASSUME NEW n \in 0 .. Len(buf) - 1, n \in S PROVE n + 1 \in S
  <2>1. n \in 0 .. Len(buf) /\ n + 1 \in 0 .. Len(buf)
    BY <1>1
  <2>2. PICK x, y : x = EndAt(s, k) + n /\ y = x + 1
    OBVIOUS
  <2>3. y = EndAt(s, k) + (n + 1)
    BY <1>1, <2>2
  <2>4. PICK j \in k + 1 .. Len(s) : \E i \in 1 .. Len(s[j]) :
          NextByte(s, x, y, j, i) /\ buf[n + 1] = s[j][i]
    BY <1>2, <2>2, NextByteIs
  <2>5. PICK i \in 1 .. Len(s[j]) : NextByte(s, x, y, j, i) /\ buf[n + 1] = s[j][i]
    BY <2>4
  <2>6. ReplyFrame(s[j]) /\ Len(s) <= CommandQueueLength
    BY DEF OnlyReplies
  <2>7. PICK u : u = Scanned(<<>>, buf, n)
    OBVIOUS
  <2>8. ScanType(B, u) /\ AllQueued(s, k, x, u)
    BY <1>2, <1>4, <2>1, <2>2, <2>7, SegmentType
  <2>9. PICK t : t = ScanByte(u, s[j][i])
    OBVIOUS
  <2>10. AllQueued(s, k, y, t)
    BY <2>5, <2>6, <2>8, <2>9, AllQueuedByte
  <2>11. Scanned(<<>>, buf, n + 1) = t
    BY <2>5, <2>7, <2>9, Segmentation
  <2>12. QED
    BY <2>1, <2>3, <2>10, <2>11
<1>5. \A n \in 0 .. Len(buf) : n \in S
  <2> HIDE DEF S
  <2>1. QED
    BY <1>1, <1>3, <1>4, Induction
<1>6. Segment(<<>>, buf) = Scanned(<<>>, buf, Len(buf)) /\ Len(buf) \in S
  <2>1. Len(buf) \in 0 .. Len(buf)
    BY <1>1
  <2>2. QED
    BY <1>5, <2>1, Segmentation
<1>7. QED
  BY <1>6

\* After the replies from k + 1 to m, an attribute is what the last one about it said,
\* or what it was before.
SaidSince(s, k, dev, d, m) ==
    /\ DOMAIN d = Attributes
    /\ \A a \in Attributes :
         \/ d[a] = dev[a] /\ \A j \in k + 1 .. m : ~Says(s[j], a)
         \/ \E n \in k + 1 .. m :
              Says(s[n], a) /\ d[a] = Said(s[n]) /\ \A j \in n + 1 .. m : ~Says(s[j], a)

\* One more reply.
LEMMA SaidNext ==
    ASSUME NEW B, NEW s, IsStream(B, s), AllSimple(s), OnlyReplies(s), NEW k \in 0 .. Len(s),
           NEW m \in k .. Len(s) - 1, NEW dev, NEW d, SaidSince(s, k, dev, d, m),
           NEW e, e = Handle(d, Body(s[m + 1]))
    PROVE  SaidSince(s, k, dev, e, m + 1)
<1>1. k \in Nat /\ m \in Nat /\ Len(s) \in Nat /\ m + 1 \in 1 .. Len(s) /\ m + 1 \in k + 1 .. m + 1
  BY LenProperties DEF IsStream
<1>2. PICK f \in Seq(B) : f = s[m + 1] /\ Len(f) # 0 /\ f[Len(f)] = Terminator
  BY <1>1, ElementOfSeq DEF IsStream, AllSimple, Simple, OnlyReplies, ReplyFrame
<1>3. DOMAIN d = Attributes
  BY DEF SaidSince
<1>4. \A a \in Attributes : e[a] = IF Says(f, a) THEN Said(f) ELSE d[a]
  BY <1>2, <1>3, HandleReply
<1>5. DOMAIN e = Attributes
  BY <1>3 DEF Handle
<1>6. ASSUME NEW a \in Attributes
      PROVE  \/ e[a] = dev[a] /\ \A j \in k + 1 .. m + 1 : ~Says(s[j], a)
             \/ \E n \in k + 1 .. m + 1 : /\ Says(s[n], a) /\ e[a] = Said(s[n])
                                          /\ \A j \in n + 1 .. m + 1 : ~Says(s[j], a)
  <2>1. CASE Says(f, a)
    <3>1. Says(s[m + 1], a) /\ e[a] = Said(s[m + 1])
      BY <1>2, <1>4, <2>1
    <3>2. \A j \in m + 1 + 1 .. m + 1 : ~Says(s[j], a)
      BY <1>1
    <3>3. QED
      BY <1>1, <3>1, <3>2
  <2>2. CASE ~Says(f, a)
    <3>1. e[a] = d[a] /\ ~Says(s[m + 1], a)
      BY <1>2, <1>4, <2>2
    <3>2. CASE d[a] = dev[a] /\ \A j \in k + 1 .. m : ~Says(s[j], a)
      <4>1. ASSUME NEW j \in k + 1 .. m + 1 PROVE ~Says(s[j], a)
        <5>1. j \in k + 1 .. m \/ j = m + 1
          BY <1>1
        <5>2. QED
          BY <3>1, <3>2, <5>1
      <4>2. QED
        BY <3>1, <3>2, <4>1
    <3>3. CASE \E n \in k + 1 .. m : /\ Says(s[n], a) /\ d[a] = Said(s[n])
                                     /\ \A j \in n + 1 .. m : ~Says(s[j], a)
      <4>1. PICK n \in k + 1 .. m : /\ Says(s[n], a) /\ d[a] = Said(s[n])
                                    /\ \A j \in n + 1 .. m : ~Says(s[j], a)
        BY <3>3
      <4>2. ASSUME NEW j \in n + 1 .. m + 1 PROVE ~Says(s[j], a)
        <5>1. j \in n + 1 .. m \/ j = m + 1
          BY <1>1
        <5>2. QED
          BY <3>1, <4>1, <5>1
      <4>3. n \in k + 1 .. m + 1
        BY <1>1
      <4>4. QED
        BY <3>1, <4>1, <4>2, <4>3
    <3>4. QED
      BY <3>2, <3>3 DEF SaidSince
  <2>3. QED
    BY <2>1, <2>2
<1>7. QED
  BY <1>5, <1>6 DEF SaidSince

\* So with all of them.
LEMMA RepliesHandled ==
    ASSUME NEW B, NEW s, IsStream(B, s), AllSimple(s), OnlyReplies(s), NEW k \in 0 .. Len(s),
           NEW m \in k .. Len(s), NEW dev, DOMAIN dev = Attributes
    PROVE  SaidSince(s, k, dev, AllHandled(dev, Bodies(s, k, m)), m)
<1>1. k \in Nat /\ m \in Nat /\ Len(s) \in Nat
  BY LenProperties DEF IsStream
<1>2. PICK c, l : c = Bodies(s, k, m) /\ l = m - k
  OBVIOUS
<1>3. l \in Nat /\ k + l = m /\ k + 0 = k
  BY <1>1, <1>2
<1>4. c \in Seq(Seq(B)) /\ Len(c) = l
  BY <1>2, BodiesType
<1>5. /\ Drained(dev, c, 0) = dev /\ AllHandled(dev, c) = Drained(dev, c, l)
      /\ \A n \in 1 .. l : Drained(dev, c, n) = Handle(Drained(dev, c, n - 1), c[n])
  <2>1. Drain(dev, c)
    BY <1>4, Draining
  <2>2. QED
    BY <1>4, <2>1 DEF Drain
<1> DEFINE S == {n \in 0 .. l : SaidSince(s, k, dev, Drained(dev, c, n), k + n)}
<1>6. 0 \in S
  <2>1. k + 1 .. k = {}
    BY <1>1
  <2>2. SaidSince(s, k, dev, dev, k)
    BY <2>1 DEF SaidSince
  <2>3. QED
    BY <1>3, <1>5, <2>2
<1>7. ASSUME NEW n \in 0 .. l - 1, n \in S PROVE n + 1 \in S
  <2>1. PICK h \in k .. Len(s) - 1 : h = k + n /\ h + 1 = k + (n + 1)
    <3>1. k + n \in k .. Len(s) - 1 /\ k + n + 1 = k + (n + 1)
      BY <1>1, <1>3
    <3>2. QED
      BY <3>1
  <2>2. n + 1 \in 1 .. l /\ n + 1 - 1 = n
    BY <1>3
  <2>3. c[n + 1] = Body(s[h + 1])
    BY <1>2, <2>1, <2>2 DEF Bodies
  <2>4. PICK d, e : d = Drained(dev, c, n) /\ e = Drained(dev, c, n + 1)
    OBVIOUS
  <2>5. e = Handle(d, Body(s[h + 1]))
    BY <1>5, <2>2, <2>3, <2>4
  <2>6. SaidSince(s, k, dev, d, h)
    BY <1>7, <2>1, <2>4
  <2>7. SaidSince(s, k, dev, e, h + 1)
    BY <2>5, <2>6, SaidNext
  <2>8. QED
    BY <1>3, <2>1, <2>2, <2>4, <2>7
<1>8. \A n \in 0 .. l : n \in S
  <2> HIDE DEF S
  <2>1. QED
    BY <1>3, <1>6, <1>7, Induction
<1>9. l \in S
  BY <1>3, <1>8
<1>10. QED
  BY <1>2, <1>3, <1>5, <1>9

\* Each attribute is what the last of the first h replies about it said.
Reflects(s, dev, h) ==
    \A a \in Attributes : \A n \in 1 .. h :
        Says(s[n], a) /\ (\A j \in n + 1 .. h : ~Says(s[j], a)) => dev[a] = Said(s[n])

\* That some replies are handled again does not matter when all of them are.
LEMMA LastOneWins ==
    ASSUME NEW s, NEW k \in Nat, NEW h \in Nat, NEW m \in Nat, k <= h, h <= m,
           NEW dev, Reflects(s, dev, h), NEW d, SaidSince(s, k, dev, d, m)
    PROVE  Reflects(s, d, m)
<1> SUFFICES ASSUME NEW a \in Attributes, NEW n \in 1 .. m, Says(s[n], a),
                    \A j \in n + 1 .. m : ~Says(s[j], a)
             PROVE  d[a] = Said(s[n])
  BY DEF Reflects
<1>1. CASE d[a] = dev[a] /\ \A j \in k + 1 .. m : ~Says(s[j], a)
  <2>1. n \in 1 .. h
    <3>1. n \in k + 1 .. m \/ n \in 1 .. h
      OBVIOUS
    <3>2. QED
      BY <1>1, <3>1
  <2>2. ASSUME NEW j \in n + 1 .. h PROVE ~Says(s[j], a)
    <3>1. j \in n + 1 .. m
      OBVIOUS
    <3>2. QED
      BY <3>1
  <2>3. QED
    BY <1>1, <2>1, <2>2 DEF Reflects
<1>2. CASE \E i \in k + 1 .. m : /\ Says(s[i], a) /\ d[a] = Said(s[i])
                                 /\ \A j \in i + 1 .. m : ~Says(s[j], a)
  <2>1. PICK i \in k + 1 .. m : /\ Says(s[i], a) /\ d[a] = Said(s[i])
                                /\ \A j \in i + 1 .. m : ~Says(s[j], a)
    BY <1>2
  <2>2. i = n \/ i \in n + 1 .. m \/ n \in i + 1 .. m
    OBVIOUS
  <2>3. QED
    BY <2>1, <2>2
<1>3. QED
  BY <1>1, <1>2 DEF SaidSince

-----------------------------------------------------------------------------
(* What the device is taken to have said.                                  *)

\* Types of the command path.
CommandsOK == Queued(Bytes, commands) /\ device \in [Attributes -> Seq(Bytes)]

\* What handling the buffer does.
LEMMA HandledIs ==
    ASSUME HandleBuffer(data), NEW u, u = Segment(commands, data)
    PROVE  /\ u.ret # "none" => commands' = u.queue /\ device' = device
           /\ u.ret = "none" => commands' = <<>> /\ device' = AllHandled(device, u.queue)
<1>1. PICK r : r = AfterBuffer(commands, device, data)
  OBVIOUS
<1>2. r = IF u.ret # "none" THEN [commands |-> u.queue, device |-> device]
          ELSE [commands |-> <<>>, device |-> AllHandled(device, u.queue)]
  BY <1>1, AfterBufferIs
<1>3. commands' = r.commands /\ device' = r.device
  BY <1>1 DEF HandleBuffer
<1>4. QED
  BY <1>2, <1>3

\* The types stay, and an attribute that changes is the value of a command.
LEMMA HandledType ==
    ASSUME data \in Seq(Bytes), CommandsOK, HandleBuffer(data), NEW u,
           u = Segment(commands, data)
    PROVE  /\ ScanType(Bytes, u) /\ CommandsOK'
           /\ u.ret = "none" => Changed(Bytes, device, u.queue, device', Len(u.queue))
<1>1. ScanType(Bytes, u)
  <2>1. data \in Seq(Bytes \cup Marks)
    BY SeqWider
  <2>2. QED
    BY <2>1, SegmentType DEF CommandsOK
<1>2. Queued(Bytes, u.queue) /\ u.queue \in Seq(Seq(Bytes)) /\ Queued(Bytes, <<>>)
  <2>1. Queued(Bytes, u.queue) /\ u.queue \in Seq(Seq(Bytes))
    BY <1>1 DEF ScanType, Queued
  <2>2. Queued(Bytes, <<>>)
    BY EmptySeq, CommandConstants DEF Queued
  <2>3. QED
    BY <2>1, <2>2
<1>3. Changed(Bytes, device, u.queue, AllHandled(device, u.queue), Len(u.queue))
  BY <1>2, DrainChanges DEF CommandsOK
<1>4. CASE u.ret # "none"
  <2>1. commands' = u.queue /\ device' = device
    BY <1>4, HandledIs
  <2>2. QED
    BY <1>1, <1>2, <1>4, <2>1 DEF CommandsOK
<1>5. CASE u.ret = "none"
  <2>1. commands' = <<>> /\ device' = AllHandled(device, u.queue)
    BY <1>5, HandledIs
  <2>2. Changed(Bytes, device, u.queue, device', Len(u.queue))
    BY <1>3, <2>1
  <2>3. device' \in [Attributes -> Seq(Bytes)]
    BY <2>2 DEF Changed
  <2>4. Queued(Bytes, commands')
    BY <1>2, <2>1
  <2>5. CommandsOK'
    BY <2>3, <2>4 DEF CommandsOK
  <2>6. QED
    BY <1>1, <2>2, <2>5
<1>6. QED
  BY <1>4, <1>5

\* Whatever the device sends and the line does to it.
LEMMA CommandsStep ==
    ASSUME TypeOK, CommandsOK, [Next]_vars
    PROVE  CommandsOK'
<1>1. CASE ScanCommands
  <2>1. data \in Seq(Bytes) /\ HandleBuffer(data)
    BY <1>1 DEF TypeOK, ScanCommands
  <2>2. QED
    BY <2>1, HandledType
<1>2. CASE UNCHANGED commandVars
  BY <1>2 DEF CommandsOK, commandVars
<1>3. QED
  BY <1>1, <1>2
     DEF Next, Scanning, Receive, Lose, Garble, ScanBinary, ScanBase64, DecodeForEver,
         ScanNothing, vars

\* A reply is a frame that ends in a terminator.
LEMMA ReplyIs ==
    ASSUME NEW f, IsFrame(f), Simple(f)
    PROVE  IsReply(f) <=> ReplyFrame(f)
<1>1. PICK l \in Nat : l = Len(f) /\ l \in 1 .. l /\ l # 0
  BY DEF IsFrame, Simple
<1>2. PICK S : S = Positions(f, Terminator)
  OBVIOUS
<1>3. S \in SUBSET (1 .. l) /\ \A i \in 1 .. l : i \in S <=> f[i] = Terminator
  BY <1>1, <1>2 DEF Positions
<1>4. S # {} => LastOf(S) \in S /\ \A x \in S : x <= LastOf(S)
  BY <1>3, LastOfIs
<1>5. ASSUME ReplyFrame(f) PROVE IsReply(f)
  <2>1. f[l] = Terminator
    BY <1>1, <1>5 DEF ReplyFrame
  <2>2. l \in S
    BY <1>1, <1>3, <2>1
  <2>3. LastOf(S) \in 1 .. l /\ l <= LastOf(S)
    BY <1>3, <1>4, <2>2
  <2>4. LastOf(S) = l
    BY <2>3
  <2>5. QED
    BY <1>1, <1>2, <2>4 DEF IsReply
<1>6. ASSUME IsReply(f) PROVE ReplyFrame(f)
  <2>1. LastOf(S) = l
    BY <1>1, <1>2, <1>6 DEF IsReply
  <2>2. S # {}
    BY <1>1, <1>3, <2>1, LastOfIs
  <2>3. l \in 1 .. l /\ f[l] = Terminator
    BY <1>1, <1>3, <1>4, <2>1, <2>2
  <2>4. QED
    BY <1>1, <2>3, TerminatorEnds
<1>7. QED
  BY <1>5, <1>6

\* Every attribute that has a value has the one that a reply gave it.
GivenByReply(s, dev) ==
    \A a \in Attributes :
        \/ dev[a] = <<>>
        \/ \E n \in 1 .. Len(s) : ReplyFrame(s[n]) /\ Says(s[n], a) /\ dev[a] = Said(s[n])

\* As long as the line loses nothing and the buffer does not overflow, only replies
\* are queued and handled.
ReplyInv ==
    OnlyReplyText /\ lost = <<>> /\ ~overrun =>
        /\ \A i \in 1 .. Len(commands) : Replied(stream, commands[i])
        /\ GivenByReply(stream, device)

\* A command that is a reply gives what the reply says.
LEMMA ReplyGives ==
    ASSUME NEW B, NEW s, IsStream(B, s), AllSimple(s), NEW cmd, Replied(s, cmd), cmd # <<>>,
           NEW a \in Attributes, Head(cmd) = a, NEW v, v = Value(a, Tail(cmd))
    PROVE  \/ v = <<>>
           \/ \E n \in 1 .. Len(s) : ReplyFrame(s[n]) /\ Says(s[n], a) /\ v = Said(s[n])
<1>1. PICK n \in 1 .. Len(s) : ReplyFrame(s[n]) /\ cmd = Body(s[n])
  BY DEF Replied
<1>2. PICK f \in Seq(B) : f = s[n] /\ Len(f) \in Nat \ {0}
  BY ElementOfSeq, LenProperties DEF IsStream, AllSimple, Simple
<1>3. Len(f) > 1
  <2>1. Len(f) = 1 => Body(f) = <<>>
    BY <1>2, BodyIs
  <2>2. Len(f) # 1
    BY <1>1, <1>2, <2>1
  <2>3. \A l \in Nat \ {0} : l # 1 => l > 1
    OBVIOUS
  <2>4. QED
    BY <1>2, <2>2, <2>3
<1>4. Head(f) = a /\ Tail(cmd) = SubSeq(f, 2, Len(f) - 1)
  BY <1>1, <1>2, <1>3, BodyIs
<1>5. v = Said(f)
  BY <1>4 DEF Said
<1>6. v = <<>> \/ Says(f, a)
  BY <1>4, <1>5 DEF Says
<1>7. QED
  BY <1>1, <1>2, <1>5, <1>6

\* A device that sends only replies, line ends and packets sends a stream of them.
LEMMA ReplyText ==
    ASSUME TypeOK, OnlyReplyText
    PROVE  AllSimple(stream)
<1> SUFFICES ASSUME NEW n \in 1 .. Len(stream) PROVE Simple(stream[n])
  BY DEF AllSimple
<1>1. HasPackets(stream[n]) \/ ReplyFrame(stream[n]) \/ LineFrame(stream[n])
  BY DEF OnlyReplyText
<1>2. IsStream(Bytes, stream)
  BY StreamBytes DEF TypeOK
<1>3. stream[n] # <<>>
  <2>1. n \in DOMAIN stream
    BY <1>2, LenProperties DEF IsStream
  <2>2. QED
    BY <2>1, StreamConstants DEF TypeOK
<1>4. Len(stream[n]) # 0
  BY <1>2, <1>3, ElementOfSeq, EmptySeq DEF IsStream
<1>5. QED
  BY <1>1, <1>4 DEF Simple

\* So a buffer without a whole frame gives attributes what replies say.
LEMMA RepliesGive ==
    ASSUME TypeOK, CarriedInv, FrameInv, CommandsOK, ReplyInv, ScanCommands
    PROVE  ReplyInv'
<1> SUFFICES ASSUME OnlyReplyText, lost = <<>>, ~overrun
             PROVE  /\ \A i \in 1 .. Len(commands') : Replied(stream, commands'[i])
                    /\ GivenByReply(stream, device')
  BY DEF ReplyInv, OnlyReplyText, ScanCommands
<1>0. Spared /\ carried = stream /\ AllSimple(stream)
  BY NothingLost, ReplyText
<1>1. /\ IsStream(Bytes, stream) /\ data \in Seq(Bytes) /\ Queued(Bytes, commands)
      /\ HandleBuffer(data) /\ ~FrameSeen(data)
  BY StreamBytes, FoundIs DEF TypeOK, CommandsOK, ScanCommands
<1>2. /\ \A i \in 1 .. Len(commands) : Replied(stream, commands[i])
      /\ GivenByReply(stream, device)
  BY DEF ReplyInv
<1>3. PICK k \in 0 .. Len(stream) : Window(stream, EndAt(stream, k), data)
  <2>1. PICK p \in Nat : FrontAt(p)
    BY <1>0 DEF FrameInv
  <2>2. QED
    BY <1>0, <2>1 DEF FrontAt, Held, DeliveredAll
<1>4. PICK u : u = Segment(commands, data)
  OBVIOUS
<1>5. \A i \in 1 .. Len(u.queue) : Replied(stream, u.queue[i])
  <2>1. Understood(stream, EndAt(stream, k) + Len(data), u)
    BY <1>0, <1>1, <1>2, <1>3, <1>4, SegmentUnderstood
  <2>2. QED
    BY <2>1 DEF Understood
<1>6. CASE u.ret # "none"
  <2>1. commands' = u.queue /\ device' = device
    BY <1>1, <1>4, <1>6, HandledIs
  <2>2. QED
    BY <1>2, <1>5, <2>1
<1>7. CASE u.ret = "none"
  <2>1. commands' = <<>> /\ Changed(Bytes, device, u.queue, device', Len(u.queue))
    BY <1>1, <1>4, <1>7, HandledIs, HandledType
  <2>2. 1 .. Len(commands') = {}
    BY <2>1
  <2>3. ASSUME NEW a \in Attributes
        PROVE  \/ device'[a] = <<>>
               \/ \E n \in 1 .. Len(stream) :
                    /\ ReplyFrame(stream[n]) /\ Says(stream[n], a)
                    /\ device'[a] = Said(stream[n])
    <3>1. CASE device'[a] = device[a]
      BY <1>2, <3>1 DEF GivenByReply
    <3>2. CASE device'[a] # device[a]
      <4>1. PICK c, v : /\ Replied(stream, c) /\ c # <<>> /\ Head(c) = a
                        /\ v = device'[a] /\ v = Value(a, Tail(c))
        BY <1>5, <2>1, <3>2 DEF Changed
      <4>2. QED
        BY <1>0, <1>1, <4>1, ReplyGives
    <3>3. QED
      BY <3>1, <3>2
  <2>4. QED
    BY <2>2, <2>3 DEF GivenByReply
<1>8. QED
  BY <1>6, <1>7

\* A step keeps it.
LEMMA ReplyStep ==
    ASSUME TypeOK, CarriedInv, FrameInv, CommandsOK, ReplyInv, [Next]_vars
    PROVE  ReplyInv'
<1>1. CASE \E i \in 1 .. Len(line) : Lose(i) \/ \E c \in Noise : Garble(i, c)
  BY <1>1, LossIsRemembered DEF ReplyInv
<1>2. CASE ScanCommands
  BY <1>2, RepliesGive
<1>3. CASE /\ commands' = commands /\ device' = device /\ stream' = stream /\ lost' = lost
           /\ overrun => overrun'
  BY <1>3 DEF ReplyInv, OnlyReplyText
<1>4. CASE \E n \in 1 .. DataLength : Receive(n)
  <2>1. /\ commands' = commands /\ device' = device /\ stream' = stream /\ lost' = lost
        /\ overrun => overrun'
    BY <1>4 DEF Receive, commandVars
  <2>2. QED
    BY <1>3, <2>1
<1>5. CASE ScanBinary \/ ScanBase64 \/ DecodeForEver \/ ScanNothing \/ UNCHANGED vars
  <2>1. /\ commands' = commands /\ device' = device /\ stream' = stream /\ lost' = lost
        /\ overrun' = overrun
    BY <1>5 DEF ScanBinary, ScanBase64, DecodeForEver, ScanNothing, vars, commandVars
  <2>2. QED
    BY <1>3, <2>1
<1>6. QED
  BY <1>1, <1>2, <1>4, <1>5 DEF Next, Scanning

\* The number of bytes read from the line, as long as it has lost none.
ReadPlace == Len(FlattenSeq(stream)) - Len(line)

\* k replies have been popped and m have been read.  The attributes are what the first
\* h of them said, the ones in the buffer that have been handled already included.
LastAt(k, h, m) ==
    /\ EndAt(stream, k) + Len(data) = ReadPlace /\ Passed(stream, ReadPlace, m)
    /\ k <= h /\ h <= m /\ Reflects(stream, device, h)
    /\ pc = "receive" => k = m

\* When the device sends replies only and nothing is lost, each buffer is handled whole,
\* and nothing stays queued.
LastInv ==
    lost = <<>> /\ ~overrun /\ OnlyReplies(stream) =>
        commands = <<>> /\ \E k, h, m \in 0 .. Len(stream) : LastAt(k, h, m)

\* What the types say of the lengths.
LEMMA Lengths ==
    ASSUME TypeOK
    PROVE  /\ IsStream(Bytes, stream) /\ data \in Seq(Bytes) /\ Len(data) \in Nat
           /\ Len(line) \in Nat /\ Len(stream) \in Nat /\ Len(FlattenSeq(stream)) \in Nat
<1>1. QED
  BY StreamBytes, LenProperties DEF TypeOK, IsStream

\* The number of frames that have passed at a place is the greatest that fits.
LEMMA PassedIs ==
    ASSUME NEW B, NEW s, IsStream(B, s), NEW x \in Nat
    PROVE  /\ \E m \in 0 .. Len(s) : Passed(s, x, m)
           /\ \A m, n \in 0 .. Len(s) : Passed(s, x, m) /\ EndAt(s, n) <= x => n <= m
<1>1. Len(s) \in Nat /\ \A n \in 0 .. Len(s) : EndAt(s, n) \in Nat
  BY LenProperties, EndsInOrder DEF IsStream
<1>2. \E m \in 0 .. Len(s) : Passed(s, x, m)
  <2>1. PICK S : S = {n \in 0 .. Len(s) : EndAt(s, n) <= x}
    OBVIOUS
  <2>2. S \in SUBSET (0 .. Len(s)) /\ 0 \in S
    BY <1>1, <2>1, EndsInOrder
  <2>3. PICK m : m \in S /\ \A n \in S : n <= m
    BY <1>1, <2>2, MaxIs
  <2>4. ASSUME m < Len(s) PROVE x < EndAt(s, m + 1)
    <3>1. m + 1 \in 0 .. Len(s) /\ ~(m + 1 <= m)
      BY <1>1, <2>2, <2>3, <2>4
    <3>2. ~(EndAt(s, m + 1) <= x)
      BY <2>1, <2>3, <3>1
    <3>3. QED
      BY <1>1, <3>1, <3>2
  <2>5. QED
    BY <2>1, <2>3, <2>4 DEF Passed
<1>3. ASSUME NEW m \in 0 .. Len(s), NEW n \in 0 .. Len(s), Passed(s, x, m), EndAt(s, n) <= x
      PROVE  n <= m
  <2> SUFFICES ASSUME m < n PROVE FALSE
    BY <1>1
  <2>1. m < Len(s) /\ m + 1 \in 0 .. n /\ m + 1 \in 0 .. Len(s)
    BY <1>1
  <2>2. EndAt(s, m + 1) <= EndAt(s, n)
    BY <2>1, EndsInOrder
  <2>3. x < EndAt(s, m + 1)
    BY <1>3, <2>1 DEF Passed
  <2>4. QED
    BY <1>1, <1>3, <2>1, <2>2, <2>3
<1>4. QED
  BY <1>2, <1>3

\* A read without an overrun only makes more replies read.
LEMMA LastReceive ==
    ASSUME TypeOK, NEW k \in 0 .. Len(stream), NEW h \in 0 .. Len(stream),
           NEW m \in 0 .. Len(stream), LastAt(k, h, m), NEW n \in 1 .. DataLength,
           Receive(n), ~overrun'
    PROVE  \E i \in 0 .. Len(stream) : LastAt(k, h, i)'
<1>1. /\ IsStream(Bytes, stream) /\ Len(data) \in Nat /\ Len(line) \in Nat
      /\ Len(FlattenSeq(stream)) \in Nat /\ data \in Seq(Bytes)
  BY Lengths
<1>2. /\ n \in 1 .. Len(line) /\ Len(line') = Len(line) - n
      /\ SubSeq(line, 1, n) \in Seq(Bytes) /\ Len(SubSeq(line, 1, n)) = n
  BY ReceiveIs
<1>3. Len(data') = Len(data) + n
  <2>1. PICK new \in Seq(Bytes) : new = SubSeq(line, 1, n) /\ Len(new) = n
    BY <1>2
  <2>2. Len(data \o new) = Len(data) + n
    BY <1>1, <2>1, ConcatProperties
  <2>3. Len(data \o new) <= DataLength
    <3>1. ~(Len(data) + n > DataLength)
      BY DEF Receive
    <3>2. QED
      BY <1>1, <2>2, <3>1, FramingConstants
  <2>4. LastBytes(data', data \o new)
    BY <1>1, <2>1, PushBytesIs DEF Receive
  <2>5. QED
    BY <1>1, <2>2, <2>3, <2>4 DEF LastBytes
<1>4. stream' = stream /\ device' = device /\ pc' = "scan"
  BY DEF Receive, commandVars
<1>5. PICK x \in Nat, y \in Nat : x = ReadPlace /\ y = ReadPlace' /\ x <= y /\ y = x + n
  <2>1. PICK t \in Nat, l \in Nat : t = Len(FlattenSeq(stream)) /\ l = Len(line) /\ l <= t
    <3>1. EndAt(stream, k) + Len(data) = Len(FlattenSeq(stream)) - Len(line)
      BY DEF LastAt, ReadPlace
    <3>2. EndAt(stream, k) \in Nat
      BY <1>1, EndsInOrder
    <3>3. QED
      BY <1>1, <3>1, <3>2
  <2>2. ReadPlace = t - l /\ ReadPlace' = t - (l - n) /\ n \in 1 .. l
    BY <1>2, <1>4, <2>1 DEF ReadPlace
  <2>3. t - l \in Nat /\ t - (l - n) \in Nat /\ t - l <= t - (l - n)
        /\ t - (l - n) = (t - l) + n
    BY <2>1, <2>2
  <2>4. QED
    BY <2>2, <2>3
<1>6. PICK i \in 0 .. Len(stream) : Passed(stream, y, i)
  BY <1>1, <1>5, PassedIs
<1>7. m <= i
  <2>1. EndAt(stream, m) <= x /\ EndAt(stream, m) \in Nat
    BY <1>1, <1>5, EndsInOrder DEF LastAt, Passed
  <2>2. EndAt(stream, m) <= y
    BY <1>5, <2>1
  <2>3. QED
    BY <1>1, <1>5, <1>6, <2>2, PassedIs
<1>8. h <= i
  <2>1. h <= m /\ Len(stream) \in Nat
    BY Lengths DEF LastAt
  <2>2. QED
    BY <1>7, <2>1
<1>9. EndAt(stream, k) + Len(data') = y
  <2>1. EndAt(stream, k) + Len(data) = x /\ EndAt(stream, k) \in Nat
    BY <1>1, <1>5, EndsInOrder DEF LastAt
  <2>2. QED
    BY <1>1, <1>3, <1>5, <2>1, SMTT(30)
<1>10. LastAt(k, h, i)'
  BY <1>4, <1>5, <1>6, <1>8, <1>9 DEF LastAt
<1>11. QED
  BY <1>10

\* All the replies in the buffer are handled, and the first one is popped.
LEMMA LastCommands ==
    ASSUME TypeOK, CommandsOK, OnlyReplies(stream), commands = <<>>,
           NEW k \in 0 .. Len(stream), NEW h \in 0 .. Len(stream), NEW m \in 0 .. Len(stream),
           LastAt(k, h, m), Window(stream, EndAt(stream, k), data), ScanCommands
    PROVE  commands' = <<>> /\ \E i \in 0 .. Len(stream) : LastAt(i, m, m)'
<1>0. AllSimple(stream)
  BY ReplyText DEF OnlyReplies, OnlyReplyText
<1>1. /\ IsStream(Bytes, stream) /\ Len(data) \in Nat /\ Len(line) \in Nat
      /\ Len(stream) \in Nat /\ Len(FlattenSeq(stream)) \in Nat /\ data \in Seq(Bytes)
  BY Lengths
<1>2. /\ stream' = stream /\ line' = line /\ pc' = "scan" /\ HandleBuffer(data)
      /\ Found.semicolon # 0 /\ Pop(Found.semicolon)
  BY DEF ScanCommands
<1>3. k <= h /\ h <= m /\ m \in k .. Len(stream) /\ Reflects(stream, device, h)
  <2>1. k <= h /\ h <= m /\ Reflects(stream, device, h)
    BY DEF LastAt
  <2>2. QED
    BY <1>1, <2>1
<1>4. PICK u : u = Segment(<<>>, data)
  OBVIOUS
<1>5. u.ret = "none" /\ u.queue = Bodies(stream, k, m)
  <2>1. AllQueued(stream, k, EndAt(stream, k) + Len(data), u)
    BY <1>0, <1>1, <1>4, SegmentReplies
  <2>2. AllQueued(stream, k, ReadPlace, u) /\ Passed(stream, ReadPlace, m)
    BY <2>1 DEF LastAt
  <2>3. QED
    BY <1>3, <2>2 DEF AllQueued
<1>6. commands' = <<>> /\ device' = AllHandled(device, Bodies(stream, k, m))
  <2>1. u = Segment(commands, data)
    BY <1>4
  <2>2. QED
    BY <1>2, <1>5, <2>1, HandledIs
<1>7. Reflects(stream, device', m)
  <2>1. DOMAIN device = Attributes
    BY DEF CommandsOK
  <2>2. SaidSince(stream, k, device, device', m)
    BY <1>0, <1>1, <1>3, <1>6, <2>1, RepliesHandled
  <2>3. k \in Nat /\ h \in Nat /\ m \in Nat
    BY <1>1
  <2>4. QED
    BY <1>3, <2>2, <2>3, LastOneWins
<1>8. PICK e \in 1 .. Len(data) : e = Found.semicolon /\ data[e] = Terminator
  BY <1>1, <1>2, FoundIs
<1>9. PICK i \in 1 .. Len(stream) : EndAt(stream, k) + e = EndAt(stream, i)
  BY <1>1, <1>8, EndOfFrame
<1>10. Len(data') = Len(data) - e
  BY <1>1, <1>2, <1>8, PopIs
<1>11. i \in 0 .. Len(stream) /\ EndAt(stream, k) \in Nat /\ ReadPlace' = ReadPlace
  <2>1. i \in 0 .. Len(stream)
    BY <1>1
  <2>2. EndAt(stream, k) \in Nat
    BY <1>1, EndsInOrder
  <2>3. QED
    BY <1>2, <2>1, <2>2 DEF ReadPlace
<1>12. EndAt(stream, k) + Len(data) = ReadPlace /\ Passed(stream, ReadPlace, m)
  BY DEF LastAt
<1>13. EndAt(stream, i) + Len(data') = ReadPlace /\ EndAt(stream, i) <= ReadPlace
       /\ ReadPlace \in Nat
  <2>1. PICK a \in Nat, d \in Nat : a = EndAt(stream, k) /\ d = Len(data) /\ e \in 1 .. d
    BY <1>1, <1>11
  <2>2. a + e + (d - e) = a + d /\ a + e <= a + d /\ a + d \in Nat
    BY <2>1
  <2>3. QED
    BY <1>9, <1>10, <1>12, <2>1, <2>2
<1>14. i <= m
  BY <1>1, <1>11, <1>12, <1>13, PassedIs
<1>15. m <= m
  BY <1>1
<1>16. LastAt(i, m, m)'
  BY <1>2, <1>7, <1>11, <1>12, <1>13, <1>14, <1>15 DEF LastAt
<1>17. QED
  BY <1>6, <1>11, <1>16

\* When there is no terminator left, no whole reply is.
LEMMA LastNothing ==
    ASSUME TypeOK, OnlyReplies(stream), NEW k \in 0 .. Len(stream),
           NEW h \in 0 .. Len(stream), NEW m \in 0 .. Len(stream), LastAt(k, h, m),
           Window(stream, EndAt(stream, k), data), ScanNothing
    PROVE  LastAt(k, h, m)'
<1>1. /\ IsStream(Bytes, stream) /\ Len(data) \in Nat /\ Len(line) \in Nat
      /\ Len(stream) \in Nat /\ Len(FlattenSeq(stream)) \in Nat /\ data \in Seq(Bytes)
  BY Lengths
<1>2. /\ data' = data /\ line' = line /\ stream' = stream /\ device' = device
      /\ data = <<>> \/ Found.semicolon = 0
  BY DEF ScanNothing, commandVars
<1>3. k <= h /\ h <= m /\ EndAt(stream, k) + Len(data) = ReadPlace
      /\ Passed(stream, ReadPlace, m)
  BY DEF LastAt
<1>4. ASSUME k < m PROVE FALSE
  <2>1. PICK j \in 1 .. Len(stream) : j = k + 1 /\ j - 1 = k /\ j \in 0 .. m
    <3>1. k + 1 \in 1 .. Len(stream) /\ k + 1 - 1 = k /\ k + 1 \in 0 .. m
      BY <1>1, <1>4
    <3>2. QED
      BY <3>1
  <2>2. /\ EndAt(stream, k) \in Nat /\ EndAt(stream, j) \in Nat /\ EndAt(stream, m) \in Nat
        /\ EndAt(stream, j) <= EndAt(stream, m)
    <3>1. j \in 0 .. Len(stream)
      BY <1>1
    <3>2. QED
      BY <1>1, <2>1, <3>1, EndsInOrder
  <2>3. PICK l \in Nat : l = Len(stream[j]) /\ EndAt(stream, j) = EndAt(stream, k) + l /\ l # 0
    <3>1. EndAt(stream, j) = EndAt(stream, j - 1) + Len(stream[j])
      BY <1>1, ByteOfFrame
    <3>2. Len(stream[j]) \in Nat /\ Len(stream[j]) # 0
      BY <1>1, ReplyText DEF OnlyReplies, OnlyReplyText, AllSimple, Simple, IsStream, IsFrame
    <3>3. QED
      BY <2>1, <3>1, <3>2
  <2>4. l \in 1 .. Len(data)
    <3>1. EndAt(stream, m) <= EndAt(stream, k) + Len(data)
      BY <1>3 DEF Passed
    <3>2. QED
      BY <1>1, <2>2, <2>3, <3>1
  <2>5. data[l] = Terminator
    <3>1. data[l] = FlattenSeq(stream)[EndAt(stream, k) + l]
      BY <2>4 DEF Window
    <3>2. l \in 1 .. Len(stream[j])
      BY <2>3
    <3>3. FlattenSeq(stream)[EndAt(stream, j - 1) + l] = stream[j][l]
      BY <1>1, <3>2, ByteOfFrame
    <3>4. stream[j][l] = Terminator
      BY <2>3 DEF OnlyReplies, ReplyFrame
    <3>5. QED
      BY <2>1, <3>1, <3>3, <3>4
  <2>6. data # <<>>
    BY <2>4
  <2>7. Found.semicolon # 0
    <3>1. PICK S : S = Positions(data, Terminator)
      OBVIOUS
    <3>2. S \in SUBSET (Nat \ {0}) /\ S # {}
      BY <2>4, <2>5, <3>1 DEF Positions
    <3>3. FirstOf(S) # 0
      BY <3>2, FirstOfIs
    <3>4. QED
      BY <3>1, <3>3 DEF Found, ScanDelimiters
  <2>8. QED
    BY <1>2, <2>6, <2>7
<1>5. k = m
  BY <1>1, <1>3, <1>4
<1>6. ReadPlace' = ReadPlace
  BY <1>2 DEF ReadPlace
<1>7. QED
  BY <1>2, <1>5, <1>6 DEF LastAt

\* A step keeps it.
LEMMA LastStep ==
    ASSUME TypeOK, CarriedInv, FrameInv, CommandsOK, LastInv, [Next]_vars
    PROVE  LastInv'
<1>1. CASE \E i \in 1 .. Len(line) : Lose(i) \/ \E c \in Noise : Garble(i, c)
  BY <1>1, LossIsRemembered DEF LastInv
<1>2. CASE ~\E i \in 1 .. Len(line) : Lose(i) \/ \E c \in Noise : Garble(i, c)
  <2> SUFFICES ASSUME lost' = <<>>, ~overrun', OnlyReplies(stream')
               PROVE  commands' = <<>> /\ \E k, h, m \in 0 .. Len(stream') : LastAt(k, h, m)'
    BY DEF LastInv
  <2>1. stream' = stream /\ lost' = lost /\ ~overrun
    <3>1. CASE \E n \in 1 .. DataLength : Receive(n)
      BY <3>1 DEF Receive
    <3>2. CASE \/ ScanBinary \/ ScanBase64 \/ DecodeForEver \/ ScanCommands \/ ScanNothing
               \/ UNCHANGED vars
      BY <3>2 DEF ScanBinary, ScanBase64, DecodeForEver, ScanCommands, ScanNothing, vars
    <3>3. QED
      BY <1>2, <3>1, <3>2 DEF Next, Scanning
  <2>2. OnlyReplies(stream)
    BY <2>1
  <2>3. commands = <<>> /\ \E k, h, m \in 0 .. Len(stream) : LastAt(k, h, m)
    BY <2>1, <2>2 DEF LastInv
  <2>4. PICK k \in 0 .. Len(stream), h \in 0 .. Len(stream), m \in 0 .. Len(stream) :
          LastAt(k, h, m)
    BY <2>3
  <2>5. Window(stream, EndAt(stream, k), data)
    <3>1. PICK p \in Nat : Window(stream, p, data) /\ p + Len(data) + Len(line)
                                                        = Len(FlattenSeq(stream))
      <4>1. Spared /\ carried = stream
        BY <2>1, NothingLost
      <4>2. QED
        BY <4>1 DEF FrameInv, FrontAt, Held
    <3>2. EndAt(stream, k) + Len(data) = Len(FlattenSeq(stream)) - Len(line)
      BY <2>4 DEF LastAt, ReadPlace
    <3>3. EndAt(stream, k) \in Nat
      BY Lengths, EndsInOrder
    <3>4. EndAt(stream, k) = p
      BY <3>1, <3>2, <3>3, Lengths
    <3>5. QED
      BY <3>1, <3>4
  <2>6. ~FrameSeen(data)
    BY <2>2, <2>5, Lengths, NoFrameInReplies DEF OnlyReplies
  <2>7. CASE \E n \in 1 .. DataLength : Receive(n)
    <3>1. commands' = commands
      BY <2>7 DEF Receive, commandVars
    <3>2. \E i \in 0 .. Len(stream) : LastAt(k, h, i)'
      BY <2>4, <2>7, LastReceive
    <3>3. QED
      BY <2>1, <2>3, <3>1, <3>2
  <2>8. CASE ScanBinary \/ ScanBase64 \/ DecodeForEver
    BY <2>6, <2>8, Lengths, FoundIs DEF ScanBinary, ScanBase64, DecodeForEver
  <2>9. CASE ScanCommands
    <3>1. commands' = <<>> /\ \E i \in 0 .. Len(stream) : LastAt(i, m, m)'
      BY <2>2, <2>3, <2>4, <2>5, <2>9, LastCommands
    <3>2. QED
      BY <2>1, <3>1
  <2>10. CASE ScanNothing
    <3>1. commands' = commands
      BY <2>10 DEF ScanNothing, commandVars
    <3>2. LastAt(k, h, m)'
      BY <2>2, <2>4, <2>5, <2>10, LastNothing
    <3>3. QED
      BY <2>1, <2>3, <3>1, <3>2
  <2>11. CASE UNCHANGED vars
    <3>1. /\ data' = data /\ line' = line /\ stream' = stream /\ device' = device
          /\ pc' = pc /\ commands' = commands
      BY <2>11 DEF vars, commandVars
    <3>2. LastAt(k, h, m)'
      BY <2>4, <3>1 DEF LastAt, ReadPlace
    <3>3. QED
      BY <2>1, <2>3, <3>1, <3>2
  <2>12. QED
    BY <1>2, <2>7, <2>8, <2>9, <2>10, <2>11 DEF Next, Scanning
<1>3. QED
  BY <1>1, <1>2

-----------------------------------------------------------------------------
(* Replies are understood.                                                 *)

\* Nothing has been said at the start.
LEMMA RepliesInit == Init => CommandsOK /\ ReplyInv /\ LastInv
<1> SUFFICES ASSUME Init PROVE CommandsOK /\ ReplyInv /\ LastInv
  OBVIOUS
<1>1. /\ data = <<>> /\ pc = "receive" /\ stream \in Streams /\ line = FlattenSeq(stream)
      /\ commands = <<>> /\ device = [a \in Attributes |-> <<>>]
  BY DEF Init, CommandInit
<1>2. /\ IsStream(Bytes, stream) /\ Len(FlattenSeq(stream)) \in Nat /\ Len(stream) \in Nat
      /\ Len(data) = 0 /\ Len(commands) = 0
  <2>1. IsStream(Bytes, stream) /\ Len(FlattenSeq(stream)) \in Nat /\ Len(stream) \in Nat
    BY <1>1, StreamBytes, LenProperties DEF IsStream
  <2>2. Len(data) = 0 /\ Len(commands) = 0
    BY <1>1
  <2>3. QED
    BY <2>1, <2>2
<1>3. CommandsOK
  <2>1. commands \in Seq(Seq(Bytes)) /\ device \in [Attributes -> Seq(Bytes)]
    BY <1>1, EmptySeq
  <2>2. Len(commands) <= CommandQueueLength
    BY <1>2, CommandConstants
  <2>3. QED
    BY <1>2, <2>1, <2>2 DEF CommandsOK, Queued
<1>4. ReplyInv
  BY <1>1, <1>2 DEF ReplyInv, GivenByReply
<1>5. LastAt(0, 0, 0)
  <2>1. ReadPlace = 0
    BY <1>1, <1>2 DEF ReadPlace
  <2>2. EndAt(stream, 0) = 0
    BY <1>2, EndsInOrder
  <2>3. 0 < Len(stream) => EndAt(stream, 0) < EndAt(stream, 0 + 1)
    <3> SUFFICES ASSUME 0 < Len(stream) PROVE EndAt(stream, 0) < EndAt(stream, 1)
      OBVIOUS
    <3>1. 1 \in 1 .. Len(stream) /\ 0 \in 0 .. 1 - 1
      BY <1>2
    <3>2. Len(stream[1]) # 0
      <4>1. 1 \in DOMAIN stream
        BY <1>2, <3>1, LenProperties DEF IsStream
      <4>2. stream[1] # <<>>
        BY <1>1, <4>1, StreamConstants
      <4>3. QED
        BY <1>2, <3>1, <4>2, ElementOfSeq, EmptySeq DEF IsStream
    <3>3. QED
      BY <1>2, <3>1, <3>2, EndsApart
  <2>4. Passed(stream, 0, 0)
    BY <1>2, <2>2, <2>3 DEF Passed
  <2>5. Reflects(stream, device, 0)
    BY DEF Reflects
  <2>6. EndAt(stream, 0) + Len(data) = ReadPlace
    BY <1>2, <2>1, <2>2
  <2>7. QED
    BY <2>1, <2>4, <2>5, <2>6 DEF LastAt
<1>6. LastInv
  <2>1. 0 \in 0 .. Len(stream)
    BY <1>2
  <2>2. QED
    BY <1>1, <1>5, <2>1 DEF LastInv
<1>7. QED
  BY <1>3, <1>4, <1>6

\* The invariant behind what becomes of replies.
LEMMA RepliesCorrect == Spec => [](TypeOK /\ CommandsOK /\ ReplyInv /\ LastInv)
<1>1. QED
  BY FrameCorrect, RepliesInit, CommandsStep, ReplyStep, LastStep, PTL DEF Spec

\* The frames read are those that have passed at the place read.
LEMMA FramesReadIs ==
    ASSUME TypeOK, ReadPlace \in Nat, NEW m, Passed(stream, ReadPlace, m)
    PROVE  FramesRead = m
<1>1. PICK S : S = {n \in 0 .. Len(stream) : EndAt(stream, n) <= ReadPlace}
  OBVIOUS
<1>2. FramesRead = Max(S)
  <2>1. \A n : Len(FlattenSeq(SubSeq(stream, 1, n))) = EndAt(stream, n)
    BY DEF EndAt, FirstFrames
  <2>2. S = {n \in 0 .. Len(stream) :
               Len(FlattenSeq(SubSeq(stream, 1, n))) <= Len(FlattenSeq(stream)) - Len(line)}
    BY <1>1, <2>1 DEF ReadPlace
  <2>3. QED
    BY <2>2 DEF FramesRead
<1>3. m \in S /\ S \in SUBSET (0 .. Len(stream)) /\ m \in 0 .. Len(stream)
  BY <1>1 DEF Passed
<1>4. Len(stream) \in Nat
  BY Lengths
<1>5. Max(S) \in S /\ \A x \in S : x <= Max(S)
  BY <1>3, <1>4, MaxIs
<1>6. Max(S) <= m
  BY <1>1, <1>3, <1>5, Lengths, PassedIs
<1>7. PICK x \in 0 .. Len(stream) : x = Max(S)
  BY <1>3, <1>5
<1>8. m <= x /\ x <= m
  BY <1>3, <1>5, <1>6, <1>7
<1>9. m = x
  BY <1>3, <1>4, <1>8
<1>10. QED
  BY <1>2, <1>7, <1>9

\* Replies are understood however they are cut: what fs_handle_received_commands stores
\* is what one whole reply said, though the buffer holds parts of others and frames
\* between them, and of several replies about an attribute the last one counts, though
\* earlier ones are handled again.
THEOREM RepliesAreUnderstood == Spec => []RepliesUnderstood
<1>0. ASSUME TypeOK, OnlyReplyText, NEW n \in 1 .. Len(stream)
      PROVE  IsReply(stream[n]) <=> ReplyFrame(stream[n])
  BY <1>0, Lengths, ReplyText, ReplyIs DEF IsStream, AllSimple
<1>1. ASSUME TypeOK, OnlyReplyText, ReplyInv PROVE AttributeFromReply
  <2> SUFFICES ASSUME lost = <<>>, ~overrun, NEW a \in Attributes, device[a] # <<>>
               PROVE  \E n \in 1 .. Len(stream) :
                        IsReply(stream[n]) /\ Says(stream[n], a) /\ device[a] = Said(stream[n])
    BY DEF AttributeFromReply
  <2>1. PICK n \in 1 .. Len(stream) :
          ReplyFrame(stream[n]) /\ Says(stream[n], a) /\ device[a] = Said(stream[n])
    BY <1>1 DEF ReplyInv, GivenByReply
  <2>2. IsReply(stream[n])
    BY <1>0, <1>1, <2>1
  <2>3. QED
    BY <2>1, <2>2
<1>2. ASSUME TypeOK, OnlyReplyText, LastInv PROVE LastReplyWins
  <2> DEFINE about(a) == {n \in 1 .. FramesRead : Says(stream[n], a)}
  <2> SUFFICES ASSUME pc = "receive", lost = <<>>, ~overrun, Len(stream) <= CommandQueueLength,
                      \A n \in 1 .. Len(stream) : IsReply(stream[n]),
                      NEW a \in Attributes, about(a) # {}
               PROVE  device[a] = Said(stream[Max(about(a))])
    BY DEF LastReplyWins
  <2>1. OnlyReplies(stream)
    BY <1>0, <1>2 DEF OnlyReplies
  <2>2. PICK k, h, m \in 0 .. Len(stream) : LastAt(k, h, m)
    BY <1>2, <2>1 DEF LastInv
  <2>3. /\ EndAt(stream, k) + Len(data) = ReadPlace /\ Passed(stream, ReadPlace, m)
        /\ k <= h /\ h <= m /\ Reflects(stream, device, h) /\ k = m
    BY <2>2 DEF LastAt
  <2>4. h = m /\ m \in Nat
    BY <1>2, <2>3, Lengths
  <2>5. ReadPlace \in Nat
    BY <1>2, <2>3, Lengths, EndsInOrder
  <2>6. FramesRead = m
    BY <1>2, <2>3, <2>5, FramesReadIs
  <2>7. PICK S : S = about(a)
    OBVIOUS
  <2>8. /\ S # {} /\ S \in SUBSET (0 .. m)
        /\ \A n : n \in S <=> n \in 1 .. m /\ Says(stream[n], a)
    BY <2>4, <2>6, <2>7
  <2>9. Max(S) \in S /\ \A x \in S : x <= Max(S)
    BY <2>4, <2>8, MaxIs
  <2>10. PICK n : n = Max(S)
    OBVIOUS
  <2>11. n \in 1 .. m /\ Says(stream[n], a)
    BY <2>8, <2>9, <2>10
  <2>12. ASSUME NEW j \in n + 1 .. m, Says(stream[j], a) PROVE FALSE
    <3>1. j \in 1 .. m /\ ~(j <= n)
      BY <2>4, <2>11
    <3>2. QED
      BY <2>8, <2>9, <2>10, <2>12, <3>1
  <2>13. device[a] = Said(stream[n])
    BY <2>3, <2>4, <2>11, <2>12 DEF Reflects
  <2>14. QED
    BY <2>7, <2>10, <2>13
<1>3. ASSUME TypeOK, ReplyInv, LastInv PROVE RepliesUnderstood
  BY <1>1, <1>2, <1>3 DEF RepliesUnderstood
<1>4. QED
  BY <1>3, RepliesCorrect, PTL
=============================================================================
