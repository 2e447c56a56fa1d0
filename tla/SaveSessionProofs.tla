------------------------- MODULE SaveSessionProofs --------------------------
(***************************************************************************)
(* Proofs about saving, for every set of devices and savers, every length  *)
(* of the ring and any number of packets and sessions: which FILEs can     *)
(* still be closed, and what is written to them.                           *)
(***************************************************************************)
EXTENDS SaveSession, FiniteSetTheorems, SequenceTheorems, TLAPS

-----------------------------------------------------------------------------
(* The calls of the program: what is left of each after each of its steps. *)

CallSteps ==
    {<<>>,
     <<"stop", "close", "forget", "zeroHead", "zeroTail", "zeroCount", "idle">>,
     <<"close", "forget", "zeroHead", "zeroTail", "zeroCount", "idle">>,
     <<"forget", "zeroHead", "zeroTail", "zeroCount", "idle">>,
     <<"zeroHead", "zeroTail", "zeroCount", "idle">>,
     <<"zeroTail", "zeroCount", "idle">>,
     <<"zeroCount", "idle">>,
     <<"idle">>,
     <<"stop", "unhook", "close", "forget">>,
     <<"unhook", "close", "forget">>,
     <<"close", "forget">>,
     <<"forget">>,
     <<"hook", "zeroHead", "zeroTail", "zeroCount", "run", "start">>,
     <<"zeroHead", "zeroTail", "zeroCount", "run", "start">>,
     <<"zeroTail", "zeroCount", "run", "start">>,
     <<"zeroCount", "run", "start">>,
     <<"run", "start">>,
     <<"start">>}

\* A call is one of these lists; this is the next step of each and what it leaves.
LEMMA StepsLeft ==
    ASSUME NEW s \in CallSteps, s # <<>>
    PROVE  \/ /\ s = <<"stop", "close", "forget", "zeroHead", "zeroTail", "zeroCount", "idle">>
              /\ Head(s) = "stop"
              /\ Tail(s) = <<"close", "forget", "zeroHead", "zeroTail", "zeroCount", "idle">>
           \/ /\ s = <<"close", "forget", "zeroHead", "zeroTail", "zeroCount", "idle">>
              /\ Head(s) = "close"
              /\ Tail(s) = <<"forget", "zeroHead", "zeroTail", "zeroCount", "idle">>
           \/ /\ s = <<"forget", "zeroHead", "zeroTail", "zeroCount", "idle">>
              /\ Head(s) = "forget"
              /\ Tail(s) = <<"zeroHead", "zeroTail", "zeroCount", "idle">>
           \/ /\ s = <<"zeroHead", "zeroTail", "zeroCount", "idle">>
              /\ Head(s) = "zeroHead"
              /\ Tail(s) = <<"zeroTail", "zeroCount", "idle">>
           \/ /\ s = <<"zeroTail", "zeroCount", "idle">>
              /\ Head(s) = "zeroTail"
              /\ Tail(s) = <<"zeroCount", "idle">>
           \/ /\ s = <<"zeroCount", "idle">>
              /\ Head(s) = "zeroCount"
              /\ Tail(s) = <<"idle">>
           \/ /\ s = <<"idle">>
              /\ Head(s) = "idle"
              /\ Tail(s) = <<>>
           \/ /\ s = <<"stop", "unhook", "close", "forget">>
              /\ Head(s) = "stop"
              /\ Tail(s) = <<"unhook", "close", "forget">>
           \/ /\ s = <<"unhook", "close", "forget">>
              /\ Head(s) = "unhook"
              /\ Tail(s) = <<"close", "forget">>
           \/ /\ s = <<"close", "forget">>
              /\ Head(s) = "close"
              /\ Tail(s) = <<"forget">>
           \/ /\ s = <<"forget">>
              /\ Head(s) = "forget"
              /\ Tail(s) = <<>>
           \/ /\ s = <<"hook", "zeroHead", "zeroTail", "zeroCount", "run", "start">>
              /\ Head(s) = "hook"
              /\ Tail(s) = <<"zeroHead", "zeroTail", "zeroCount", "run", "start">>
           \/ /\ s = <<"zeroHead", "zeroTail", "zeroCount", "run", "start">>
              /\ Head(s) = "zeroHead"
              /\ Tail(s) = <<"zeroTail", "zeroCount", "run", "start">>
           \/ /\ s = <<"zeroTail", "zeroCount", "run", "start">>
              /\ Head(s) = "zeroTail"
              /\ Tail(s) = <<"zeroCount", "run", "start">>
           \/ /\ s = <<"zeroCount", "run", "start">>
              /\ Head(s) = "zeroCount"
              /\ Tail(s) = <<"run", "start">>
           \/ /\ s = <<"run", "start">>
              /\ Head(s) = "run"
              /\ Tail(s) = <<"start">>
           \/ /\ s = <<"start">>
              /\ Head(s) = "start"
              /\ Tail(s) = <<>>
<1>1. CASE s = <<"stop", "close", "forget", "zeroHead", "zeroTail", "zeroCount", "idle">>
  BY <1>1
<1>2. CASE s = <<"close", "forget", "zeroHead", "zeroTail", "zeroCount", "idle">>
  BY <1>2
<1>3. CASE s = <<"forget", "zeroHead", "zeroTail", "zeroCount", "idle">>
  BY <1>3
<1>4. CASE s = <<"zeroHead", "zeroTail", "zeroCount", "idle">>
  BY <1>4
<1>5. CASE s = <<"zeroTail", "zeroCount", "idle">>
  BY <1>5
<1>6. CASE s = <<"zeroCount", "idle">>
  BY <1>6
<1>7. CASE s = <<"idle">>
  BY <1>7
<1>8. CASE s = <<"stop", "unhook", "close", "forget">>
  BY <1>8
<1>9. CASE s = <<"unhook", "close", "forget">>
  BY <1>9
<1>10. CASE s = <<"close", "forget">>
  BY <1>10
<1>11. CASE s = <<"forget">>
  BY <1>11
<1>12. CASE s = <<"hook", "zeroHead", "zeroTail", "zeroCount", "run", "start">>
  BY <1>12
<1>13. CASE s = <<"zeroHead", "zeroTail", "zeroCount", "run", "start">>
  BY <1>13
<1>14. CASE s = <<"zeroTail", "zeroCount", "run", "start">>
  BY <1>14
<1>15. CASE s = <<"zeroCount", "run", "start">>
  BY <1>15
<1>16. CASE s = <<"run", "start">>
  BY <1>16
<1>17. CASE s = <<"start">>
  BY <1>17
<1>30. QED
  BY <1>1, <1>2, <1>3, <1>4, <1>5, <1>6, <1>7, <1>8, <1>9, <1>10, <1>11, <1>12, <1>13, <1>14,
     <1>15, <1>16, <1>17 DEF CallSteps

\* A call has at most seven steps left.
LEMMA StepsAreSteps ==
    ASSUME NEW s \in CallSteps
    PROVE  s \in Seq(Steps) /\ Len(s) <= 7
<1>1. CASE s = <<"stop", "close", "forget", "zeroHead", "zeroTail", "zeroCount", "idle">>
  BY <1>1 DEF Steps
<1>2. CASE s = <<"close", "forget", "zeroHead", "zeroTail", "zeroCount", "idle">>
  BY <1>2 DEF Steps
<1>3. CASE s = <<"forget", "zeroHead", "zeroTail", "zeroCount", "idle">>
  BY <1>3 DEF Steps
<1>4. CASE s = <<"zeroHead", "zeroTail", "zeroCount", "idle">>
  BY <1>4 DEF Steps
<1>5. CASE s = <<"zeroTail", "zeroCount", "idle">>
  BY <1>5 DEF Steps
<1>6. CASE s = <<"zeroCount", "idle">>
  BY <1>6 DEF Steps
<1>7. CASE s = <<"idle">>
  BY <1>7 DEF Steps
<1>8. CASE s = <<"stop", "unhook", "close", "forget">>
  BY <1>8 DEF Steps
<1>9. CASE s = <<"unhook", "close", "forget">>
  BY <1>9 DEF Steps
<1>10. CASE s = <<"close", "forget">>
  BY <1>10 DEF Steps
<1>11. CASE s = <<"forget">>
  BY <1>11 DEF Steps
<1>12. CASE s = <<"hook", "zeroHead", "zeroTail", "zeroCount", "run", "start">>
  BY <1>12 DEF Steps
<1>13. CASE s = <<"zeroHead", "zeroTail", "zeroCount", "run", "start">>
  BY <1>13 DEF Steps
<1>14. CASE s = <<"zeroTail", "zeroCount", "run", "start">>
  BY <1>14 DEF Steps
<1>15. CASE s = <<"zeroCount", "run", "start">>
  BY <1>15 DEF Steps
<1>16. CASE s = <<"run", "start">>
  BY <1>16 DEF Steps
<1>17. CASE s = <<"start">>
  BY <1>17 DEF Steps
<1>18. CASE s = <<>>
  BY <1>18 DEF Steps
<1>30. QED
  BY <1>1, <1>2, <1>3, <1>4, <1>5, <1>6, <1>7, <1>8, <1>9, <1>10, <1>11, <1>12, <1>13, <1>14,
     <1>15, <1>16, <1>17, <1>18 DEF CallSteps

\* A step leaves a call of the list.
LEMMA TailIsCall ==
    ASSUME NEW s \in CallSteps, s # <<>>
    PROVE  Tail(s) \in CallSteps
  BY StepsLeft DEF CallSteps

\* What a variable that holds nothing holds.
LEMMA AnyOf == AnySaver \in Savers /\ AnyDevice \in Devices
  BY SaveAssumption DEF AnySaver, AnyDevice

-----------------------------------------------------------------------------
(* Types.                                                                  *)

\* A full ring fits into count.
LEMMA RingSize ==
    /\ Modulus \in Nat \ {0} /\ QueueLength \in Nat \ {0} /\ QueueLength < Modulus
    /\ MaxPackets \in Nat /\ MaxSessions \in Nat
<1>1. Modulus \in Nat \ {0}
  BY DEF Modulus
<1>2. QED
  BY <1>1, SaveAssumption

\* The slot after one is a slot.
LEMMA SuccIsSlot == ASSUME NEW i \in Slots PROVE Succ(i) \in Slots
<1>1. QueueLength \in Nat \ {0} /\ i \in Nat /\ i < QueueLength
  BY RingSize DEF Slots
<1>2. CASE i + 1 < QueueLength
  BY <1>1, <1>2 DEF Succ, Slots
<1>3. CASE i + 1 = QueueLength
  BY <1>1, <1>3 DEF Succ, Slots
<1>4. QED
  BY <1>1, <1>2, <1>3

\* The stores of count stay in its sixteen bits.
LEMMA CountIsShort ==
    ASSUME NEW c \in 0 .. Modulus - 1
    PROVE  /\ c < QueueLength => c + 1 \in 0 .. Modulus - 1
           /\ (c + Modulus - 1) % Modulus \in 0 .. Modulus - 1
           /\ c > 0 => (c + Modulus - 1) % Modulus = c - 1
<1>1. CASE c = 0
  BY <1>1, RingSize
<1>2. CASE c > 0
  BY <1>2, RingSize
<1>3. QED
  BY <1>1, <1>2

\* The type invariant, with the calls the program can be in.
BasicInv == TypeOK /\ todo \in CallSteps

\* It holds in zeroed memory.
LEMMA BasicInvInit == Init => BasicInv
<1> SUFFICES ASSUME Init PROVE BasicInv
  OBVIOUS
<1>1. /\ 0 \in Slots /\ 0 \in Packets /\ 0 \in 0 .. Modulus - 1
      /\ Blank \in Line /\ AnySaver \in Savers /\ AnyDevice \in Devices
  BY RingSize, AnyOf DEF Slots, Packets, Blank, Line
<1>2. /\ todo \in CallSteps /\ todo \in Seq(Steps) /\ Len(todo) <= 7
      /\ from \in Seq(Devices) /\ Len(from) <= MaxPackets
      /\ rows \in [Sessions -> Seq(Line)]
  BY SaveAssumption DEF Init, CallSteps
<1>3. confused \in BOOLEAN /\ mixed \in BOOLEAN
  BY Zenon DEF Init
<1>4. /\ running \in [Savers -> BOOLEAN]
      /\ file \in [Savers -> Sessions \cup {0}]
      /\ head \in [Savers -> Slots] /\ tail \in [Savers -> Slots]
      /\ count \in [Savers -> 0 .. Modulus - 1]
      /\ slots \in [Savers -> [Slots -> Packets]]
      /\ context \in [Devices -> Savers \cup {Null}]
  BY <1>1 DEF Init
<1>5. /\ at \in [Devices -> TaskPlaces] /\ pindex \in [Devices -> Slots]
      /\ savedTo \in [Devices -> Savers] /\ offered \in [Devices -> Packets]
      /\ asaver \in Savers /\ adev \in Devices
  BY <1>1 DEF Init, TaskPlaces
<1>6. /\ tpc \in [Sessions -> ThreadPlaces]
      /\ tsaver \in [Sessions -> Savers]
      /\ ttail \in [Sessions -> Slots]
      /\ tpacket \in [Sessions -> Packets] /\ tline \in [Sessions -> Line]
      /\ fbuf \in Packets /\ open \subseteq Sessions
      /\ accepted \in [Sessions -> SUBSET Packets]
      /\ dropped \in [Sessions -> SUBSET Packets]
  BY <1>1 DEF Init, ThreadPlaces
<1>7. QED
  BY <1>2, <1>3, <1>4, <1>5, <1>6 DEF BasicInv, TypeOK

\* A step of a call in progress leaves a call, and arguments.
LEMMA DoingStep ==
    ASSUME BasicInv, NEW step, Doing(step)
    PROVE  /\ todo' \in CallSteps /\ todo' \in Seq(Steps) /\ Len(todo') <= 7
           /\ asaver' \in Savers /\ adev' \in Devices
<1>1. todo' \in CallSteps
  BY TailIsCall DEF BasicInv, Doing
<1>2. QED
  BY <1>1, StepsAreSteps, AnyOf DEF BasicInv, TypeOK, Doing

\* What the program's steps change keeps its type.
LEMMA BasicInvProgram == BasicInv /\ Program => BasicInv'
<1> SUFFICES ASSUME BasicInv, Program PROVE BasicInv'
  OBVIOUS
<1> USE DEF BasicInv, TypeOK, saverVars, ringVars, program, background, threads, disk,
            received, history
<1>1. ASSUME NEW s \in Savers, CallInit(s) PROVE BasicInv'
  <2>1. todo' = <<"stop", "close", "forget", "zeroHead", "zeroTail", "zeroCount", "idle">>
    BY <1>1 DEF CallInit, Call
  <2>2. todo' \in CallSteps /\ todo' \in Seq(Steps) /\ Len(todo') <= 7
    BY <2>1, StepsAreSteps DEF CallSteps
  <2>3. QED
    BY <1>1, <2>2 DEF CallInit, Call
<1>2. ASSUME NEW s \in Savers, CallDestroy(s) PROVE BasicInv'
  <2>1. todo' = <<"close", "forget">>
    BY <1>2 DEF CallDestroy, Call
  <2>2. todo' \in CallSteps /\ todo' \in Seq(Steps) /\ Len(todo') <= 7
    BY <2>1, StepsAreSteps DEF CallSteps
  <2>3. QED
    BY <1>2, <2>2 DEF CallDestroy, Call
<1>3. ASSUME NEW s \in Savers, NEW d \in Devices, CallEnd(s, d) PROVE BasicInv'
  <2>1. todo' = <<"stop", "unhook", "close", "forget">>
    BY <1>3 DEF CallEnd, Call
  <2>2. todo' \in CallSteps /\ todo' \in Seq(Steps) /\ Len(todo') <= 7
    BY <2>1, StepsAreSteps DEF CallSteps
  <2>3. confused' \in BOOLEAN
    BY <1>3 DEF CallEnd
  <2>4. QED
    BY <1>3, <2>2, <2>3 DEF CallEnd, Call
<1>4. ASSUME NEW s \in Savers, NEW d \in Devices, CallBegin(s, d) PROVE BasicInv'
  <2>1. todo' = <<"hook", "zeroHead", "zeroTail", "zeroCount", "run", "start">>
    BY <1>4 DEF CallBegin, Call
  <2>2. todo' \in CallSteps /\ todo' \in Seq(Steps) /\ Len(todo') <= 7
    BY <2>1, StepsAreSteps DEF CallSteps
  <2>3. confused' \in BOOLEAN /\ mixed' \in BOOLEAN
    BY <1>4 DEF CallBegin
  <2>4. /\ file' \in [Savers -> Sessions \cup {0}] /\ open' \subseteq Sessions
        /\ tpc' \in [Sessions -> ThreadPlaces] /\ tsaver' \in [Sessions -> Savers]
    BY <1>4 DEF CallBegin, ThreadPlaces
  <2>5. QED
    BY <1>4, <2>2, <2>3, <2>4 DEF CallBegin, Call
<1>5. ASSUME NEW s \in Savers, NEW d \in Devices, CallBeginFails(s, d) PROVE BasicInv'
  <2>1. todo' = <<>>
    BY <1>5 DEF CallBeginFails, Call
  <2>2. todo' \in CallSteps /\ todo' \in Seq(Steps) /\ Len(todo') <= 7
    BY <2>1, StepsAreSteps DEF CallSteps
  <2>3. confused' \in BOOLEAN
    BY <1>5 DEF CallBeginFails
  <2>4. QED
    BY <1>5, <2>2, <2>3 DEF CallBeginFails, Call
<1>6. CASE Stop
  BY <1>6, DoingStep DEF Stop
<1>7. CASE Unhook
  BY <1>7, DoingStep DEF Unhook
<1>8. CASE Close
  BY <1>8, DoingStep DEF Close
<1>9. CASE Forget
  BY <1>9, DoingStep DEF Forget
<1>10. CASE Hook
  BY <1>10, DoingStep DEF Hook
<1>11. CASE ZeroHead \/ ZeroTail \/ ZeroCount
  <2>1. 0 \in Slots /\ 0 \in 0 .. Modulus - 1
    BY RingSize DEF Slots
  <2>2. mixed' \in BOOLEAN
    BY <1>11 DEF ZeroHead, ZeroTail, ZeroCount, Zero
  <2>3. CASE ZeroHead
    BY <2>1, <2>2, <2>3, DoingStep DEF ZeroHead, Zero
  <2>4. CASE ZeroTail
    BY <2>1, <2>2, <2>4, DoingStep DEF ZeroTail, Zero
  <2>5. CASE ZeroCount
    BY <2>1, <2>2, <2>5, DoingStep DEF ZeroCount, Zero
  <2>6. QED
    BY <1>11, <2>3, <2>4, <2>5
<1>12. CASE Run
  BY <1>12, DoingStep DEF Run
<1>13. CASE Start
  <2>1. mixed' \in BOOLEAN
    BY <1>13 DEF Start
  <2>2. tpc' \in [Sessions -> ThreadPlaces]
    BY <1>13 DEF Start, ThreadPlaces
  <2>3. QED
    BY <1>13, <2>1, <2>2, DoingStep DEF Start
<1>14. CASE StartFails
  <2>1. tpc' \in [Sessions -> ThreadPlaces]
    BY <1>14 DEF StartFails, ThreadPlaces
  <2>2. QED
    BY <1>14, <2>1, DoingStep DEF StartFails
<1>15. QED
  BY <1>1, <1>2, <1>3, <1>4, <1>5, <1>6, <1>7, <1>8, <1>9, <1>10, <1>11, <1>12, <1>13, <1>14
  DEF Program, Continue

\* ... and of the background tasks ...
LEMMA BasicInvBackground ==
    ASSUME BasicInv, NEW d \in Devices, BackgroundTask(d)
    PROVE  BasicInv'
<1> USE DEF BasicInv, TypeOK, saverVars, ringVars, program, background, threads, disk,
            received, history
<1>p. 0 \in Packets
  BY RingSize DEF Packets
<1>0. ASSUME Return(d)
      PROVE  /\ at' \in [Devices -> TaskPlaces] /\ pindex' \in [Devices -> Slots]
             /\ savedTo' \in [Devices -> Savers] /\ offered' \in [Devices -> Packets]
  <2>1. 0 \in Slots
    BY RingSize DEF Slots
  <2>2. QED
    BY <1>p, <1>0, <2>1, AnyOf DEF Return, TaskPlaces
<1>1. CASE TestContext(d)
  <2>1. from' \in Seq(Devices) /\ Len(from') = Len(from) + 1 /\ Len(from') <= MaxPackets
    BY <1>1, RingSize DEF TestContext
  <2>2. Len(from') \in Packets
    BY <2>1, RingSize DEF Packets
  <2>3. QED
    BY <1>1, <2>1, <2>2 DEF TestContext, TaskPlaces
<1>2. CASE LoadContext(d)
  BY <1>0, <1>2 DEF LoadContext, TaskPlaces
<1>3. CASE TestRunning(d)
  BY <1>0, <1>3 DEF TestRunning, TaskPlaces
<1> DEFINE s == savedTo[d]
<1>s. /\ s \in Savers /\ head[s] \in Slots /\ tail[s] \in Slots /\ offered[d] \in Packets
      /\ pindex[d] \in Slots /\ count[s] \in 0 .. Modulus - 1 /\ slots[s] \in [Slots -> Packets]
      /\ Succ(pindex[d]) \in Slots
  BY SuccIsSlot
<1>4. CASE LoadHead(d)
  <2>1. mixed' \in BOOLEAN
    BY <1>4 DEF LoadHead
  <2>2. QED
    BY <1>4, <1>s, <2>1 DEF LoadHead, TaskPlaces, PushPlaces, Unwritten
<1>5. CASE Fill(d)
  <2>1. slots' \in [Savers -> [Slots -> Packets]]
    BY <1>5, <1>s DEF Fill
  <2>2. mixed' \in BOOLEAN
    BY <1>5 DEF Fill
  <2>3. accepted' \in [Sessions -> SUBSET Packets]
    BY <1>5, <1>s DEF Fill, Received
  <2>4. dropped' \in [Sessions -> SUBSET Packets]
    BY <1>5, <1>s DEF Fill, Received
  <2>5. at' \in [Devices -> TaskPlaces]
    BY <1>5 DEF Fill, TaskPlaces, PushPlaces, Written
  <2>6. QED
    BY <1>5, <2>1, <2>2, <2>3, <2>4, <2>5 DEF Fill
<1>6. CASE StoreHead(d)
  BY <1>6, <1>s DEF StoreHead, PushStep, TaskPlaces, PushPlaces, Written
<1>7. CASE LoadCount(d)
  BY <1>7, <1>s DEF LoadCount, PushStep, TaskPlaces, PushPlaces, Written
<1>8. CASE LoadTail(d)
  BY <1>8, <1>s DEF LoadTail, PushStep, TaskPlaces, PushPlaces, Written
<1>9. CASE AddCount(d)
  <2>1. count' \in [Savers -> 0 .. Modulus - 1]
    <3>1. (count[s] + 1) % Modulus \in 0 .. Modulus - 1
      BY <1>s, RingSize
    <3>2. QED
      BY <1>9, <1>s, <3>1 DEF AddCount
  <2>2. QED
    BY <1>0, <1>9, <2>1 DEF AddCount, PushEnds
<1>10. CASE StoreTail(d)
  <2>1. tail' \in [Savers -> Slots]
    BY <1>10, <1>s DEF StoreTail
  <2>2. QED
    BY <1>0, <1>10, <2>1 DEF StoreTail, PushEnds
<1>11. QED
  BY <1>1, <1>2, <1>3, <1>4, <1>5, <1>6, <1>7, <1>8, <1>9, <1>10 DEF BackgroundTask, Deliver

\* ... and of the threads.
LEMMA BasicInvThread ==
    ASSUME BasicInv, NEW t \in Sessions, Thread(t)
    PROVE  BasicInv'
<1> USE DEF BasicInv, TypeOK, saverVars, ringVars, program, background, threads, disk,
            received, history, ThreadAt
<1>0. tsaver[t] \in Savers /\ tail[tsaver[t]] \in Slots /\ count[tsaver[t]] \in 0 .. Modulus - 1
      /\ 0 \in Slots /\ 0 \in Packets /\ Blank \in Line
  BY RingSize DEF Slots, Packets, Blank, Line
<1> USE DEF PopPlaces
<1>1. CASE Begin(t)
  BY <1>1 DEF Begin, Goto, ThreadPlaces
<1>2. CASE Loop(t)
  BY <1>2 DEF Loop, Goto, ThreadPlaces
<1>3. CASE Take(t)
  <2>1. Goto(t, "loop") \/ Goto(t, "index")
    BY <1>3 DEF Take
  <2>2. tpc' \in [Sessions -> ThreadPlaces]
    BY <2>1 DEF Goto, ThreadPlaces
  <2>3. mixed' \in BOOLEAN
    BY <1>3 DEF Take
  <2>4. UNCHANGED <<tail, count, ttail, tpacket, tline, fbuf, rows>>
    BY <1>3 DEF Take
  <2>5. QED
    BY <1>3, <2>2, <2>3, <2>4 DEF Take
<1>4. CASE PopTail(t) \/ Copy(t) \/ Commit(t) \/ Uncount(t)
  <2>1. CASE PopTail(t)
    BY <1>0, <2>1 DEF PopTail, Goto, ThreadPlaces
  <2>2. CASE Copy(t)
    <3>1. slots[tsaver[t]][ttail[t]] \in Packets
      BY <1>0
    <3>2. QED
      BY <1>0, <2>2, <3>1 DEF Copy, Goto, ThreadPlaces
  <2>3. CASE Commit(t)
    <3>1. tail' \in [Savers -> Slots]
      BY <1>0, <2>3, SuccIsSlot DEF Commit
    <3>2. QED
      BY <1>0, <2>3, <3>1 DEF Commit, Goto, ThreadPlaces
  <2>4. CASE Uncount(t)
    <3>1. count' \in [Savers -> 0 .. Modulus - 1]
      BY <1>0, <2>4, CountIsShort DEF Uncount
    <3>2. QED
      BY <1>0, <2>4, <3>1 DEF Uncount, Goto, ThreadPlaces
  <2>5. QED
    BY <1>4, <2>1, <2>2, <2>3, <2>4
<1>5. CASE Format(t)
  BY <1>5 DEF Format, Goto, ThreadPlaces
<1>6. CASE PrintLine(t)
  BY <1>0, <1>6 DEF PrintLine, Goto, ThreadPlaces, Line
<1>7. CASE TestFile(t)
  <2>1. tline' \in [Sessions -> Line]
    BY <1>0, <1>7 DEF TestFile
  <2>2. Goto(t, "loop") \/ Goto(t, "write")
    BY <1>7 DEF TestFile
  <2>3. tpc' \in [Sessions -> ThreadPlaces]
    BY <2>2 DEF Goto, ThreadPlaces
  <2>4. UNCHANGED <<tail, count, ttail, tpacket, fbuf, rows>>
    BY <1>7 DEF TestFile
  <2>5. QED
    BY <1>7, <2>1, <2>3, <2>4 DEF TestFile
<1>8. CASE Write(t)
  <2>1. rows' \in [Sessions -> Seq(Line)]
    BY <1>0, <1>8 DEF Write
  <2>2. QED
    BY <1>0, <1>8, <2>1 DEF Write, Goto, ThreadPlaces
<1>9. QED
  BY <1>1, <1>2, <1>3, <1>4, <1>5, <1>6, <1>7, <1>8 DEF Thread

\* Every step keeps it.
LEMMA BasicInvStep == BasicInv /\ [Next]_vars => BasicInv'
<1>1. BasicInv /\ UNCHANGED vars => BasicInv'
  BY DEF BasicInv, TypeOK, vars, saverVars, ringVars, program, background, threads, disk,
         received, history
<1>2. QED
  BY <1>1, BasicInvProgram, BasicInvBackground, BasicInvThread DEF Next

\* Types, and a call in progress that is one of the list.
LEMMA BasicInvariance == Spec => []BasicInv
  BY BasicInvInit, BasicInvStep, PTL DEF Spec

\* Every variable keeps its type: no index leaves a ring, no packet number the
\* packets that came, and count, however the threads use it, its sixteen bits.
THEOREM TypeCorrect == Spec => []TypeOK
<1>1. BasicInv => TypeOK
  BY DEF BasicInv
<1>2. QED
  BY <1>1, BasicInvariance, PTL

-----------------------------------------------------------------------------
(* What the tasks and the threads leave alone.                             *)

\* A background task moves the ring and itself.
LEMMA TaskLeaves ==
    ASSUME BasicInv, NEW d \in Devices, BackgroundTask(d)
    PROVE  /\ UNCHANGED <<running, file, context, program, threads, disk, confused>>
           /\ mixed => mixed'
           /\ \A e \in Devices \ {d} :
                  UNCHANGED <<at[e], savedTo[e], offered[e], pindex[e]>>
<1> USE DEF saverVars, ringVars, program, threads, disk, history, received, Return, BasicInv, TypeOK
<1>1. CASE TestContext(d) \/ LoadContext(d) \/ TestRunning(d)
  BY <1>1 DEF TestContext, LoadContext, TestRunning
<1>2. CASE LoadHead(d)
  BY <1>2 DEF LoadHead
<1>3. CASE Fill(d)
  BY <1>3 DEF Fill
<1>4. CASE StoreHead(d) \/ LoadCount(d) \/ LoadTail(d)
  BY <1>4 DEF StoreHead, LoadCount, LoadTail, PushStep
<1>5. CASE AddCount(d) \/ StoreTail(d)
  BY <1>5 DEF AddCount, StoreTail, PushEnds
<1>6. QED
  BY <1>1, <1>2, <1>3, <1>4, <1>5 DEF BackgroundTask, Deliver

\* A thread moves tail, count and itself.
LEMMA ThreadLeaves ==
    ASSUME BasicInv, NEW t \in Sessions, Thread(t)
    PROVE  /\ UNCHANGED <<running, file, head, slots, context, program, background,
                          tsaver, open, received, confused>>
           /\ mixed => mixed'
           /\ Alive(t)
           /\ \E pc \in ThreadPlaces \ {"none", "opened"} : tpc' = [tpc EXCEPT ![t] = pc]
           /\ \A u \in Sessions \ {t} : UNCHANGED <<tpc[u], ttail[u], tpacket[u], tline[u]>>
           /\ \A r \in Savers : r # tsaver[t] => UNCHANGED <<tail[r], count[r]>>
<1> USE DEF ThreadAt, Alive, Goto, ThreadPlaces, PopPlaces
<1>1. CASE Begin(t) \/ Loop(t)
  BY <1>1 DEF Begin, Loop, BasicInv, TypeOK
<1>2. CASE Take(t)
  BY <1>2 DEF Take, BasicInv, TypeOK
<1>3. CASE PopTail(t) \/ Copy(t)
  BY <1>3 DEF PopTail, Copy, BasicInv, TypeOK
<1>4. CASE Commit(t) \/ Uncount(t)
  BY <1>4 DEF Commit, Uncount, BasicInv, TypeOK
<1>5. CASE Format(t) \/ PrintLine(t)
  BY <1>5 DEF Format, PrintLine, BasicInv, TypeOK
<1>6. CASE TestFile(t)
  BY <1>6 DEF TestFile, BasicInv, TypeOK
<1>7. CASE Write(t)
  BY <1>7 DEF Write, BasicInv, TypeOK
<1>8. QED
  BY <1>1, <1>2, <1>3, <1>4, <1>5, <1>6, <1>7 DEF Thread

-----------------------------------------------------------------------------
(* Files.  A FILE stays open only as the file of a saver: fs_save_begin_device *)
(* overwrites saver->file without a look at it, so what saves the old FILE is  *)
(* that whoever still has one open is the saver of some device, which is then  *)
(* being saved.  The exceptions are the saver of the call in progress, between *)
(* its fopen and the store of save_context, and between the store of NULL      *)
(* there and the fclose.                                                       *)

\* Sessions are numbered in the order in which they began.
Numbered == \E n \in 0 .. MaxSessions : Started = 1 .. n

FilesStarted == \A s \in Savers : file[s] \in Started \cup {0}

BeginHook  == <<"hook", "zeroHead", "zeroTail", "zeroCount", "run", "start">>
BeginRest  == {<<"zeroHead", "zeroTail", "zeroCount", "run", "start">>,
               <<"zeroTail", "zeroCount", "run", "start">>, <<"zeroCount", "run", "start">>,
               <<"run", "start">>, <<"start">>}
EndUnhook  == {<<"stop", "unhook", "close", "forget">>, <<"unhook", "close", "forget">>}
EndClose   == <<"close", "forget">>
AfterClose == {<<"forget">>, <<"forget", "zeroHead", "zeroTail", "zeroCount", "idle">>}
InitZero   == {<<"zeroHead", "zeroTail", "zeroCount", "idle">>,
               <<"zeroTail", "zeroCount", "idle">>, <<"zeroCount", "idle">>}

\* An open FILE can be reached from the device it is the file of.
OpenIsHooked ==
    \A s \in Savers : file[s] \in open =>
        \/ \E d \in Devices : context[d] = s
        \/ s = asaver /\ todo \in {BeginHook, EndClose}

\* What the call in progress knows of the saver and the device it is for.
CallKnows ==
    /\ todo \in AfterClose => file[asaver] \notin open
    /\ todo \in EndUnhook => context[adev] \in {Null, asaver}
    /\ todo = BeginHook => context[adev] \in {Null, asaver} \/ file[context[adev]] = 0
    /\ todo \in BeginRest => context[adev] = asaver

FilesInv ==
    /\ Numbered /\ FilesStarted
    /\ ~confused => NoFileLeaked /\ OpenIsHooked /\ CallKnows

\* The number of the next session is that of no session before it.
LEMMA NextIsFresh ==
    ASSUME Numbered, NextSession \in Sessions
    PROVE  /\ NextSession \notin Started /\ NextSession # 0
           /\ Started \cup {NextSession} = 1 .. NextSession
           /\ NextSession \in 0 .. MaxSessions
<1>1. PICK n \in 0 .. MaxSessions : Started = 1 .. n
  BY DEF Numbered
<1>2. Cardinality(1 .. n) = n
  BY FS_Interval
<1>3. NextSession = n + 1
  BY <1>1, <1>2 DEF NextSession
<1>4. QED
  BY <1>1, <1>3, RingSize DEF Sessions

\* A step that starts no session, and moves no thread there or back, keeps Started.
LEMMA StartedStays ==
    ASSUME BasicInv, NEW t, NEW pc, tpc' = [tpc EXCEPT ![t] = pc],
           pc # "none", t \in Started \/ t \notin Sessions
    PROVE  Started' = Started
  BY DEF Started, BasicInv, TypeOK

\* The steps of threads and background tasks have nothing to do with it.
LEMMA FilesFrame ==
    ASSUME FilesInv, UNCHANGED <<file, open, context, program, confused>>, Started' = Started
    PROVE  FilesInv'
<1> USE DEF program
<1>1. Numbered' /\ FilesStarted'
  BY DEF FilesInv, Numbered, FilesStarted
<1>2. ~confused' => NoFileLeaked'
  BY DEF FilesInv, NoFileLeaked
<1>3. ~confused' => OpenIsHooked'
  BY DEF FilesInv, OpenIsHooked
<1>4. ~confused' => CallKnows'
  BY DEF FilesInv, CallKnows
<1>5. QED
  BY <1>1, <1>2, <1>3, <1>4 DEF FilesInv

\* No file is open at first.
LEMMA FilesInvInit == Init => FilesInv
<1> SUFFICES ASSUME Init PROVE FilesInv
  OBVIOUS
<1>1. Started = 1 .. 0
  BY DEF Init, Started
<1>2. Numbered
  BY <1>1, RingSize DEF Numbered
<1>3. FilesStarted
  BY DEF Init, FilesStarted
<1>4. NoFileLeaked /\ OpenIsHooked /\ CallKnows
  BY DEF Init, NoFileLeaked, OpenIsHooked, CallKnows, AfterClose, EndUnhook, BeginHook, BeginRest
<1>5. QED
  BY <1>2, <1>3, <1>4 DEF FilesInv

\* The background tasks and the threads neither open nor close a file.
LEMMA FilesInvTasks ==
    ASSUME BasicInv, FilesInv,
           (\E d \in Devices : BackgroundTask(d)) \/ (\E t \in Sessions : Thread(t))
    PROVE  FilesInv'
<1>1. ASSUME NEW d \in Devices, BackgroundTask(d) PROVE FilesInv'
  <2>1. UNCHANGED <<file, open, context, program, confused, tpc>>
    BY <1>1, TaskLeaves DEF threads, disk
  <2>2. Started' = Started
    BY <2>1 DEF Started
  <2>3. QED
    BY <2>1, <2>2, FilesFrame
<1>2. ASSUME NEW t \in Sessions, Thread(t) PROVE FilesInv'
  <2>1. UNCHANGED <<file, open, context, program, confused>> /\ t \in Started
    BY <1>2, ThreadLeaves DEF Started, Alive
  <2>2. PICK pc \in ThreadPlaces \ {"none", "opened"} : tpc' = [tpc EXCEPT ![t] = pc]
    BY <1>2, ThreadLeaves
  <2>3. Started' = Started
    BY <2>1, <2>2, StartedStays
  <2>4. QED
    BY <2>1, <2>3, FilesFrame
<1>3. QED
  BY <1>1, <1>2

\* confused and mixed are never taken back.
LEMMA FlagsAreSticky == BasicInv /\ [Next]_vars => (confused => confused') /\ (mixed => mixed')
<1> SUFFICES ASSUME BasicInv, [Next]_vars PROVE (confused => confused') /\ (mixed => mixed')
  OBVIOUS
<1>b. confused \in BOOLEAN /\ mixed \in BOOLEAN
  BY DEF BasicInv, TypeOK
<1>1. CASE Program
  <2>1. ASSUME NEW s \in Savers, CallInit(s) \/ CallDestroy(s)
        PROVE  (confused => confused') /\ (mixed => mixed')
    BY <2>1 DEF CallInit, CallDestroy, history
  <2>2. ASSUME NEW s \in Savers, NEW d \in Devices, CallBegin(s, d)
        PROVE  (confused => confused') /\ (mixed => mixed')
    BY <1>b, <2>2 DEF CallBegin
  <2>3. ASSUME NEW s \in Savers, NEW d \in Devices, CallBeginFails(s, d)
        PROVE  (confused => confused') /\ (mixed => mixed')
    BY <1>b, <2>3 DEF CallBeginFails
  <2>4. ASSUME NEW s \in Savers, NEW d \in Devices, CallEnd(s, d)
        PROVE  (confused => confused') /\ (mixed => mixed')
    BY <1>b, <2>4 DEF CallEnd
  <2>5. CASE Continue
    <3>1. CASE Stop \/ Unhook \/ Close \/ Forget \/ Hook \/ Run \/ StartFails
      BY <3>1 DEF Stop, Unhook, Close, Forget, Hook, Run, StartFails, history
    <3>2. CASE ZeroHead \/ ZeroTail \/ ZeroCount
      BY <1>b, <3>2 DEF ZeroHead, ZeroTail, ZeroCount, Zero
    <3>3. CASE Start
      BY <1>b, <3>3 DEF Start
    <3>4. QED
      BY <2>5, <3>1, <3>2, <3>3 DEF Continue
  <2>6. QED
    BY <1>1, <2>1, <2>2, <2>3, <2>4, <2>5 DEF Program
<1>2. ASSUME NEW d \in Devices, BackgroundTask(d) PROVE (confused => confused') /\ (mixed => mixed')
  BY <1>2, TaskLeaves
<1>3. ASSUME NEW t \in Sessions, Thread(t) PROVE (confused => confused') /\ (mixed => mixed')
  BY <1>3, ThreadLeaves
<1>4. CASE UNCHANGED vars
  BY <1>4 DEF vars, history
<1>5. QED
  BY <1>1, <1>2, <1>3, <1>4 DEF Next

\* The first step of each call.  fs_save_begin_device is the one that overwrites
\* saver->file: the device is not being saved, and no other device has the saver,
\* so the FILE it loses is not open.
LEMMA FilesInvCall ==
    ASSUME BasicInv, FilesInv, NEW s \in Savers, NEW d \in Devices,
           CallInit(s) \/ CallDestroy(s) \/ CallEnd(s, d) \/ CallBegin(s, d) \/ CallBeginFails(s, d)
    PROVE  FilesInv'
<1> USE DEF saverVars, threads, disk, history, received
<1>1. CASE CallInit(s) \/ CallDestroy(s)
  <2>1. /\ UNCHANGED <<file, open, context, tpc, confused>> /\ todo = <<>>
        /\ todo' \in {<<"stop", "close", "forget", "zeroHead", "zeroTail", "zeroCount", "idle">>,
                      <<"close", "forget">>}
    BY <1>1 DEF CallInit, CallDestroy, Call
  <2>2. Numbered' /\ FilesStarted'
    BY <2>1 DEF FilesInv, Numbered, FilesStarted, Started
  <2>3. ~confused' => NoFileLeaked'
    BY <2>1 DEF FilesInv, NoFileLeaked
  <2>4. ~confused' => OpenIsHooked'
    BY <2>1 DEF FilesInv, OpenIsHooked, BeginHook, EndClose
  <2>5. CallKnows'
    BY <2>1 DEF CallKnows, AfterClose, EndUnhook, BeginHook, BeginRest
  <2>6. QED
    BY <2>2, <2>3, <2>4, <2>5 DEF FilesInv
<1>2. CASE CallEnd(s, d)
  <2>1. /\ UNCHANGED <<file, open, context, tpc>> /\ todo = <<>>
        /\ todo' = <<"stop", "unhook", "close", "forget">> /\ asaver' = s /\ adev' = d
        /\ ~confused' => ~confused /\ context[d] \in {Null, s}
    BY <1>2 DEF CallEnd, Call
  <2>2. Numbered' /\ FilesStarted'
    BY <2>1 DEF FilesInv, Numbered, FilesStarted, Started
  <2>3. ~confused' => NoFileLeaked'
    BY <2>1 DEF FilesInv, NoFileLeaked
  <2>4. ~confused' => OpenIsHooked'
    BY <2>1 DEF FilesInv, OpenIsHooked, BeginHook, EndClose
  <2>5. ~confused' => CallKnows'
    BY <2>1 DEF CallKnows, AfterClose, EndUnhook, BeginHook, BeginRest
  <2>6. QED
    BY <2>2, <2>3, <2>4, <2>5 DEF FilesInv
<1>3. CASE CallBegin(s, d) \/ CallBeginFails(s, d)
  <2>1. /\ todo = <<>> /\ ~Saving(d) /\ UNCHANGED context
        /\ asaver' = s /\ adev' = d
        /\ ~confused' => ~confused /\ ~ServesAnother(s, d)
    BY <1>3 DEF CallBegin, CallBeginFails, Call
  <2>2. todo # BeginHook /\ todo # EndClose
    BY <2>1 DEF BeginHook, EndClose
  <2>3. ~confused' => file[s] \notin open
    <3>1. SUFFICES ASSUME ~confused', file[s] \in open PROVE FALSE
      OBVIOUS
    <3>2. PICK e \in Devices : context[e] = s
      BY <2>1, <2>2, <3>1 DEF FilesInv, OpenIsHooked
    <3>3. e = d
      BY <2>1, <3>1, <3>2 DEF ServesAnother
    <3>4. file[s] = 0
      BY <2>1, <3>2, <3>3, SaveAssumption DEF Saving
    <3>5. QED
      BY <3>1, <3>4 DEF BasicInv, TypeOK, Sessions
  <2>4. CASE CallBegin(s, d)
    <3> DEFINE n == NextSession
    <3>1. /\ todo' = BeginHook /\ n \in Sessions
          /\ file' = [file EXCEPT ![s] = n] /\ open' = open \cup {n}
          /\ tpc' = [tpc EXCEPT ![n] = "opened"]
      BY <2>4 DEF CallBegin, Call, BeginHook
    <3>2. /\ n \notin Started /\ n # 0 /\ Started \cup {n} = 1 .. n /\ n \in 0 .. MaxSessions
      BY <3>1, NextIsFresh DEF FilesInv
    <3>3. Started' = Started \cup {n}
      BY <3>1 DEF Started, BasicInv, TypeOK
    <3>4. Numbered'
      BY <3>2, <3>3 DEF Numbered
    <3>5. FilesStarted'
      BY <3>1, <3>3 DEF FilesInv, FilesStarted, BasicInv, TypeOK
    <3>6. \A r \in Savers \ {s} : file'[r] = file[r] /\ file[r] # n
      BY <3>1, <3>2 DEF FilesInv, FilesStarted, BasicInv, TypeOK
    <3>7. file'[s] = n
      BY <3>1 DEF BasicInv, TypeOK
    <3>8. ~confused' => NoFileLeaked'
      BY <2>1, <2>3, <3>1, <3>6, <3>7 DEF FilesInv, NoFileLeaked
    <3>9. ~confused' => OpenIsHooked'
      BY <2>1, <2>2, <3>1, <3>6, <3>7 DEF FilesInv, OpenIsHooked
    <3>10. context[d] \in {Null, s} \/ file'[context[d]] = 0
      BY <2>1, <3>6, SaveAssumption DEF Saving, BasicInv, TypeOK
    <3>11. CallKnows'
      BY <2>1, <3>1, <3>10 DEF CallKnows, AfterClose, EndUnhook, BeginHook, BeginRest
    <3>12. QED
      BY <3>4, <3>5, <3>8, <3>9, <3>11 DEF FilesInv
  <2>5. CASE CallBeginFails(s, d)
    <3>1. /\ todo' = <<>> /\ UNCHANGED <<open, tpc>> /\ file' = [file EXCEPT ![s] = 0]
      BY <2>5 DEF CallBeginFails, Call
    <3>2. Numbered' /\ FilesStarted'
      BY <3>1 DEF FilesInv, Numbered, FilesStarted, Started, BasicInv, TypeOK
    <3>3. /\ \A r \in Savers \ {s} : file'[r] = file[r]
          /\ file'[s] = 0 /\ 0 \notin open
      BY <3>1 DEF BasicInv, TypeOK, Sessions
    <3>4. ~confused' => NoFileLeaked'
      BY <2>1, <2>3, <3>1, <3>3 DEF FilesInv, NoFileLeaked
    <3>5. ~confused' => OpenIsHooked'
      BY <2>1, <2>2, <3>1, <3>3 DEF FilesInv, OpenIsHooked
    <3>6. CallKnows'
      BY <3>1 DEF CallKnows, AfterClose, EndUnhook, BeginHook, BeginRest
    <3>7. QED
      BY <3>2, <3>4, <3>5, <3>6 DEF FilesInv
  <2>6. QED
    BY <1>3, <2>4, <2>5
<1>4. QED
  BY <1>1, <1>2, <1>3

\* What a step finds of its call, and what it leaves.
LEMMA DoingIs ==
    ASSUME BasicInv, NEW step, Doing(step)
    PROVE  \/ /\ step = "stop"
              /\ todo = <<"stop", "close", "forget", "zeroHead", "zeroTail", "zeroCount", "idle">>
              /\ todo' = <<"close", "forget", "zeroHead", "zeroTail", "zeroCount", "idle">>
              /\ UNCHANGED <<asaver, adev>>
           \/ /\ step = "close"
              /\ todo = <<"close", "forget", "zeroHead", "zeroTail", "zeroCount", "idle">>
              /\ todo' = <<"forget", "zeroHead", "zeroTail", "zeroCount", "idle">>
              /\ UNCHANGED <<asaver, adev>>
           \/ /\ step = "forget"
              /\ todo = <<"forget", "zeroHead", "zeroTail", "zeroCount", "idle">>
              /\ todo' = <<"zeroHead", "zeroTail", "zeroCount", "idle">>
              /\ UNCHANGED <<asaver, adev>>
           \/ /\ step = "zeroHead"
              /\ todo = <<"zeroHead", "zeroTail", "zeroCount", "idle">>
              /\ todo' = <<"zeroTail", "zeroCount", "idle">>
              /\ UNCHANGED <<asaver, adev>>
           \/ /\ step = "zeroTail"
              /\ todo = <<"zeroTail", "zeroCount", "idle">>
              /\ todo' = <<"zeroCount", "idle">>
              /\ UNCHANGED <<asaver, adev>>
           \/ /\ step = "zeroCount"
              /\ todo = <<"zeroCount", "idle">>
              /\ todo' = <<"idle">>
              /\ UNCHANGED <<asaver, adev>>
           \/ /\ step = "idle"
              /\ todo = <<"idle">>
              /\ todo' = <<>>
           \/ /\ step = "stop"
              /\ todo = <<"stop", "unhook", "close", "forget">>
              /\ todo' = <<"unhook", "close", "forget">>
              /\ UNCHANGED <<asaver, adev>>
           \/ /\ step = "unhook"
              /\ todo = <<"unhook", "close", "forget">>
              /\ todo' = <<"close", "forget">>
              /\ UNCHANGED <<asaver, adev>>
           \/ /\ step = "close"
              /\ todo = <<"close", "forget">>
              /\ todo' = <<"forget">>
              /\ UNCHANGED <<asaver, adev>>
           \/ /\ step = "forget"
              /\ todo = <<"forget">>
              /\ todo' = <<>>
           \/ /\ step = "hook"
              /\ todo = <<"hook", "zeroHead", "zeroTail", "zeroCount", "run", "start">>
              /\ todo' = <<"zeroHead", "zeroTail", "zeroCount", "run", "start">>
              /\ UNCHANGED <<asaver, adev>>
           \/ /\ step = "zeroHead"
              /\ todo = <<"zeroHead", "zeroTail", "zeroCount", "run", "start">>
              /\ todo' = <<"zeroTail", "zeroCount", "run", "start">>
              /\ UNCHANGED <<asaver, adev>>
           \/ /\ step = "zeroTail"
              /\ todo = <<"zeroTail", "zeroCount", "run", "start">>
              /\ todo' = <<"zeroCount", "run", "start">>
              /\ UNCHANGED <<asaver, adev>>
           \/ /\ step = "zeroCount"
              /\ todo = <<"zeroCount", "run", "start">>
              /\ todo' = <<"run", "start">>
              /\ UNCHANGED <<asaver, adev>>
           \/ /\ step = "run"
              /\ todo = <<"run", "start">>
              /\ todo' = <<"start">>
              /\ UNCHANGED <<asaver, adev>>
           \/ /\ step = "start"
              /\ todo = <<"start">>
              /\ todo' = <<>>
<1>1. todo \in CallSteps /\ todo # <<>> /\ step = Head(todo) /\ todo' = Tail(todo)
  BY DEF BasicInv, Doing
<1>2. Len(todo) # 1 => UNCHANGED <<asaver, adev>>
  BY <1>1 DEF Doing
<1>3. todo = <<"stop", "close", "forget", "zeroHead", "zeroTail", "zeroCount", "idle">>
      => Len(todo) # 1
  OBVIOUS
<1>4. todo = <<"close", "forget", "zeroHead", "zeroTail", "zeroCount", "idle">>
      => Len(todo) # 1
  OBVIOUS
<1>5. todo = <<"forget", "zeroHead", "zeroTail", "zeroCount", "idle">>
      => Len(todo) # 1
  OBVIOUS
<1>6. todo = <<"zeroHead", "zeroTail", "zeroCount", "idle">>
      => Len(todo) # 1
  OBVIOUS
<1>7. todo = <<"zeroTail", "zeroCount", "idle">>
      => Len(todo) # 1
  OBVIOUS
<1>8. todo = <<"zeroCount", "idle">>
      => Len(todo) # 1
  OBVIOUS
<1>10. todo = <<"stop", "unhook", "close", "forget">> => Len(todo) # 1
  OBVIOUS
<1>11. todo = <<"unhook", "close", "forget">> => Len(todo) # 1
  OBVIOUS
<1>12. todo = <<"close", "forget">> => Len(todo) # 1
  OBVIOUS
<1>14. todo = <<"hook", "zeroHead", "zeroTail", "zeroCount", "run", "start">> => Len(todo) # 1
  OBVIOUS
<1>15. todo = <<"zeroHead", "zeroTail", "zeroCount", "run", "start">> => Len(todo) # 1
  OBVIOUS
<1>16. todo = <<"zeroTail", "zeroCount", "run", "start">> => Len(todo) # 1
  OBVIOUS
<1>17. todo = <<"zeroCount", "run", "start">> => Len(todo) # 1
  OBVIOUS
<1>18. todo = <<"run", "start">> => Len(todo) # 1
  OBVIOUS
<1>40. QED
  BY <1>1, <1>2, <1>3, <1>4, <1>5, <1>6, <1>7, <1>8, <1>10, <1>11, <1>12, <1>14, <1>15,
     <1>16, <1>17, <1>18, StepsLeft

\* The steps of a call that has begun.
LEMMA FilesInvContinue == BasicInv /\ FilesInv /\ Continue => FilesInv'
<1> SUFFICES ASSUME BasicInv, FilesInv, Continue PROVE FilesInv'
  OBVIOUS
<1> USE DEF saverVars, ringVars, threads, disk, history, received
<1>s. file[asaver] \in Started \cup {0} /\ asaver \in Savers /\ adev \in Devices
  BY DEF FilesInv, FilesStarted, BasicInv, TypeOK
<1>n. Null \notin Savers
  BY SaveAssumption
<1>1. CASE Stop
  <2>1. UNCHANGED <<file, open, context, tpc, confused>>
    BY <1>1 DEF Stop
  <2>2. /\ todo \notin {BeginHook, EndClose} \cup AfterClose \cup BeginRest
        /\ todo' \notin {BeginHook, EndClose} \cup AfterClose \cup BeginRest
        /\ todo' \in EndUnhook => todo \in EndUnhook /\ UNCHANGED <<asaver, adev>>
    <3>1. Doing("stop") \/ Doing("idle")
      BY <1>1 DEF Stop
    <3>2. \/ /\ todo = <<"stop", "close", "forget", "zeroHead", "zeroTail", "zeroCount", "idle">>
             /\ todo' = <<"close", "forget", "zeroHead", "zeroTail", "zeroCount", "idle">>
          \/ /\ todo = <<"stop", "unhook", "close", "forget">>
             /\ todo' = <<"unhook", "close", "forget">> /\ UNCHANGED <<asaver, adev>>
          \/ todo = <<"idle">> /\ todo' = <<>>
      BY <3>1, DoingIs
    <3>3. CASE todo' = <<"unhook", "close", "forget">>
      BY <3>2, <3>3 DEF BeginHook, EndClose, AfterClose, BeginRest, EndUnhook
    <3>4. CASE todo = <<"idle">> /\ todo' = <<>>
      BY <3>4 DEF BeginHook, EndClose, AfterClose, BeginRest, EndUnhook
    <3>5. CASE todo' = <<"close", "forget", "zeroHead", "zeroTail", "zeroCount", "idle">>
      <4>1. todo = <<"stop", "close", "forget", "zeroHead", "zeroTail", "zeroCount", "idle">>
        BY <3>2, <3>5
      <4>2. todo \notin {BeginHook, EndClose} \cup AfterClose \cup BeginRest
        BY <4>1 DEF BeginHook, EndClose, AfterClose, BeginRest
      <4>3. todo' \notin {BeginHook, EndClose} \cup AfterClose \cup BeginRest \cup EndUnhook
        BY <3>5 DEF BeginHook, EndClose, AfterClose, BeginRest, EndUnhook
      <4>4. QED
        BY <4>2, <4>3
    <3>6. QED
      BY <3>2, <3>3, <3>4, <3>5
  <2>3. Numbered' /\ FilesStarted'
    BY <2>1 DEF FilesInv, Numbered, FilesStarted, Started
  <2>4. ~confused' => NoFileLeaked'
    BY <2>1 DEF FilesInv, NoFileLeaked
  <2>5. ~confused' => OpenIsHooked'
    BY <2>1, <2>2 DEF FilesInv, OpenIsHooked
  <2>6. ~confused' => CallKnows'
    BY <2>1, <2>2 DEF FilesInv, CallKnows
  <2>7. QED
    BY <2>3, <2>4, <2>5, <2>6 DEF FilesInv
<1>2. CASE Unhook
  <2>1. UNCHANGED <<file, open, tpc, confused>> /\ context' = [context EXCEPT ![adev] = Null]
    BY <1>2 DEF Unhook
  <2>2. /\ todo \in EndUnhook /\ todo # BeginHook /\ todo # EndClose /\ todo' = EndClose
        /\ UNCHANGED <<asaver, adev>>
    <3>1. Doing("unhook")
      BY <1>2 DEF Unhook
    <3>2. todo = <<"unhook", "close", "forget">> /\ todo' = <<"close", "forget">>
          /\ UNCHANGED <<asaver, adev>>
      BY <3>1, DoingIs
    <3>3. QED
      BY <3>2 DEF EndUnhook, EndClose, BeginHook
  <2>3. Numbered' /\ FilesStarted'
    BY <2>1 DEF FilesInv, Numbered, FilesStarted, Started
  <2>4. ~confused' => NoFileLeaked'
    BY <2>1 DEF FilesInv, NoFileLeaked
  <2>5. ~confused' => OpenIsHooked'
    <3>1. SUFFICES ASSUME ~confused', NEW s \in Savers, file[s] \in open, s # asaver
                   PROVE  \E d \in Devices : context'[d] = s
      BY <2>1, <2>2 DEF OpenIsHooked
    <3>2. PICK d \in Devices : context[d] = s
      BY <2>1, <2>2, <3>1 DEF FilesInv, OpenIsHooked
    <3>3. d # adev
      BY <1>n, <2>1, <2>2, <3>1, <3>2 DEF FilesInv, CallKnows
    <3>4. QED
      BY <2>1, <3>2, <3>3 DEF BasicInv, TypeOK
  <2>6. CallKnows'
    BY <2>2 DEF CallKnows, AfterClose, EndUnhook, BeginHook, BeginRest, EndClose
  <2>7. QED
    BY <2>3, <2>4, <2>5, <2>6 DEF FilesInv
<1>3. CASE Close
  <2>1. UNCHANGED <<file, context, tpc, confused>> /\ open' = open \ {file[asaver]}
    BY <1>3 DEF Close
  <2>2. /\ todo # BeginHook /\ todo' \in AfterClose /\ todo' # BeginHook /\ todo' # EndClose
        /\ UNCHANGED <<asaver, adev>>
    <3>1. Doing("close")
      BY <1>3 DEF Close
    <3>2. /\ \/ /\ todo = <<"close", "forget", "zeroHead", "zeroTail", "zeroCount", "idle">>
                /\ todo' = <<"forget", "zeroHead", "zeroTail", "zeroCount", "idle">>
             \/ todo = <<"close", "forget">> /\ todo' = <<"forget">>
          /\ UNCHANGED <<asaver, adev>>
      BY <3>1, DoingIs
    <3>3. QED
      BY <3>2 DEF EndClose, BeginHook, AfterClose
  <2>3. Numbered' /\ FilesStarted'
    BY <2>1 DEF FilesInv, Numbered, FilesStarted, Started
  <2>4. ~confused' => NoFileLeaked'
    BY <2>1 DEF FilesInv, NoFileLeaked
  <2>5. ~confused' => OpenIsHooked'
    BY <2>1, <2>2 DEF FilesInv, OpenIsHooked
  <2>6. CallKnows'
    BY <2>1, <2>2 DEF CallKnows, AfterClose, EndUnhook, BeginHook, BeginRest
  <2>7. QED
    BY <2>3, <2>4, <2>5, <2>6 DEF FilesInv
<1>4. CASE Forget
  <2>1. UNCHANGED <<open, context, tpc, confused>> /\ file' = [file EXCEPT ![asaver] = 0]
    BY <1>4 DEF Forget
  <2>2. /\ todo \in AfterClose /\ todo \notin {BeginHook, EndClose}
        /\ todo' \notin {BeginHook, EndClose} \cup BeginRest \cup EndUnhook \cup AfterClose
    <3>1. Doing("forget")
      BY <1>4 DEF Forget
    <3>2. \/ /\ todo = <<"forget", "zeroHead", "zeroTail", "zeroCount", "idle">>
             /\ todo' = <<"zeroHead", "zeroTail", "zeroCount", "idle">>
          \/ todo = <<"forget">> /\ todo' = <<>>
      BY <3>1, DoingIs
    <3>3. todo \in AfterClose /\ todo \notin {BeginHook, EndClose}
      BY <3>2 DEF EndClose, BeginHook, AfterClose
    <3>4. CASE todo' = <<>>
      BY <3>3, <3>4 DEF EndClose, BeginHook, AfterClose, BeginRest, EndUnhook
    <3>5. CASE todo' = <<"zeroHead", "zeroTail", "zeroCount", "idle">>
      BY <3>3, <3>5 DEF EndClose, BeginHook, AfterClose, BeginRest, EndUnhook
    <3>6. QED
      BY <3>2, <3>4, <3>5
  <2>3. Numbered' /\ FilesStarted'
    BY <1>s, <2>1 DEF FilesInv, Numbered, FilesStarted, Started, BasicInv, TypeOK
  <2>4. /\ \A s \in Savers \ {asaver} : file'[s] = file[s]
        /\ file'[asaver] = 0 /\ 0 \notin open
    BY <2>1 DEF BasicInv, TypeOK, Sessions
  <2>5. ~confused' => file[asaver] \notin open
    BY <2>1, <2>2 DEF FilesInv, CallKnows
  <2>6. ~confused' => NoFileLeaked'
    BY <2>1, <2>4, <2>5 DEF FilesInv, NoFileLeaked
  <2>7. ~confused' => OpenIsHooked'
    BY <2>1, <2>2, <2>4 DEF FilesInv, OpenIsHooked
  <2>8. CallKnows'
    BY <2>2 DEF CallKnows
  <2>9. QED
    BY <2>3, <2>6, <2>7, <2>8 DEF FilesInv
<1>5. CASE Hook
  <2>1. UNCHANGED <<file, open, tpc, confused>> /\ context' = [context EXCEPT ![adev] = asaver]
    BY <1>5 DEF Hook
  <2>2. /\ todo = BeginHook /\ todo' \in BeginRest /\ todo # EndClose
        /\ todo' \notin {BeginHook, EndClose} \cup EndUnhook \cup AfterClose
        /\ UNCHANGED <<asaver, adev>>
    <3>1. Doing("hook")
      BY <1>5 DEF Hook
    <3>2. /\ todo = <<"hook", "zeroHead", "zeroTail", "zeroCount", "run", "start">>
          /\ todo' = <<"zeroHead", "zeroTail", "zeroCount", "run", "start">>
          /\ UNCHANGED <<asaver, adev>>
      BY <3>1, DoingIs
    <3>3. QED
      BY <3>2 DEF EndClose, BeginHook, AfterClose, BeginRest, EndUnhook
  <2>3. Numbered' /\ FilesStarted'
    BY <2>1 DEF FilesInv, Numbered, FilesStarted, Started
  <2>4. ~confused' => NoFileLeaked'
    BY <2>1 DEF FilesInv, NoFileLeaked
  <2>5. context'[adev] = asaver /\ \A d \in Devices \ {adev} : context'[d] = context[d]
    BY <1>s, <2>1 DEF BasicInv, TypeOK
  <2>6. ~confused' => OpenIsHooked'
    <3>1. SUFFICES ASSUME ~confused', NEW s \in Savers, file[s] \in open, s # asaver
                   PROVE  \E d \in Devices : context'[d] = s
      BY <1>s, <2>1, <2>5 DEF OpenIsHooked
    <3>2. PICK d \in Devices : context[d] = s
      BY <2>1, <2>2, <3>1 DEF FilesInv, OpenIsHooked
    <3>3. file[s] # 0
      BY <3>1 DEF BasicInv, TypeOK, Sessions
    <3>4. d # adev
      BY <1>n, <2>1, <2>2, <3>1, <3>2, <3>3 DEF FilesInv, CallKnows
    <3>5. QED
      BY <2>5, <3>2, <3>4
  <2>7. CallKnows'
    BY <2>2, <2>5 DEF CallKnows
  <2>8. QED
    BY <2>3, <2>4, <2>6, <2>7 DEF FilesInv
<1>6. CASE ZeroHead \/ ZeroTail \/ ZeroCount \/ Run
  <2>1. UNCHANGED <<file, open, context, tpc, confused>>
    BY <1>6 DEF ZeroHead, ZeroTail, ZeroCount, Zero, Run
  <2>2. /\ todo \notin {BeginHook, EndClose}
        /\ todo' \notin {BeginHook, EndClose} \cup EndUnhook \cup AfterClose
        /\ todo' \in BeginRest => todo \in BeginRest /\ UNCHANGED <<asaver, adev>>
    <3>1. PICK step \in {"zeroHead", "zeroTail", "zeroCount", "run"} : Doing(step)
      BY <1>6 DEF ZeroHead, ZeroTail, ZeroCount, Zero, Run
    <3>2. CASE /\ todo \in {<<"zeroHead", "zeroTail", "zeroCount", "idle">>,
                           <<"zeroTail", "zeroCount", "idle">>, <<"zeroCount", "idle">>}
               /\ todo' \in {<<"zeroTail", "zeroCount", "idle">>, <<"zeroCount", "idle">>,
                             <<"idle">>}
      <4>1. todo \notin {BeginHook, EndClose}
        BY <3>2 DEF BeginHook, EndClose
      <4>2. todo' \notin {BeginHook, EndClose} \cup EndUnhook \cup AfterClose \cup BeginRest
        BY <3>2 DEF BeginHook, EndClose, EndUnhook, AfterClose, BeginRest
      <4>3. QED
        BY <4>1, <4>2
    <3>3. CASE todo \in BeginRest /\ todo' \in BeginRest /\ UNCHANGED <<asaver, adev>>
      <4>1. todo \notin {BeginHook, EndClose}
        BY <3>3 DEF BeginHook, EndClose, BeginRest
      <4>2. todo' \notin {BeginHook, EndClose} \cup EndUnhook \cup AfterClose
        BY <3>3 DEF BeginHook, EndClose, EndUnhook, AfterClose, BeginRest
      <4>3. QED
        BY <3>3, <4>1, <4>2
    <3>4. QED
      BY <3>1, <3>2, <3>3, DoingIs DEF BeginRest
  <2>3. Numbered' /\ FilesStarted'
    BY <2>1 DEF FilesInv, Numbered, FilesStarted, Started
  <2>4. ~confused' => NoFileLeaked'
    BY <2>1 DEF FilesInv, NoFileLeaked
  <2>5. ~confused' => OpenIsHooked'
    BY <2>1, <2>2 DEF FilesInv, OpenIsHooked
  <2>6. ~confused' => CallKnows'
    BY <2>1, <2>2 DEF FilesInv, CallKnows
  <2>7. QED
    BY <2>3, <2>4, <2>5, <2>6 DEF FilesInv
<1>7. CASE Start
  <2>1. /\ UNCHANGED <<file, open, context, confused>>
        /\ tpc' = [tpc EXCEPT ![file[asaver]] = "begin"]
    BY <1>7 DEF Start
  <2>2. todo \notin {BeginHook, EndClose} /\ todo' = <<>>
    BY <1>7, DoingIs DEF Start, EndClose, BeginHook
  <2>3. Started' = Started
    <3>1. tpc' = [tpc EXCEPT ![file[asaver]] = "begin"] /\ "begin" # "none"
      BY <2>1
    <3>2. file[asaver] \in Started \/ file[asaver] \notin Sessions
      BY <1>s DEF Sessions
    <3>3. QED
      BY <3>1, <3>2, StartedStays
  <2>4. Numbered' /\ FilesStarted'
    BY <2>1, <2>3 DEF FilesInv, Numbered, FilesStarted
  <2>5. ~confused' => NoFileLeaked'
    BY <2>1 DEF FilesInv, NoFileLeaked
  <2>6. ~confused' => OpenIsHooked'
    BY <2>1, <2>2 DEF FilesInv, OpenIsHooked
  <2>7. CallKnows'
    BY <2>2 DEF CallKnows, AfterClose, EndUnhook, BeginHook, BeginRest
  <2>8. QED
    BY <2>4, <2>5, <2>6, <2>7 DEF FilesInv
<1>8. CASE StartFails
  <2>1. /\ UNCHANGED confused
        /\ tpc' = [tpc EXCEPT ![file[asaver]] = "ended"]
        /\ open' = open \ {file[asaver]} /\ file' = [file EXCEPT ![asaver] = 0]
        /\ context' = [context EXCEPT ![adev] = Null]
    BY <1>8 DEF StartFails
  <2>2. todo \in BeginRest /\ todo \notin {BeginHook, EndClose} /\ todo' = <<>>
    <3>1. Doing("start")
      BY <1>8 DEF StartFails
    <3>2. todo = <<"start">> /\ todo' = <<>>
      BY <3>1, DoingIs
    <3>3. QED
      BY <3>2 DEF EndClose, BeginHook, BeginRest
  <2>3. Started' = Started
    <3>1. tpc' = [tpc EXCEPT ![file[asaver]] = "ended"] /\ "ended" # "none"
      BY <2>1
    <3>2. file[asaver] \in Started \/ file[asaver] \notin Sessions
      BY <1>s DEF Sessions
    <3>3. QED
      BY <3>1, <3>2, StartedStays
  <2>4. Numbered' /\ FilesStarted'
    BY <1>s, <2>1, <2>3 DEF FilesInv, Numbered, FilesStarted, BasicInv, TypeOK
  <2>5. /\ \A s \in Savers \ {asaver} : file'[s] = file[s]
        /\ file'[asaver] = 0 /\ 0 \notin open
        /\ \A d \in Devices \ {adev} : context'[d] = context[d]
    BY <2>1 DEF BasicInv, TypeOK, Sessions
  <2>6. ~confused' => NoFileLeaked'
    BY <2>1, <2>5 DEF FilesInv, NoFileLeaked
  <2>7. ~confused' => OpenIsHooked'
    <3>1. SUFFICES ASSUME ~confused', NEW s \in Savers, file'[s] \in open', s # asaver
                   PROVE  \E d \in Devices : context'[d] = s
      BY <2>1, <2>5 DEF OpenIsHooked
    <3>2. PICK d \in Devices : context[d] = s
      BY <2>1, <2>2, <2>5, <3>1 DEF FilesInv, OpenIsHooked
    <3>3. d # adev
      BY <2>1, <2>2, <3>1, <3>2 DEF FilesInv, CallKnows
    <3>4. QED
      BY <2>5, <3>2, <3>3
  <2>8. CallKnows'
    BY <2>2 DEF CallKnows, AfterClose, EndUnhook, BeginHook, BeginRest
  <2>9. QED
    BY <2>4, <2>6, <2>7, <2>8 DEF FilesInv
<1>9. QED
  BY <1>1, <1>2, <1>3, <1>4, <1>5, <1>6, <1>7, <1>8 DEF Continue

\* Every step keeps it.
LEMMA FilesInvStep == BasicInv /\ FilesInv /\ [Next]_vars => FilesInv'
<1> SUFFICES ASSUME BasicInv, FilesInv, [Next]_vars PROVE FilesInv'
  OBVIOUS
<1>1. CASE UNCHANGED vars
  <2>1. UNCHANGED <<file, open, context, program, confused, tpc>>
    BY <1>1 DEF vars, saverVars, threads, disk, history
  <2>2. Started' = Started
    BY <2>1 DEF Started
  <2>3. QED
    BY <2>1, <2>2, FilesFrame
<1>2. ASSUME NEW s \in Savers, CallInit(s) \/ CallDestroy(s) PROVE FilesInv'
  <2>1. PICK d \in Devices : TRUE
    BY SaveAssumption
  <2>2. QED
    BY <1>2, FilesInvCall
<1>3. ASSUME NEW s \in Savers, NEW d \in Devices,
             CallBegin(s, d) \/ CallBeginFails(s, d) \/ CallEnd(s, d)
      PROVE  FilesInv'
  BY <1>3, FilesInvCall
<1>4. QED
  BY <1>1, <1>2, <1>3, FilesInvContinue, FilesInvTasks DEF Next, Program

\* The sessions are numbered, and a saver knows each open file.
LEMMA FilesInvariance == Spec => []FilesInv
  BY FilesInvInit, FilesInvStep, BasicInvariance, PTL DEF Spec

\* A FILE that is open is the file of a saver, so that a later call can close it,
\* until a saver is given another device than the one it serves.
THEOREM FilesCanBeClosed == Spec => []NoFileLeaked
<1>1. FilesInv => NoFileLeaked
  BY DEF FilesInv, NoFileLeaked
<1>2. QED
  BY <1>1, FilesInvariance, PTL

-----------------------------------------------------------------------------
(* The inductive invariant, of the programs that are Clean.                *)
(*                                                                         *)
(* A ring is read as the queue that it stands for: a push is in it as soon *)
(* as its slot is written, a pop is out of it as soon as tail has moved.   *)

At(t, k) == (t + k) % QueueLength

\* A push that has written its slot will count it, or will move tail.
Adding(s)      == Pushing(s, Written) /\ count[s] < QueueLength
Overwriting(s) == Pushing(s, Written) /\ count[s] >= QueueLength

Base(s) == IF Overwriting(s) THEN Succ(tail[s]) ELSE tail[s]
Size(s) == IF Adding(s) THEN Held(s) + 1 ELSE Held(s)
Top(s)  == IF Pushing(s, {"bump"}) THEN Succ(head[s]) ELSE head[s]
Entry(s, k) == slots[s][At(Base(s), k)]     \* the k-th oldest packet in the ring
InRing(s) == {Entry(s, k) : k \in 0 .. Size(s) - 1}

Beginning == {BeginHook} \cup BeginRest

\* Who is at which ring: a file is that of the session its saver serves, one
\* thread is alive, and it is the thread of the session its saver has; the one
\* session that is opened is that of the fs_save_begin_device in progress.
ThreadInv ==
    /\ \A t, u \in Sessions : Alive(t) /\ Alive(u) => t = u
    /\ \A t \in Sessions : Alive(t) => file[tsaver[t]] \in {t, 0}
    /\ todo \in Beginning =>
           file[asaver] # 0 /\ tpc[file[asaver]] = "opened" /\ ~Draining(asaver)
    /\ \A t \in Sessions : tpc[t] = "opened" => todo \in Beginning /\ t = file[asaver]
    /\ todo \in InitZero => file[asaver] = 0
    /\ \A s \in Savers : Resetting(s) => ~Draining(s)

OwnerInv == \A s \in Savers : file[s] # 0 => tsaver[file[s]] = s

\* No saver is the saver of two devices.
ContextInv ==
    /\ \A d, e \in Devices : context[d] = context[e] /\ context[d] # Null => d = e
    /\ todo = BeginHook => \A e \in Devices : context[e] = asaver => e = adev

\* The places of a ring, but for one that is being reset.
RingOK(s) ==
    /\ count[s] <= QueueLength
    /\ Resetting(s) => ~Pushing(s, PushPlaces) /\ head[s] = 0
    /\ Resetting(s) /\ Head(todo) = "zeroCount" => tail[s] = 0
    /\ ~Resetting(s) => Top(s) = At(Base(s), Size(s))

\* What a push holds of the ring, and that the session there is of its device.
PushOK(d) ==
    LET s == savedTo[d] IN
    at[d] \in PushPlaces =>
        /\ \A e \in Devices : at[e] \in PushPlaces /\ savedTo[e] = s => e = d
        /\ at[d] \in {"fill", "bump"} => pindex[d] = head[s]
        /\ at[d] = "add" => count[s] < QueueLength
        /\ at[d] \in {"oldest", "drop"} => count[s] = QueueLength
        /\ at[d] = "drop" => pindex[d] = tail[s]
        /\ at[d] \in Written => Entry(s, Size(s) - 1) = offered[d]
        /\ Listening(s) => /\ \A e \in Devices : context[e] = s => e = d
                           /\ \A p \in accepted[file[s]] : from[p] = d

\* What a pop holds of it.
PopOK(t) ==
    LET s == tsaver[t] IN
    tpc[t] \in PopPlaces =>
        /\ count[s] > 0 /\ ~Overwriting(s)
        /\ tpc[t] \in {"copy", "commit"} => ttail[t] = tail[s]
        /\ tpc[t] = "commit" => tpacket[t] = slots[s][tail[s]]

RingInv ==
    /\ \A s \in Savers : RingOK(s)
    /\ \A d \in Devices : PushOK(d)
    /\ \A t \in Sessions : PopOK(t)

\* A line is made of the fields of its packet.
LineInv ==
    /\ \A t \in Sessions : tpc[t] = "print" => fbuf = tpacket[t]
    /\ \A t \in Sessions : tpc[t] \in {"test", "write"} => tline[t].fields = tline[t].of

\* A packet that its task has not written to the ring yet is younger than those it has.
Offering(d) == at[d] \notin {"idle"} \cup Written

\* The packets a session has queued are of one device, the one its saver is hooked
\* to, and older than what that device is about to push.
PacketInv ==
    /\ \A d \in Devices : at[d] # "idle" => offered[d] \in 1 .. Len(from) /\ from[offered[d]] = d
    /\ \A f \in Sessions : accepted[f] \subseteq 1 .. Len(from)
    /\ \A f \in Sessions, d \in Devices : Offering(d) =>
           \A p \in accepted[f] : from[p] = d => p < offered[d]
    /\ \A f \in Sessions : \A p, q \in accepted[f] : from[p] = from[q]
    /\ \A s \in Savers, d \in Devices : file[s] # 0 /\ context[d] = s =>
           \A p \in accepted[file[s]] : from[p] = d

\* The packet in the hands of the thread of session f.
Hand(f) ==
    IF tpc[f] \in {"uncount", "format", "print"} THEN {tpacket[f]}
    ELSE IF tpc[f] \in {"test", "write"} THEN {tline[f].of} ELSE {}

\* What was queued for session f since its ring was reset can be accounted for,
\* whether or not it is still RUNNING.
Going(f) == f \in open /\ file[tsaver[f]] = f /\ Listening(tsaver[f])

Accounted(f) ==
    accepted[f] = RowsOf(f) \cup Hand(f) \cup InRing(tsaver[f]) \cup dropped[f]

\* Row, hand and ring are in the order of arrival.
Ascending(f) ==
    LET s == tsaver[f] IN
    /\ \A j, k \in 0 .. Size(s) - 1 : j < k => Entry(s, j) < Entry(s, k)
    /\ \A p \in Hand(f), q \in InRing(s) : p < q
    /\ \A r \in RowsOf(f), q \in Hand(f) \cup InRing(s) : r < q

RowsInv(f) ==
    /\ \A i \in DOMAIN rows[f] :
           rows[f][i].of \in accepted[f] /\ rows[f][i].fields = rows[f][i].of
    /\ \A i, j \in DOMAIN rows[f] : i < j => rows[f][i].of < rows[f][j].of

\* No session has taken a packet before its ring is reset.
Unheard(f) == tpc[f] = "none" \/ (tpc[f] = "opened" /\ todo \notin AfterReset)

SessionOK(f) ==
    /\ Unheard(f) => accepted[f] = {} /\ dropped[f] = {}
    /\ tpc[f] \in {"none", "opened"} => rows[f] = <<>>
    /\ RowsInv(f)
    /\ Going(f) => Accounted(f) /\ Ascending(f)

SessionInv == \A f \in Sessions : SessionOK(f)

CleanInv == ThreadInv /\ ContextInv /\ RingInv /\ LineInv /\ PacketInv /\ SessionInv

SaveInv == OwnerInv /\ (Clean => CleanInv)
-----------------------------------------------------------------------------
(* The places of a ring.                                                   *)

\* A place is a slot, one lap back past the end.
LEMMA AtIs ==
    ASSUME NEW t \in Slots, NEW k \in 0 .. QueueLength
    PROVE  /\ At(t, k) = IF t + k < QueueLength THEN t + k ELSE t + k - QueueLength
           /\ At(t, k) \in Slots
<1> USE RingSize
<1>1. CASE t + k < QueueLength
  BY <1>1 DEF At, Slots
<1>2. CASE t + k >= QueueLength
  <2>1. t + k >= QueueLength /\ t + k < 2 * QueueLength
    BY <1>2 DEF Slots
  <2>2. (t + k) % QueueLength = t + k - QueueLength
    BY <2>1 DEF Slots
  <2>3. QED
    BY <2>1, <2>2 DEF At, Slots
<1>3. t + k < QueueLength \/ t + k >= QueueLength
  BY DEF Slots
<1>4. QED
  BY <1>1, <1>2, <1>3

\* The next slot, without the remainder.
LEMMA SuccIs ==
    ASSUME NEW i \in Slots
    PROVE  Succ(i) = IF i + 1 < QueueLength THEN i + 1 ELSE 0
<1> USE RingSize
<1>1. CASE i + 1 < QueueLength
  BY <1>1 DEF Succ, Slots
<1>2. CASE i + 1 = QueueLength
  BY <1>2 DEF Succ, Slots
<1>3. QED
  BY <1>1, <1>2 DEF Slots

\* Moving tail on by one shifts the places by one, and so does moving head.
LEMMA AtOfSucc ==
    ASSUME NEW t \in Slots, NEW k \in 0 .. QueueLength - 1
    PROVE  /\ At(Succ(t), k) = At(t, k + 1)
           /\ Succ(At(t, k)) = At(t, k + 1)
<1>1. /\ k \in 0 .. QueueLength /\ k + 1 \in 0 .. QueueLength
      /\ Succ(t) \in Slots /\ At(t, k) \in Slots
  BY RingSize, SuccIsSlot, AtIs
<1>2. /\ At(Succ(t), k) = IF Succ(t) + k < QueueLength THEN Succ(t) + k
                          ELSE Succ(t) + k - QueueLength
      /\ At(t, k) = IF t + k < QueueLength THEN t + k ELSE t + k - QueueLength
      /\ At(t, k + 1) = IF t + (k + 1) < QueueLength THEN t + (k + 1)
                        ELSE t + (k + 1) - QueueLength
  BY <1>1, AtIs
<1>3. /\ Succ(t) = IF t + 1 < QueueLength THEN t + 1 ELSE 0
      /\ Succ(At(t, k)) = IF At(t, k) + 1 < QueueLength THEN At(t, k) + 1 ELSE 0
  BY <1>1, SuccIs
<1>4. QED
  BY <1>2, <1>3, RingSize DEF Slots

\* A lap leads back to t, and the places of a lap are different slots.
LEMMA AtLap ==
    ASSUME NEW t \in Slots
    PROVE  /\ At(t, 0) = t /\ At(t, QueueLength) = t
           /\ \A j, k \in 0 .. QueueLength - 1 : j # k => At(t, j) # At(t, k)
<1>1. 0 \in 0 .. QueueLength /\ QueueLength \in 0 .. QueueLength
  BY RingSize
<1>2. At(t, 0) = t /\ At(t, QueueLength) = t
  BY <1>1, AtIs, RingSize DEF Slots
<1>3. ASSUME NEW j \in 0 .. QueueLength - 1, NEW k \in 0 .. QueueLength - 1, j # k
      PROVE  At(t, j) # At(t, k)
  <2>1. j \in 0 .. QueueLength /\ k \in 0 .. QueueLength
    BY RingSize
  <2>2. /\ At(t, j) = IF t + j < QueueLength THEN t + j ELSE t + j - QueueLength
        /\ At(t, k) = IF t + k < QueueLength THEN t + k ELSE t + k - QueueLength
    BY <2>1, AtIs
  <2>3. QED
    BY <1>3, <2>2, RingSize DEF Slots
<1>4. QED
  BY <1>2, <1>3

\* What a ring holds fits into it.
LEMMA RingBounds ==
    ASSUME BasicInv, RingInv, NEW s \in Savers
    PROVE  /\ Size(s) \in 0 .. QueueLength
           /\ Held(s) \in 0 .. QueueLength
           /\ Adding(s) => Held(s) \in 0 .. QueueLength - 1
           /\ count[s] \in 0 .. QueueLength /\ count[s] \in 0 .. Modulus - 1
           /\ Base(s) \in Slots /\ Top(s) \in Slots
           /\ head[s] \in Slots /\ tail[s] \in Slots
<1>1. /\ count[s] \in 0 .. QueueLength /\ count[s] \in 0 .. Modulus - 1
      /\ head[s] \in Slots /\ tail[s] \in Slots
  BY RingSize DEF BasicInv, TypeOK, RingInv, RingOK
<1>2. Popping(s, {"uncount"}) => count[s] > 0
  BY DEF Popping, RingInv, PopOK, PopPlaces
<1>3. Held(s) \in 0 .. QueueLength /\ Held(s) <= count[s]
  BY <1>1, <1>2, RingSize DEF Held
<1>4. Adding(s) => Held(s) \in 0 .. QueueLength - 1
  BY <1>1, <1>3, RingSize DEF Adding
<1>5. Size(s) \in 0 .. QueueLength
  BY <1>3, <1>4, RingSize DEF Size
<1>6. Base(s) \in Slots /\ Top(s) \in Slots
  BY <1>1, SuccIsSlot DEF Base, Top
<1>7. QED
  BY <1>1, <1>3, <1>4, <1>5, <1>6

-----------------------------------------------------------------------------
(* What each part of the invariant depends on.                             *)

\* A step to a Clean state comes from one.
LEMMA CleanBefore == BasicInv /\ [Next]_vars /\ Clean' => Clean
  BY FlagsAreSticky DEF Clean

\* The queue in the ring of saver s stays what it is.
Kept(s) ==
    /\ Top(s)' = Top(s) /\ Base(s)' = Base(s) /\ Size(s)' = Size(s)
    /\ slots'[s] = slots[s]

\* So do its packets.
LEMMA KeptEntries ==
    ASSUME NEW s, Kept(s)
    PROVE  (\A k : Entry(s, k)' = Entry(s, k)) /\ InRing(s)' = InRing(s)
<1>1. \A k : Entry(s, k)' = Entry(s, k)
  BY DEF Kept, Entry, At
<1>2. QED
  BY <1>1 DEF Kept, InRing

\* A ring that no step touches, and that the same pushes and pops are at, is kept.
LEMMA RingKept ==
    ASSUME NEW s, UNCHANGED <<head[s], tail[s], count[s], slots[s]>>,
           Pushing(s, {"bump"})' <=> Pushing(s, {"bump"}),
           Pushing(s, Written)' <=> Pushing(s, Written),
           Popping(s, {"uncount"})' <=> Popping(s, {"uncount"})
    PROVE  /\ Kept(s)
           /\ Overwriting(s)' <=> Overwriting(s)
<1>1. (Adding(s)' <=> Adding(s)) /\ (Overwriting(s)' <=> Overwriting(s))
  BY DEF Adding, Overwriting
<1>2. Held(s)' = Held(s)
  BY DEF Held
<1>3. Top(s)' = Top(s)
  BY DEF Top, Succ
<1>4. Base(s)' = Base(s)
  BY <1>1 DEF Base, Succ
<1>5. Size(s)' = Size(s)
  BY <1>1, <1>2 DEF Size
<1>6. QED
  BY <1>1, <1>3, <1>4, <1>5 DEF Kept

\* A step that goes on in the call, or out of it, and leaves threads and files.
LEMMA ThreadFrame ==
    ASSUME ThreadInv, UNCHANGED <<tpc, tsaver, file>>,
           \/ UNCHANGED program
           \/ /\ todo' \notin InitZero /\ \A s \in Savers : ~Resetting(s)'
              /\ todo' \in Beginning <=> todo \in Beginning
              /\ todo \in Beginning => UNCHANGED asaver
    PROVE  ThreadInv'
  BY DEF ThreadInv, Alive, Draining, Resetting, program

\* A step of a thread: it stays alive or ends.
LEMMA ThreadFrameMove ==
    ASSUME BasicInv, ThreadInv, UNCHANGED <<tsaver, file, program>>,
           NEW t \in Sessions, Alive(t), NEW pc, pc # "opened", tpc' = [tpc EXCEPT ![t] = pc]
    PROVE  ThreadInv'
<1>1. \A u \in Sessions : Alive(u)' => Alive(u)
  BY DEF Alive, BasicInv, TypeOK
<1>2. \A u \in Sessions : tpc[u] = "opened" <=> tpc'[u] = "opened"
  BY DEF Alive, BasicInv, TypeOK
<1>3. file[asaver] # 0 => file[asaver] \in Sessions
  BY DEF BasicInv, TypeOK
<1>4. QED
  BY <1>1, <1>2, <1>3 DEF ThreadInv, Draining, Resetting, program

\* A step that hooks and unhooks nothing.
LEMMA ContextFrame ==
    ASSUME ContextInv, UNCHANGED context, todo' # BeginHook \/ UNCHANGED program
    PROVE  ContextInv'
  BY DEF ContextInv, program

\* A step that formats nothing.
LEMMA LineFrame ==
    ASSUME LineInv, UNCHANGED <<fbuf, tpacket, tline>>,
           \A t \in Sessions : tpc'[t] \in {"print", "test", "write"} =>
               tpc'[t] = tpc[t] \/ (tpc[t] = "test" /\ tpc'[t] = "write")
    PROVE  LineInv'
  BY DEF LineInv

\* A step that neither brings nor queues a packet, and hooks no device to a saver
\* that has a file.
LEMMA PacketFrame ==
    ASSUME PacketInv, UNCHANGED <<from, accepted>>,
           \A d \in Devices : at'[d] # "idle" => at[d] # "idle" /\ UNCHANGED offered[d],
           \A d \in Devices : Offering(d)' => Offering(d),
           \A s \in Savers, d \in Devices :
               file'[s] # 0 /\ context'[d] = s => file[s] = file'[s] /\ context[d] = s
    PROVE  PacketInv'
<1>1. \A d \in Devices : Offering(d)' => offered'[d] = offered[d]
  BY DEF Offering
<1>2. QED
  BY <1>1 DEF PacketInv

\* A step that leaves the rows, the hand and the ring of a session.
LEMMA SessionFrame ==
    ASSUME NEW f \in Sessions, SessionOK(f),
           UNCHANGED <<accepted[f], dropped[f], rows[f], Hand(f)>>,
           tpc'[f] \in {"none", "opened"} => tpc[f] \in {"none", "opened"},
           Unheard(f)' => Unheard(f),
           Going(f)' => Going(f) /\ UNCHANGED tsaver[f] /\ Kept(tsaver[f])
    PROVE  SessionOK(f)'
<1>1. RowsInv(f)'
  BY DEF SessionOK, RowsInv
<1>2. ASSUME Going(f)' PROVE Accounted(f)' /\ Ascending(f)'
  <2>1. PICK s : s = tsaver[f]
    OBVIOUS
  <2>2. /\ RowsOf(f)' = RowsOf(f) /\ tsaver'[f] = s /\ Size(s)' = Size(s)
        /\ InRing(s)' = InRing(s) /\ \A k : Entry(s, k)' = Entry(s, k)
    BY <1>2, <2>1, KeptEntries DEF RowsOf, Kept
  <2>3. Accounted(f)'
    BY <1>2, <2>1, <2>2 DEF SessionOK, Accounted
  <2>4. Ascending(f)'
    BY <1>2, <2>1, <2>2 DEF SessionOK, Ascending
  <2>5. QED
    BY <2>3, <2>4
<1>3. QED
  BY <1>1, <1>2 DEF SessionOK

-----------------------------------------------------------------------------
(* The initial states, and whose session a file is.                        *)

\* It holds in zeroed memory.
LEMMA SaveInvInit == Init => SaveInv
<1> SUFFICES ASSUME Init PROVE SaveInv
  OBVIOUS
<1>1. OwnerInv
  BY DEF Init, OwnerInv
<1>2. ThreadInv
  BY DEF Init, ThreadInv, Alive, Draining, Beginning, BeginHook, BeginRest, InitZero, Resetting
<1>3. ContextInv
  BY DEF Init, ContextInv, BeginHook
<1>4. RingInv
  <2>1. 0 \in Slots
    BY RingSize DEF Slots
  <2>2. At(0, 0) = 0
    BY <2>1, AtLap
  <2>3. /\ \A s \in Savers : ~Resetting(s)
        /\ \A s, places : "idle" \notin places => ~Pushing(s, places)
        /\ \A s, places : "none" \notin places => ~Popping(s, places)
    BY DEF Init, Resetting, Pushing, Popping
  <2>4. ASSUME NEW s \in Savers PROVE Top(s) = 0 /\ Base(s) = 0 /\ Size(s) = 0 /\ count[s] = 0
    <3>1. ~Pushing(s, {"bump"}) /\ ~Pushing(s, Written) /\ ~Popping(s, {"uncount"})
      BY <2>3 DEF Written
    <3>2. ~Adding(s) /\ ~Overwriting(s) /\ Held(s) = count[s]
      BY <3>1 DEF Adding, Overwriting, Held
    <3>3. QED
      BY <3>1, <3>2 DEF Top, Base, Size, Init
  <2>5. \A s \in Savers : RingOK(s)
    BY <2>2, <2>3, <2>4, RingSize DEF RingOK
  <2>6. \A d \in Devices : PushOK(d)
    BY DEF Init, PushOK, PushPlaces, Written, Unwritten
  <2>7. \A t \in Sessions : PopOK(t)
    BY DEF Init, PopOK, PopPlaces
  <2>8. QED
    BY <2>5, <2>6, <2>7 DEF RingInv
<1>5. LineInv
  BY DEF Init, LineInv
<1>6. PacketInv
  BY DEF Init, PacketInv, Offering
<1>7. SessionInv
  BY DEF Init, SessionInv, SessionOK, RowsInv, Going
<1>8. QED
  BY <1>1, <1>2, <1>3, <1>4, <1>5, <1>6, <1>7 DEF SaveInv, CleanInv

\* A saver's file stays the file of a session of that saver.
LEMMA OwnerInvStep == BasicInv /\ FilesInv /\ OwnerInv /\ [Next]_vars => OwnerInv'
<1> SUFFICES ASSUME BasicInv, FilesInv, OwnerInv, [Next]_vars PROVE OwnerInv'
  OBVIOUS
<1> USE DEF saverVars, threads
<1>1. ASSUME UNCHANGED <<file, tsaver>> PROVE OwnerInv'
  BY <1>1 DEF OwnerInv
<1>2. ASSUME NEW s \in Savers, file' = [file EXCEPT ![s] = 0], UNCHANGED tsaver PROVE OwnerInv'
  BY <1>2 DEF OwnerInv, BasicInv, TypeOK
<1>3. ASSUME NEW s \in Savers, NEW d \in Devices, CallBegin(s, d) PROVE OwnerInv'
  <2>1. /\ NextSession \in Sessions /\ file' = [file EXCEPT ![s] = NextSession]
        /\ tsaver' = [tsaver EXCEPT ![NextSession] = s]
    BY <1>3 DEF CallBegin
  <2>2. NextSession \notin Started /\ NextSession # 0
    BY <2>1, NextIsFresh DEF FilesInv
  <2>3. \A r \in Savers \ {s} : file'[r] = file[r] /\ file[r] # NextSession
    BY <2>1, <2>2 DEF FilesInv, FilesStarted, BasicInv, TypeOK
  <2>4. QED
    BY <2>1, <2>3 DEF OwnerInv, BasicInv, TypeOK
<1>4. CASE Program
  <2>1. ASSUME NEW s \in Savers,
               CallInit(s) \/ CallDestroy(s) \/ \E d \in Devices : CallEnd(s, d)
        PROVE OwnerInv'
    BY <1>1, <2>1 DEF CallInit, CallDestroy, CallEnd
  <2>2. ASSUME NEW s \in Savers, NEW d \in Devices, CallBeginFails(s, d) PROVE OwnerInv'
    BY <1>2, <2>2 DEF CallBeginFails
  <2>3. CASE Stop \/ Unhook \/ Close \/ Hook \/ ZeroHead \/ ZeroTail \/ ZeroCount \/ Run \/ Start
    BY <1>1, <2>3 DEF Stop, Unhook, Close, Hook, ZeroHead, ZeroTail, ZeroCount, Zero, Run, Start
  <2>4. CASE Forget \/ StartFails
    BY <1>2, <2>4 DEF Forget, StartFails, BasicInv, TypeOK
  <2>5. QED
    BY <1>3, <1>4, <2>1, <2>2, <2>3, <2>4 DEF Program, Continue
<1>5. ASSUME NEW d \in Devices, BackgroundTask(d) PROVE OwnerInv'
  BY <1>1, <1>5, TaskLeaves
<1>6. ASSUME NEW t \in Sessions, Thread(t) PROVE OwnerInv'
  BY <1>1, <1>6, ThreadLeaves
<1>7. CASE UNCHANGED vars
  BY <1>1, <1>7 DEF vars
<1>8. QED
  BY <1>4, <1>5, <1>6, <1>7 DEF Next

\* No two savers have one file.
LEMMA FileIsOne ==
    ASSUME OwnerInv, NEW r \in Savers, NEW s \in Savers, file[r] = file[s], file[s] # 0
    PROVE  r = s
  BY DEF OwnerInv

-----------------------------------------------------------------------------
(* The calls of the program.                                               *)

\* The places in which a thread has a pop, or a packet, in its hands.
Busy == ThreadPlaces \ {"none", "opened", "begin", "loop", "take", "ended"}

\* A step that leaves rings and tasks alone, and threads that are at work; what it
\* must show is whose saver listens, and to whom.
LEMMA CleanFrame ==
    ASSUME BasicInv, CleanInv, ThreadInv', ContextInv', PacketInv',
           UNCHANGED <<ringVars, background, ttail, tpacket, tline, fbuf, rows, received>>,
           \A t \in Sessions : tpc[t] \in Busy \/ tpc'[t] \in Busy =>
               UNCHANGED <<tpc[t], tsaver[t]>>,
           \A s \in Savers : ~Resetting(s) /\ ~Resetting(s)',
           \A s \in Savers : Listening(s)' =>
               /\ Listening(s) /\ UNCHANGED file[s]
               /\ \A d \in Devices : context'[d] = s => context[d] = s,
           \A f \in Sessions :
               /\ tpc'[f] \in {"none", "opened"} => tpc[f] \in {"none", "opened"}
               /\ Unheard(f)' => Unheard(f)
               /\ Going(f)' => Going(f) /\ UNCHANGED tsaver[f]
    PROVE  CleanInv'
<1> USE DEF ringVars, background, received
<1>1. /\ {"uncount"} \subseteq Busy /\ PopPlaces \subseteq Busy
      /\ {"format", "print", "test", "write"} \subseteq Busy
  BY DEF Busy, PopPlaces, ThreadPlaces
<1>2. \A s, places : Pushing(s, places)' <=> Pushing(s, places)
  BY DEF Pushing
<1>3. \A s : Popping(s, {"uncount"})' <=> Popping(s, {"uncount"})
  BY <1>1 DEF Popping
<1>4. \A s \in Savers : Kept(s) /\ (Overwriting(s)' <=> Overwriting(s))
  BY <1>2, <1>3, RingKept
<1>5. ASSUME NEW s \in Savers PROVE RingOK(s)'
  <2>1. RingOK(s) /\ Kept(s) /\ ~Resetting(s) /\ ~Resetting(s)'
    BY <1>4, <1>5 DEF CleanInv, RingInv
  <2>2. QED
    BY <2>1 DEF RingOK, Kept, At
<1>6. ASSUME NEW d \in Devices PROVE PushOK(d)'
  <2>1. PICK s \in Savers : s = savedTo[d]
    BY DEF BasicInv, TypeOK
  <2>2. PushOK(d) /\ savedTo'[d] = s /\ Kept(s) /\ \A k : Entry(s, k)' = Entry(s, k)
    BY <1>4, <2>1, KeptEntries DEF CleanInv, RingInv
  <2>3. at[d] \in PushPlaces /\ Listening(s)' =>
            /\ \A e \in Devices : context'[e] = s => e = d
            /\ \A p \in accepted'[file'[s]] : from'[p] = d
    BY <2>1, <2>2 DEF PushOK
  <2>4. QED
    BY <2>1, <2>2, <2>3 DEF PushOK, Kept
<1>7. ASSUME NEW t \in Sessions PROVE PopOK(t)'
  <2>1. CASE tpc'[t] \in PopPlaces
    <3>1. PICK s \in Savers : s = tsaver[t]
      BY DEF BasicInv, TypeOK
    <3>2. tpc'[t] = tpc[t] /\ tsaver'[t] = s /\ (Overwriting(s)' <=> Overwriting(s)) /\ PopOK(t)
      BY <1>1, <1>4, <2>1, <3>1 DEF CleanInv, RingInv
    <3>3. QED
      BY <3>1, <3>2 DEF PopOK
  <2>2. QED
    BY <2>1 DEF PopOK
<1>8. RingInv'
  BY <1>5, <1>6, <1>7 DEF RingInv
<1>9. LineInv'
  BY <1>1, LineFrame DEF CleanInv
<1>10. ASSUME NEW f \in Sessions PROVE SessionOK(f)'
  <2>1. Hand(f)' = Hand(f)
    BY <1>1 DEF Hand
  <2>2. Going(f)' => Kept(tsaver[f])
    BY <1>4 DEF BasicInv, TypeOK
  <2>3. QED
    BY <2>1, <2>2, SessionFrame DEF CleanInv, SessionInv
<1>11. QED
  BY <1>8, <1>9, <1>10 DEF CleanInv, SessionInv

\* A step of a call that is none of FS_RINGBUFFER_INIT.
LEMMA GoingOn ==
    ASSUME BasicInv, NEW step, Doing(step), step \notin {"zeroHead", "zeroTail", "zeroCount"}
    PROVE  /\ \A s : ~Resetting(s) /\ ~Resetting(s)'
           /\ todo' # BeginHook
           /\ todo' \in Beginning <=> todo \in Beginning /\ step # "start"
           /\ todo' \in Beginning => UNCHANGED <<asaver, adev>>
           /\ todo \in Beginning <=> step \in {"hook", "run", "start"}
           /\ todo' \in AfterReset <=> step = "run"
           /\ todo \in AfterReset <=> step \in {"run", "start"}
           /\ todo' \in InitZero => step = "forget" /\ UNCHANGED asaver
           /\ step = "hook" => todo = BeginHook
<1> USE DEF Resetting, BeginHook, BeginRest, Beginning, AfterReset, InitZero
<1>1. CASE step \in {"stop", "close"}
  <2>1. \/ todo' = <<"close", "forget", "zeroHead", "zeroTail", "zeroCount", "idle">>
           /\ todo = <<"stop", "close", "forget", "zeroHead", "zeroTail", "zeroCount", "idle">>
        \/ todo' = <<"forget", "zeroHead", "zeroTail", "zeroCount", "idle">>
           /\ todo = <<"close", "forget", "zeroHead", "zeroTail", "zeroCount", "idle">>
        \/ todo' = <<"unhook", "close", "forget">>
           /\ todo = <<"stop", "unhook", "close", "forget">>
        \/ todo' = <<"forget">> /\ todo = <<"close", "forget">>
    BY <1>1, DoingIs
  <2>2. CASE todo' = <<"close", "forget", "zeroHead", "zeroTail", "zeroCount", "idle">>
    <3>1. todo = <<"stop", "close", "forget", "zeroHead", "zeroTail", "zeroCount", "idle">>
      BY <2>1, <2>2
    <3>2. Head(todo) = "stop" /\ todo \notin Beginning /\ todo \notin AfterReset
      BY <3>1
    <3>3. /\ Head(todo') = "close" /\ todo' \notin Beginning /\ todo' \notin AfterReset
          /\ todo' # BeginHook /\ todo' \notin InitZero
      BY <2>2
    <3>4. QED
      BY ONLY <1>1, <3>2, <3>3 DEF Resetting
  <2>3. CASE todo' = <<"forget", "zeroHead", "zeroTail", "zeroCount", "idle">>
    <3>1. todo = <<"close", "forget", "zeroHead", "zeroTail", "zeroCount", "idle">>
      BY <2>1, <2>3
    <3>2. Head(todo) = "close" /\ todo \notin Beginning /\ todo \notin AfterReset
      BY <3>1
    <3>3. /\ Head(todo') = "forget" /\ todo' \notin Beginning /\ todo' \notin AfterReset
          /\ todo' # BeginHook /\ todo' \notin InitZero
      BY <2>3
    <3>4. QED
      BY ONLY <1>1, <3>2, <3>3 DEF Resetting
  <2>4. CASE todo' = <<"unhook", "close", "forget">> \/ todo' = <<"forget">>
    <3>1. \/ todo = <<"stop", "unhook", "close", "forget">>
          \/ todo = <<"close", "forget">>
      BY <2>1, <2>4
    <3>2. Head(todo) \in {"stop", "close"} /\ todo \notin Beginning /\ todo \notin AfterReset
      BY <3>1
    <3>3. /\ Head(todo') \in {"unhook", "forget"} /\ todo' \notin Beginning
          /\ todo' \notin AfterReset /\ todo' # BeginHook /\ todo' \notin InitZero
      BY <2>4
    <3>4. QED
      BY ONLY <1>1, <3>2, <3>3 DEF Resetting
  <2>5. QED
    BY <2>1, <2>2, <2>3, <2>4
<1>2. CASE step = "forget"
  BY <1>2, DoingIs
<1>3. CASE step \in {"idle", "unhook"}
  BY <1>3, DoingIs
<1>4. CASE step = "hook"
  BY <1>4, DoingIs
<1>5. CASE step \in {"run", "start"}
  BY <1>5, DoingIs
<1>6. QED
  BY <1>1, <1>2, <1>3, <1>4, <1>5, DoingIs

\* A saver's file changes hands only in the calls.
LEMMA CleanGoesOn ==
    ASSUME BasicInv, OwnerInv, CleanInv, Stop \/ Unhook \/ Close \/ Hook \/ Run
    PROVE  CleanInv'
<1> USE DEF saverVars, ringVars, threads, disk, history, received, background
<1>s. asaver \in Savers /\ adev \in Devices /\ Null \notin Savers
  BY SaveAssumption DEF BasicInv, TypeOK
<1>1. /\ UNCHANGED <<ringVars, file, background, threads, rows, received>>
      /\ open' \subseteq open
  BY DEF Stop, Unhook, Close, Hook, Run
<1>2. PICK step \in {"stop", "idle", "unhook", "close", "hook", "run"} : Doing(step)
  BY DEF Stop, Unhook, Close, Hook, Run
<1>3. /\ \A s : ~Resetting(s) /\ ~Resetting(s)'
      /\ todo' # BeginHook /\ todo' \notin InitZero
      /\ todo' \in Beginning <=> todo \in Beginning
      /\ todo \in Beginning => UNCHANGED <<asaver, adev>>
      /\ todo' \in AfterReset <=> todo \in AfterReset
      /\ step = "hook" => todo = BeginHook /\ todo \notin AfterReset
  BY <1>2, GoingOn
<1>4. ThreadInv'
  BY <1>1, <1>3, ThreadFrame DEF CleanInv
<1>5. /\ \A f \in Sessions : Unheard(f)' <=> Unheard(f)
      /\ \A s : Listening(s)' <=> Listening(s)
  <2>1. AfterReset \subseteq Beginning
    BY DEF AfterReset, Beginning, BeginRest
  <2>2. QED
    BY <1>1, <1>3, <2>1 DEF Unheard, Listening
<1>6. \A f \in Sessions : Going(f)' => Going(f) /\ UNCHANGED tsaver[f]
  BY <1>1, <1>5 DEF Going
<1>7. CASE ~Hook
  <2>1. \A d \in Devices : context'[d] # Null => context'[d] = context[d]
    BY <1>s, <1>7 DEF Stop, Unhook, Close, Run, BasicInv, TypeOK
  <2>2. ContextInv'
    BY <1>3, <2>1 DEF CleanInv, ContextInv
  <2>3. PacketInv'
    BY <1>1, <1>s, <2>1, PacketFrame DEF CleanInv, Offering
  <2>4. \A s \in Savers, d \in Devices : context'[d] = s => context[d] = s
    BY <1>s, <2>1
  <2>5. QED
    BY <1>1, <1>3, <1>4, <1>5, <1>6, <2>2, <2>3, <2>4, CleanFrame
<1>8. CASE Hook
  <2>1. context' = [context EXCEPT ![adev] = asaver] /\ Doing("hook")
    BY <1>8 DEF Hook
  <2>2. todo = BeginHook /\ todo' # BeginHook /\ todo \in Beginning /\ todo \notin AfterReset
        /\ UNCHANGED <<asaver, adev>> /\ todo' \notin AfterReset
    BY <2>1, GoingOn DEF Beginning
  <2>3. context'[adev] = asaver /\ \A d \in Devices \ {adev} : context'[d] = context[d]
    BY <1>s, <2>1 DEF BasicInv, TypeOK
  <2>4. ContextInv'
    BY <2>2, <2>3 DEF CleanInv, ContextInv
  <2>5. /\ file[asaver] # 0 /\ file[asaver] \in Sessions /\ tpc[file[asaver]] = "opened"
        /\ accepted[file[asaver]] = {} /\ ~Listening(asaver)
    <3>1. file[asaver] # 0 /\ file[asaver] \in Sessions /\ tpc[file[asaver]] = "opened"
      BY <1>s, <2>2 DEF CleanInv, ThreadInv, BasicInv, TypeOK
    <3>2. QED
      BY <2>2, <3>1 DEF CleanInv, SessionInv, SessionOK, Unheard, Listening
  <2>6. PacketInv'
    <3>1. ASSUME NEW s \in Savers, NEW d \in Devices, file[s] # 0, context'[d] = s,
                 NEW p \in accepted[file[s]]
          PROVE  from[p] = d
      <4>1. d # adev
        BY <2>3, <2>5, <3>1
      <4>2. QED
        BY <2>3, <3>1, <4>1 DEF CleanInv, PacketInv
    <3>2. QED
      BY <1>1, <3>1 DEF CleanInv, PacketInv, Offering
  <2>7. \A s \in Savers : Listening(s)' =>
            Listening(s) /\ \A d \in Devices : context'[d] = s => context[d] = s
    BY <1>5, <2>3, <2>5
  <2>8. QED
    BY <1>1, <1>3, <1>4, <1>5, <1>6, <2>4, <2>6, <2>7, CleanFrame
<1>9. QED
  BY <1>7, <1>8

\* The first step of a call; fs_save_begin_device opens the file of a fresh session.
LEMMA CleanCall ==
    ASSUME BasicInv, FilesInv, OwnerInv, CleanInv, Clean', NEW s \in Savers, NEW d \in Devices,
           CallInit(s) \/ CallDestroy(s) \/ CallEnd(s, d) \/ CallBegin(s, d) \/ CallBeginFails(s, d)
    PROVE  CleanInv'
<1> USE DEF saverVars, ringVars, threads, disk, history, received, background
<1>t. todo = <<>> /\ todo \notin Beginning /\ todo \notin AfterReset
  <2>1. todo = <<>>
    BY DEF CallInit, CallDestroy, CallEnd, CallBegin, CallBeginFails, Call
  <2>2. QED
    BY <2>1 DEF BeginHook, BeginRest, Beginning, AfterReset
<1>r. \A r : ~Resetting(r)
  BY <1>t DEF Resetting
<1>1. CASE CallInit(s) \/ CallDestroy(s) \/ CallEnd(s, d)
  <2>1. /\ UNCHANGED <<ringVars, file, background, threads, rows, received, open, context>>
        /\ todo' \in {<<"stop", "close", "forget", "zeroHead", "zeroTail", "zeroCount", "idle">>,
                      <<"close", "forget">>, <<"stop", "unhook", "close", "forget">>}
    BY <1>1 DEF CallInit, CallDestroy, CallEnd, Call
  <2>2. /\ todo' # BeginHook /\ todo' \notin InitZero
        /\ todo' \notin Beginning /\ todo' \notin AfterReset
    BY <2>1 DEF BeginHook, BeginRest, Beginning, AfterReset, InitZero
  <2>3. \A r : ~Resetting(r)'
    BY <2>1 DEF Resetting
  <2>4. ContextInv' /\ PacketInv' /\ ThreadInv'
    BY <1>t, <2>1, <2>2, <2>3, ContextFrame, PacketFrame, ThreadFrame DEF CleanInv, Offering
  <2>5. \A f \in Sessions : (Unheard(f)' <=> Unheard(f)) /\ (Going(f)' => Going(f))
    BY <1>t, <2>1, <2>2 DEF Unheard, Going, Listening
  <2>6. \A r : Listening(r)' <=> Listening(r)
    BY <1>t, <2>1, <2>2 DEF Listening
  <2>7. QED
    BY <1>r, <2>1, <2>3, <2>4, <2>5, <2>6, CleanFrame
<1>2. CASE CallBegin(s, d)
  <2> DEFINE n == NextSession
  <2>1. /\ todo' = BeginHook /\ asaver' = s /\ adev' = d /\ n \in Sessions
        /\ file' = [file EXCEPT ![s] = n]
        /\ tpc' = [tpc EXCEPT ![n] = "opened"] /\ tsaver' = [tsaver EXCEPT ![n] = s]
        /\ open' = open \cup {n}
        /\ UNCHANGED <<ringVars, context, background, ttail, tpacket, tline, fbuf, rows, received>>
        /\ ~ServesAnother(s, d) /\ ~Draining(s)
    BY <1>2 DEF CallBegin, Call, BeginHook, Clean
  <2>2. n \notin Started /\ n # 0 /\ tpc[n] = "none"
    BY <2>1, NextIsFresh DEF FilesInv, Started
  <2>3. /\ \A r \in Savers \ {s} : file'[r] = file[r] /\ file[r] # n
        /\ file'[s] = n
    BY <2>1, <2>2 DEF FilesInv, FilesStarted, BasicInv, TypeOK
  <2>4. /\ tpc'[n] = "opened" /\ tsaver'[n] = s
        /\ \A t \in Sessions \ {n} : tpc'[t] = tpc[t] /\ tsaver'[t] = tsaver[t]
    BY <2>1 DEF BasicInv, TypeOK
  <2>5. \A t \in Sessions : Alive(t)' => Alive(t) /\ t # n /\ tsaver[t] # s /\ tsaver[t] \in Savers
    BY <2>1, <2>4 DEF Alive, Draining, BasicInv, TypeOK
  <2>6. /\ todo' \notin AfterReset /\ todo' \notin InitZero /\ todo' \in Beginning
        /\ \A r : ~Resetting(r)'
    BY <2>1 DEF BeginHook, AfterReset, InitZero, Beginning, Resetting
  <2>7. ThreadInv'
    <3>1. ~Draining(s)'
      BY <2>4, <2>5 DEF Draining
    <3>2. \A t \in Sessions : Alive(t)' => file'[tsaver'[t]] \in {t, 0}
      BY <2>3, <2>4, <2>5 DEF CleanInv, ThreadInv
    <3>3. \A t \in Sessions : tpc'[t] = "opened" => t = n
      BY <1>t, <2>4 DEF CleanInv, ThreadInv
    <3>4. QED
      BY <2>1, <2>2, <2>3, <2>4, <2>5, <2>6, <3>1, <3>2, <3>3 DEF CleanInv, ThreadInv
  <2>8. ContextInv'
    BY <2>1 DEF CleanInv, ContextInv, ServesAnother
  <2>9. accepted[n] = {}
    BY <2>1, <2>2 DEF CleanInv, SessionInv, SessionOK, Unheard
  <2>10. PacketInv'
    BY <2>1, <2>3, <2>9 DEF CleanInv, PacketInv, Offering
  <2>12. \A r \in Savers : Listening(r)' => Listening(r) /\ UNCHANGED file[r]
    <3>1. ~Listening(s)'
      BY <2>3, <2>4, <2>6 DEF Listening
    <3>2. ASSUME NEW r \in Savers, r # s, Listening(r)' PROVE Listening(r) /\ UNCHANGED file[r]
      <4>1. file'[r] = file[r] /\ file[r] # n /\ file[r] # 0 /\ file[r] \in Sessions
        BY <2>3, <3>2 DEF Listening, BasicInv, TypeOK
      <4>2. tpc'[file[r]] # "opened"
        BY <2>6, <3>2, <4>1 DEF Listening
      <4>3. tpc[file[r]] # "opened"
        BY <2>4, <4>1, <4>2
      <4>4. QED
        BY <4>1, <4>3 DEF Listening
    <3>3. QED
      BY <3>1, <3>2
  <2>13. \A f \in Sessions : Going(f)' => Going(f) /\ UNCHANGED tsaver[f]
    <3>1. ASSUME NEW f \in Sessions, Going(f)' PROVE Going(f) /\ UNCHANGED tsaver[f]
      <4>1. f # n
        BY <2>3, <2>4, <2>6, <3>1 DEF Going, Listening
      <4>2. PICK r \in Savers : r = tsaver[f] /\ r = tsaver'[f]
        BY <2>4, <4>1 DEF BasicInv, TypeOK
      <4>3. file'[r] = f /\ Listening(r)' /\ f \in open
        BY <2>1, <3>1, <4>1, <4>2 DEF Going
      <4>4. QED
        BY <2>12, <4>2, <4>3 DEF Going
    <3>2. QED
      BY <3>1
  <2>14. \A f \in Sessions :
             /\ tpc'[f] \in {"none", "opened"} => tpc[f] \in {"none", "opened"}
             /\ Unheard(f)' => Unheard(f)
    BY <1>t, <2>2, <2>4 DEF Unheard
  <2>15. \A t \in Sessions : tpc[t] \in Busy \/ tpc'[t] \in Busy => UNCHANGED <<tpc[t], tsaver[t]>>
    BY <2>2, <2>4 DEF Busy
  <2>16. QED
    BY <1>r, <2>1, <2>6, <2>7, <2>8, <2>10, <2>12, <2>13, <2>14, <2>15, CleanFrame
<1>3. CASE CallBeginFails(s, d)
  <2>1. /\ todo' = <<>> /\ file' = [file EXCEPT ![s] = 0]
        /\ UNCHANGED <<ringVars, context, background, threads, disk, received>>
    BY <1>3 DEF CallBeginFails, Call
  <2>2. /\ \A r \in Savers : file'[r] # 0 => file'[r] = file[r]
        /\ file'[s] = 0
    BY <2>1 DEF BasicInv, TypeOK
  <2>3. /\ todo' # BeginHook /\ todo' \notin InitZero
        /\ todo' \notin Beginning /\ todo' \notin AfterReset /\ \A r : ~Resetting(r)'
    BY <2>1 DEF BeginHook, BeginRest, Beginning, AfterReset, InitZero, Resetting
  <2>4. ThreadInv'
    BY <1>t, <2>1, <2>2, <2>3 DEF CleanInv, ThreadInv, Alive, BasicInv, TypeOK
  <2>5. ContextInv' /\ PacketInv'
    BY <2>1, <2>2, <2>3, ContextFrame, PacketFrame DEF CleanInv, Offering
  <2>6. \A r \in Savers : Listening(r)' => Listening(r) /\ UNCHANGED file[r]
    BY <2>1, <2>2, <2>3 DEF Listening
  <2>7. \A f \in Sessions : Going(f)' => Going(f)
    BY <2>1, <2>2, <2>6 DEF Going, BasicInv, TypeOK
  <2>8. \A f \in Sessions : Unheard(f)' => Unheard(f)
    BY <1>t, <2>1, <2>3 DEF Unheard
  <2>9. QED
    BY <1>r, <2>1, <2>3, <2>4, <2>5, <2>6, <2>7, <2>8, CleanFrame
<1>4. QED
  BY <1>1, <1>2, <1>3

\* saver->file = NULL: the session that had it goes on no more.
LEMMA CleanForget ==
    ASSUME BasicInv, CleanInv, Forget
    PROVE  CleanInv'
<1> USE DEF saverVars, ringVars, threads, disk, history, received, background
<1>1. /\ file' = [file EXCEPT ![asaver] = 0] /\ Doing("forget")
      /\ UNCHANGED <<ringVars, context, background, threads, disk, received>>
  BY DEF Forget
<1>2. /\ \A s : ~Resetting(s) /\ ~Resetting(s)'
      /\ todo \notin Beginning /\ todo' \notin Beginning
      /\ todo' # BeginHook /\ todo' \notin AfterReset /\ todo \notin AfterReset
      /\ todo' \in InitZero => UNCHANGED asaver
  BY <1>1, GoingOn
<1>3. /\ \A r \in Savers : file'[r] # 0 => file'[r] = file[r]
      /\ file'[asaver] = 0 /\ asaver \in Savers
  BY <1>1 DEF BasicInv, TypeOK
<1>4. ThreadInv'
  BY <1>1, <1>2, <1>3 DEF CleanInv, ThreadInv, Alive, BasicInv, TypeOK
<1>5. ContextInv' /\ PacketInv'
  BY <1>1, <1>2, <1>3, ContextFrame, PacketFrame DEF CleanInv, Offering
<1>6. \A r \in Savers : Listening(r)' => Listening(r) /\ UNCHANGED file[r]
  BY <1>1, <1>2, <1>3 DEF Listening
<1>7. \A f \in Sessions : Going(f)' => Going(f)
  BY <1>1, <1>3, <1>6 DEF Going, BasicInv, TypeOK
<1>8. \A f \in Sessions : Unheard(f)' => Unheard(f)
  BY <1>1, <1>2 DEF Unheard
<1>9. QED
  BY <1>1, <1>2, <1>4, <1>5, <1>6, <1>7, <1>8, CleanFrame

\* fs_thread_start, and the branch in which no thread can be created.
LEMMA CleanStart ==
    ASSUME BasicInv, OwnerInv, CleanInv, Clean', Start \/ StartFails
    PROVE  CleanInv'
<1> USE DEF saverVars, ringVars, threads, disk, history, received, background
<1> DEFINE n == file[asaver]
<1>1. Doing("start") /\ todo = <<"start">> /\ todo' = <<>>
  <2>1. Doing("start")
    BY DEF Start, StartFails
  <2>2. QED
    BY <2>1, DoingIs
<1>2. /\ \A s : ~Resetting(s) /\ ~Resetting(s)'
      /\ todo \in Beginning /\ todo \in AfterReset /\ todo' \notin Beginning
      /\ todo' # BeginHook /\ todo' \notin AfterReset /\ todo' \notin InitZero
  BY <1>1, GoingOn
<1>3. /\ n \in Sessions /\ n # 0 /\ tpc[n] = "opened" /\ tsaver[n] = asaver
      /\ asaver \in Savers /\ adev \in Devices /\ Null \notin Savers
      /\ \A f \in Sessions : tpc[f] = "opened" => f = n
  BY <1>2, SaveAssumption DEF CleanInv, ThreadInv, OwnerInv, BasicInv, TypeOK
<1>4. CASE Start
  <2>1. /\ tpc' = [tpc EXCEPT ![n] = "begin"] /\ \A t \in Sessions : ~Alive(t)
        /\ UNCHANGED <<file, ringVars, context, background, tsaver, ttail, tpacket, tline, fbuf,
                       disk, received>>
    BY <1>4 DEF Start, Clean
  <2>2. tpc'[n] = "begin" /\ \A t \in Sessions \ {n} : tpc'[t] = tpc[t]
    BY <1>3, <2>1 DEF BasicInv, TypeOK
  <2>3. \A t \in Sessions : Alive(t)' => t = n
    BY <2>1, <2>2 DEF Alive
  <2>4. ThreadInv'
    BY <1>2, <1>3, <2>1, <2>2, <2>3 DEF ThreadInv
  <2>5. ContextInv' /\ PacketInv'
    BY <1>2, <2>1, ContextFrame, PacketFrame DEF CleanInv, Offering
  <2>6. \A r \in Savers : Listening(r)' => Listening(r)
    <3>1. ASSUME NEW r \in Savers, Listening(r)' PROVE Listening(r)
      <4>1. file[r] # 0 /\ file[r] \in Sessions
        BY <2>1, <3>1 DEF Listening, BasicInv, TypeOK
      <4>2. CASE file[r] = n
        BY <1>2, <1>3, <4>1, <4>2, FileIsOne DEF Listening
      <4>3. CASE file[r] # n
        BY <1>2, <1>3, <4>1, <4>3 DEF Listening
      <4>4. QED
        BY <4>2, <4>3
    <3>2. QED
      BY <3>1
  <2>7. \A f \in Sessions : Going(f)' => Going(f)
    BY <2>1, <2>6 DEF Going, BasicInv, TypeOK
  <2>8. \A f \in Sessions :
            /\ tpc'[f] \in {"none", "opened"} => tpc[f] \in {"none", "opened"}
            /\ Unheard(f)' => Unheard(f)
    BY <1>3, <2>2 DEF Unheard
  <2>9. \A t \in Sessions : tpc[t] \in Busy \/ tpc'[t] \in Busy => UNCHANGED <<tpc[t], tsaver[t]>>
    BY <1>3, <2>1, <2>2 DEF Busy
  <2>10. QED
    BY <1>2, <2>1, <2>4, <2>5, <2>6, <2>7, <2>8, <2>9, CleanFrame
<1>5. CASE StartFails
  <2>1. /\ tpc' = [tpc EXCEPT ![n] = "ended"] /\ open' = open \ {n}
        /\ file' = [file EXCEPT ![asaver] = 0] /\ context' = [context EXCEPT ![adev] = Null]
        /\ UNCHANGED <<ringVars, background, tsaver, ttail, tpacket, tline, fbuf, rows, received>>
    BY <1>5 DEF StartFails
  <2>2. tpc'[n] = "ended" /\ \A t \in Sessions \ {n} : tpc'[t] = tpc[t]
    BY <1>3, <2>1 DEF BasicInv, TypeOK
  <2>3. \A t \in Sessions : Alive(t)' => Alive(t) /\ t # n
    BY <2>1, <2>2 DEF Alive
  <2>4. /\ \A r \in Savers : file'[r] # 0 => file'[r] = file[r] /\ r # asaver
        /\ file'[asaver] = 0
        /\ \A d \in Devices : context'[d] # Null => context'[d] = context[d]
    BY <1>3, <2>1 DEF BasicInv, TypeOK
  <2>5. ThreadInv'
    BY <1>2, <1>3, <2>1, <2>2, <2>3, <2>4 DEF CleanInv, ThreadInv, BasicInv, TypeOK
  <2>6. ContextInv'
    BY <1>2, <2>4 DEF CleanInv, ContextInv
  <2>7. PacketInv'
    BY <1>3, <2>1, <2>4, PacketFrame DEF CleanInv, Offering
  <2>8. \A r \in Savers : Listening(r)' => Listening(r) /\ UNCHANGED file[r]
    <3>1. ASSUME NEW r \in Savers, Listening(r)' PROVE Listening(r) /\ UNCHANGED file[r]
      <4>1. file'[r] = file[r] /\ file[r] # 0 /\ file[r] \in Sessions /\ r # asaver
        BY <2>4, <3>1 DEF Listening, BasicInv, TypeOK
      <4>2. tpc[file[r]] # "opened"
        BY <1>3, <4>1, FileIsOne
      <4>3. QED
        BY <4>1, <4>2 DEF Listening
    <3>2. QED
      BY <3>1
  <2>9. \A f \in Sessions : Going(f)' => Going(f)
    BY <2>1, <2>8 DEF Going, BasicInv, TypeOK
  <2>10. \A f \in Sessions :
            /\ tpc'[f] \in {"none", "opened"} => tpc[f] \in {"none", "opened"}
            /\ Unheard(f)' => Unheard(f)
    BY <1>3, <2>2 DEF Unheard
  <2>11. \A t \in Sessions : tpc[t] \in Busy \/ tpc'[t] \in Busy => UNCHANGED <<tpc[t], tsaver[t]>>
    BY <1>3, <2>1, <2>2 DEF Busy
  <2>12. \A r \in Savers, d \in Devices : context'[d] = r => context[d] = r
    BY <1>3, <2>4
  <2>13. QED
    BY <1>2, <2>1, <2>5, <2>6, <2>7, <2>8, <2>9, <2>10, <2>11, <2>12, CleanFrame
<1>6. QED
  BY <1>4, <1>5

\* FS_RINGBUFFER_INIT.  No thread drains the ring and no task pushes (or the run is
\* not Clean any more); in fs_save_begin_device the session is not listening yet.
LEMMA ZeroIs ==
    ASSUME BasicInv, CleanInv, Clean', NEW s \in Savers, s = asaver,
           ZeroHead \/ ZeroTail \/ ZeroCount
    PROVE  /\ UNCHANGED <<running, file, slots, context, background, threads, disk, received>>
           /\ asaver' = s
           /\ ~Draining(s) /\ ~Pushing(s, PushPlaces)
           /\ \A r \in Savers \ {s} : UNCHANGED <<head[r], tail[r], count[r]>>
           /\ \A r : r # s => ~Resetting(r) /\ ~Resetting(r)'
           /\ todo' # BeginHook /\ todo \notin AfterReset
           /\ todo' \in Beginning <=> todo \in Beginning
           /\ todo' \in InitZero => todo \in InitZero
           /\ todo \in InitZero \cup Beginning
           /\ ZeroHead => /\ Resetting(s)' /\ Head(todo') = "zeroTail" /\ head'[s] = 0
                          /\ count'[s] = count[s] /\ todo' \notin AfterReset
           /\ ZeroTail => /\ Resetting(s)' /\ Head(todo') = "zeroCount"
                          /\ head'[s] = 0 /\ tail'[s] = 0
                          /\ count'[s] = count[s] /\ todo' \notin AfterReset
           /\ ZeroCount => /\ ~Resetting(s)'
                           /\ head'[s] = 0 /\ tail'[s] = 0 /\ count'[s] = 0
                           /\ todo' \in AfterReset <=> todo \in Beginning
<1> USE DEF saverVars, ringVars, threads, disk, history, received, background
<1> USE DEF BeginHook, BeginRest, Beginning, AfterReset, InitZero, Resetting
<1>1. /\ UNCHANGED <<running, file, slots, context, background, threads, disk, received>>
      /\ ~Draining(s) /\ ~Pushing(s, PushPlaces)
  BY DEF ZeroHead, ZeroTail, ZeroCount, Zero, Clean
<1>2. CASE ZeroHead
  <2>1. /\ Doing("zeroHead") /\ head' = [head EXCEPT ![s] = 0] /\ UNCHANGED <<tail, count>>
    BY <1>2 DEF ZeroHead, Zero
  <2>2. /\ head'[s] = 0 /\ count'[s] = count[s]
        /\ \A r \in Savers \ {s} : UNCHANGED <<head[r], tail[r], count[r]>>
    BY <2>1 DEF BasicInv, TypeOK
  <2>3. \/ /\ todo = <<"zeroHead", "zeroTail", "zeroCount", "idle">>
           /\ todo' = <<"zeroTail", "zeroCount", "idle">> /\ asaver' = s
        \/ /\ todo = <<"zeroHead", "zeroTail", "zeroCount", "run", "start">>
           /\ todo' = <<"zeroTail", "zeroCount", "run", "start">> /\ asaver' = s
    BY <2>1, DoingIs
  <2>4. ~ZeroTail /\ ~ZeroCount
    BY <2>3 DEF ZeroTail, ZeroCount, Zero, Doing
  <2>5. QED
    BY <1>1, <1>2, <2>2, <2>3, <2>4
<1>3. CASE ZeroTail
  <2>1. /\ Doing("zeroTail") /\ tail' = [tail EXCEPT ![s] = 0] /\ UNCHANGED <<head, count>>
    BY <1>3 DEF ZeroTail, Zero
  <2>2. /\ tail'[s] = 0 /\ count'[s] = count[s] /\ head'[s] = head[s]
        /\ \A r \in Savers \ {s} : UNCHANGED <<head[r], tail[r], count[r]>>
    BY <2>1 DEF BasicInv, TypeOK
  <2>3. \/ /\ todo = <<"zeroTail", "zeroCount", "idle">>
           /\ todo' = <<"zeroCount", "idle">> /\ asaver' = s
        \/ /\ todo = <<"zeroTail", "zeroCount", "run", "start">>
           /\ todo' = <<"zeroCount", "run", "start">> /\ asaver' = s
    BY <2>1, DoingIs
  <2>4. ~ZeroHead /\ ~ZeroCount
    BY <2>3 DEF ZeroHead, ZeroCount, Zero, Doing
  <2>5. head[s] = 0
    BY <2>3 DEF CleanInv, RingInv, RingOK
  <2>6. QED
    BY <1>1, <1>3, <2>2, <2>3, <2>4, <2>5
<1>4. CASE ZeroCount
  <2>1. /\ Doing("zeroCount") /\ count' = [count EXCEPT ![s] = 0] /\ UNCHANGED <<head, tail>>
    BY <1>4 DEF ZeroCount, Zero
  <2>2. /\ count'[s] = 0 /\ tail'[s] = tail[s] /\ head'[s] = head[s]
        /\ \A r \in Savers \ {s} : UNCHANGED <<head[r], tail[r], count[r]>>
    BY <2>1 DEF BasicInv, TypeOK
  <2>3. \/ /\ todo = <<"zeroCount", "idle">>
           /\ todo' = <<"idle">> /\ asaver' = s
        \/ /\ todo = <<"zeroCount", "run", "start">>
           /\ todo' = <<"run", "start">> /\ asaver' = s
    BY <2>1, DoingIs
  <2>4. ~ZeroHead /\ ~ZeroTail
    BY <2>3 DEF ZeroHead, ZeroTail, Zero, Doing
  <2>5. head[s] = 0 /\ tail[s] = 0
    BY <2>3 DEF CleanInv, RingInv, RingOK
  <2>6. QED
    BY <1>1, <1>4, <2>2, <2>3, <2>4, <2>5
<1>5. QED
  BY <1>2, <1>3, <1>4

\* A session whose ring is being reset has nothing to account for before, and an
\* empty ring after.
LEMMA CleanZero ==
    ASSUME BasicInv, OwnerInv, CleanInv, Clean', ZeroHead \/ ZeroTail \/ ZeroCount
    PROVE  CleanInv'
<1> USE DEF threads, disk, received, background
<1>s. PICK s \in Savers : s = asaver
  BY DEF BasicInv, TypeOK
<1>1. /\ UNCHANGED <<running, file, slots, context, background, threads, disk, received>>
      /\ asaver' = s
      /\ ~Draining(s) /\ ~Pushing(s, PushPlaces)
      /\ \A r \in Savers \ {s} : UNCHANGED <<head[r], tail[r], count[r]>>
      /\ \A r : r # s => ~Resetting(r) /\ ~Resetting(r)'
      /\ todo' # BeginHook /\ todo \notin AfterReset
      /\ todo' \in Beginning <=> todo \in Beginning
      /\ todo' \in InitZero => todo \in InitZero
      /\ todo \in InitZero \cup Beginning
  BY <1>s, ZeroIs
<1>2. /\ ZeroHead => /\ Resetting(s)' /\ Head(todo') = "zeroTail" /\ head'[s] = 0
                     /\ count'[s] = count[s] /\ todo' \notin AfterReset
      /\ ZeroTail => /\ Resetting(s)' /\ Head(todo') = "zeroCount"
                     /\ head'[s] = 0 /\ tail'[s] = 0
                     /\ count'[s] = count[s] /\ todo' \notin AfterReset
      /\ ZeroCount => /\ ~Resetting(s)'
                      /\ head'[s] = 0 /\ tail'[s] = 0 /\ count'[s] = 0
                      /\ todo' \in AfterReset <=> todo \in Beginning
  BY <1>s, ZeroIs
<1>3. /\ \A d \in Devices : at[d] \in PushPlaces => savedTo[d] \in Savers \ {s}
      /\ \A t \in Sessions : Alive(t) => tsaver[t] \in Savers \ {s}
  BY <1>1 DEF Pushing, Draining, BasicInv, TypeOK
<1>4. ThreadInv'
  BY <1>s, <1>1 DEF CleanInv, ThreadInv, Alive, Draining
<1>5. ContextInv' /\ PacketInv' /\ LineInv'
  BY <1>1, ContextFrame, PacketFrame, LineFrame DEF CleanInv, Offering
<1>6. ASSUME NEW r \in Savers \ {s} PROVE Kept(r) /\ (Overwriting(r)' <=> Overwriting(r))
  <2>1. \A places : Pushing(r, places)' <=> Pushing(r, places)
    BY <1>1 DEF Pushing
  <2>2. Popping(r, {"uncount"})' <=> Popping(r, {"uncount"})
    BY <1>1 DEF Popping
  <2>3. QED
    BY <1>1, <2>1, <2>2, RingKept
<1>7. /\ ~Pushing(s, PushPlaces)' /\ ~Pushing(s, {"bump"})' /\ ~Pushing(s, Written)'
      /\ ~Popping(s, {"uncount"})'
  BY <1>1 DEF Pushing, Popping, PushPlaces, Written, Draining, Alive
<1>8. count[s] <= QueueLength /\ count'[s] <= QueueLength /\ 0 \in Slots
  BY <1>2, RingSize DEF CleanInv, RingInv, RingOK, Slots
<1>9. ZeroCount => Top(s)' = 0 /\ Base(s)' = 0 /\ Size(s)' = 0
  <2>1. ~Adding(s)' /\ ~Overwriting(s)' /\ Held(s)' = count'[s]
    BY <1>7 DEF Adding, Overwriting, Held
  <2>2. QED
    BY <1>2, <1>7, <2>1 DEF Top, Base, Size
<1>10. ASSUME NEW r \in Savers PROVE RingOK(r)'
  <2>1. CASE r # s
    <3>1. RingOK(r) /\ Kept(r) /\ ~Resetting(r) /\ ~Resetting(r)' /\ UNCHANGED count[r]
      BY <1>1, <1>6, <2>1 DEF CleanInv, RingInv
    <3>2. QED
      BY <3>1 DEF RingOK, Kept, At
  <2>2. CASE r = s /\ ZeroCount
    <3>1. At(0, 0) = 0
      BY <1>8, AtLap
    <3>2. Top(s)' = At(Base(s)', Size(s)')
      BY <1>9, <2>2, <3>1
    <3>3. QED
      BY <1>2, <1>8, <2>2, <3>2 DEF RingOK, At
  <2>3. CASE r = s /\ (ZeroHead \/ ZeroTail)
    BY <1>2, <1>7, <1>8, <2>3 DEF RingOK
  <2>4. QED
    BY <2>1, <2>2, <2>3
<1>11. ASSUME NEW d \in Devices PROVE PushOK(d)'
  <2>1. CASE at[d] \in PushPlaces
    <3>1. PICK r \in Savers \ {s} : r = savedTo[d]
      BY <1>3, <2>1
    <3>2. /\ PushOK(d) /\ savedTo'[d] = r /\ Kept(r) /\ \A k : Entry(r, k)' = Entry(r, k)
          /\ UNCHANGED <<head[r], tail[r], count[r]>>
      BY <1>1, <1>6, <3>1, KeptEntries DEF CleanInv, RingInv
    <3>3. Listening(r)' => Listening(r)
      BY <1>1, <3>1 DEF Listening
    <3>4. QED
      BY <1>1, <3>1, <3>2, <3>3 DEF PushOK, Kept
  <2>2. QED
    BY <1>1, <2>1 DEF PushOK
<1>12. ASSUME NEW t \in Sessions PROVE PopOK(t)'
  <2>1. CASE tpc[t] \in PopPlaces
    <3>1. PICK r \in Savers \ {s} : r = tsaver[t]
      BY <1>3, <2>1 DEF Alive, PopPlaces
    <3>2. PopOK(t) /\ (Overwriting(r)' <=> Overwriting(r)) /\ UNCHANGED <<tail[r], count[r]>>
      BY <1>1, <1>6, <3>1 DEF CleanInv, RingInv
    <3>3. QED
      BY <1>1, <3>1, <3>2 DEF PopOK
  <2>2. QED
    BY <1>1, <2>1 DEF PopOK
<1>13. ASSUME NEW f \in Sessions PROVE SessionOK(f)'
  <2>0. f # 0 /\ tsaver[f] \in Savers
    BY RingSize DEF Sessions, BasicInv, TypeOK
  <2>1. Hand(f)' = Hand(f)
    BY <1>1 DEF Hand
  <2>2. CASE f = file[s] /\ ZeroCount /\ todo \in Beginning
    <3>1. tsaver[f] = s /\ tpc[f] = "opened"
      BY <1>s, <2>0, <2>2 DEF OwnerInv, CleanInv, ThreadInv
    <3>2. rows'[f] = <<>> /\ accepted'[f] = {} /\ dropped'[f] = {}
      BY <1>1, <3>1 DEF CleanInv, SessionInv, SessionOK, Unheard
    <3>3. RowsOf(f)' = {} /\ Hand(f)' = {}
      BY <1>1, <3>1, <3>2 DEF RowsOf, Hand
    <3>4. 0 .. Size(s)' - 1 = {} /\ InRing(s)' = {}
      BY <1>9, <2>2 DEF InRing
    <3>5. tsaver'[f] = s
      BY <1>1, <3>1
    <3>6. Accounted(f)' /\ Ascending(f)' /\ RowsInv(f)'
      BY <3>2, <3>3, <3>4, <3>5 DEF Accounted, Ascending, RowsInv
    <3>7. QED
      BY <3>2, <3>6 DEF SessionOK
  <2>3. CASE f # file[s] \/ ~ZeroCount \/ todo \notin Beginning
    <3>1. Unheard(f)' => Unheard(f)
      BY <1>1 DEF Unheard
    <3>2. Going(f)' => Going(f) /\ tsaver[f] \in Savers \ {s}
      <4>1. SUFFICES ASSUME Going(f)' PROVE Going(f) /\ tsaver[f] # s
        BY <2>0
      <4>2. PICK r \in Savers : r = tsaver[f] /\ r = tsaver'[f]
        BY <1>1, <2>0
      <4>3. file[r] = f /\ f \in open /\ Listening(r)'
        BY <1>1, <4>1, <4>2 DEF Going
      <4>4. r # s
        <5>1. SUFFICES ASSUME r = s PROVE FALSE
          OBVIOUS
        <5>2. todo \in Beginning /\ tpc[f] = "opened"
          BY <1>s, <1>1, <2>0, <4>3, <5>1 DEF CleanInv, ThreadInv
        <5>3. todo' \in AfterReset
          BY <1>1, <4>3, <5>1, <5>2 DEF Listening
        <5>4. ZeroCount
          BY <1>2, <5>3
        <5>5. QED
          BY <2>3, <4>3, <5>1, <5>2, <5>4
      <4>5. Listening(r)
        BY <1>1, <4>3, <4>4 DEF Listening
      <4>6. QED
        BY <4>2, <4>3, <4>4, <4>5 DEF Going
    <3>3. QED
      BY <1>1, <1>6, <2>1, <3>1, <3>2, SessionFrame DEF CleanInv, SessionInv
  <2>4. QED
    BY <2>2, <2>3
<1>14. QED
  BY <1>4, <1>5, <1>10, <1>11, <1>12, <1>13 DEF CleanInv, RingInv, SessionInv

-----------------------------------------------------------------------------
(* The background tasks.                                                   *)

\* A task is at one ring, and leaves the call and the threads alone.
LEMMA TaskFrame ==
    ASSUME BasicInv, CleanInv, NEW d \in Devices, BackgroundTask(d)
    PROVE  /\ ThreadInv' /\ ContextInv' /\ LineInv'
           /\ \A s : (Resetting(s)' <=> Resetting(s)) /\ (Listening(s)' <=> Listening(s))
           /\ \A s, places : Popping(s, places)' <=> Popping(s, places)
           /\ \A f \in Sessions : /\ Unheard(f)' <=> Unheard(f)
                                  /\ Going(f)' <=> Going(f)
                                  /\ Hand(f)' = Hand(f) /\ RowsOf(f)' = RowsOf(f)
<1> USE DEF threads, disk
<1>1. UNCHANGED <<running, file, context, program, threads, disk>>
  BY TaskLeaves
<1>2. ThreadInv' /\ ContextInv' /\ LineInv'
  BY <1>1, ThreadFrame, ContextFrame, LineFrame DEF CleanInv
<1>3. \A s : (Resetting(s)' <=> Resetting(s)) /\ (Listening(s)' <=> Listening(s))
  BY <1>1 DEF Resetting, Listening, program
<1>4. \A s, places : Popping(s, places)' <=> Popping(s, places)
  BY <1>1 DEF Popping
<1>5. ASSUME NEW f \in Sessions
      PROVE  /\ Unheard(f)' <=> Unheard(f)
             /\ Going(f)' <=> Going(f)
             /\ Hand(f)' = Hand(f) /\ RowsOf(f)' = RowsOf(f)
  BY <1>1, <1>3 DEF Unheard, Going, Hand, RowsOf, program
<1>6. QED
  BY <1>2, <1>3, <1>4, <1>5

\* The rings that a task is not at, and the pushes and pops there: d pushes to no
\* ring but s, or to none.
LEMMA OtherRings ==
    ASSUME BasicInv, OwnerInv, CleanInv, NEW d \in Devices, BackgroundTask(d),
           NEW s \in Savers, savedTo[d] = s \/ at[d] \notin PushPlaces,
           savedTo'[d] = s \/ at'[d] \notin PushPlaces,
           \A r \in Savers \ {s} : UNCHANGED <<head[r], tail[r], count[r], slots[r]>>,
           \A f \in Sessions : f # file[s] => UNCHANGED <<accepted[f], dropped[f]>>,
           \A f \in Sessions : \A p \in accepted[f] : UNCHANGED from[p]
    PROVE  /\ \A r \in Savers \ {s} : Kept(r) /\ RingOK(r)'
           /\ \A e \in Devices \ {d} : savedTo[e] # s => PushOK(e)'
           /\ \A t \in Sessions : tsaver[t] # s => PopOK(t)'
           /\ \A f \in Sessions : tsaver[f] # s => SessionOK(f)'
<1> USE DEF threads, disk
<1>1. /\ UNCHANGED <<running, file, context, program, threads, disk>>
      /\ \A e \in Devices \ {d} : UNCHANGED <<at[e], savedTo[e], offered[e], pindex[e]>>
  BY TaskLeaves
<1>2. ASSUME NEW r \in Savers \ {s}
      PROVE  /\ Kept(r) /\ (Overwriting(r)' <=> Overwriting(r))
             /\ Pushing(r, PushPlaces)' <=> Pushing(r, PushPlaces)
  <2>1. /\ Pushing(r, {"bump"})' <=> Pushing(r, {"bump"})
        /\ Pushing(r, Written)' <=> Pushing(r, Written)
        /\ Pushing(r, PushPlaces)' <=> Pushing(r, PushPlaces)
    BY <1>1, <1>2 DEF Pushing, PushPlaces, Written
  <2>2. QED
    BY <1>2, <2>1, RingKept, TaskFrame
<1>3. ASSUME NEW r \in Savers \ {s} PROVE RingOK(r)'
  <2>1. RingOK(r) /\ Kept(r) /\ (Resetting(r)' <=> Resetting(r)) /\ UNCHANGED todo
    BY <1>1, <1>2, <1>3, TaskFrame DEF CleanInv, RingInv, program
  <2>2. QED
    BY <1>2, <1>3, <2>1 DEF RingOK, Kept, At
<1>4. ASSUME NEW e \in Devices \ {d}, savedTo[e] # s PROVE PushOK(e)'
  <2>1. PICK r \in Savers \ {s} : r = savedTo[e]
    BY <1>4 DEF BasicInv, TypeOK
  <2>2. /\ PushOK(e) /\ savedTo'[e] = r /\ Kept(r) /\ \A k : Entry(r, k)' = Entry(r, k)
        /\ Listening(r)' <=> Listening(r)
    BY <1>1, <1>2, <2>1, KeptEntries, TaskFrame DEF CleanInv, RingInv
  <2>3. Listening(r) => /\ accepted'[file[r]] = accepted[file[r]]
                        /\ \A p \in accepted[file[r]] : from'[p] = from[p]
    <3>1. Listening(r) => file[r] \in Sessions /\ file[r] # file[s]
      BY FileIsOne DEF Listening, BasicInv, TypeOK
    <3>2. QED
      BY <3>1
  <2>4. \A x \in Devices : at'[x] \in PushPlaces /\ savedTo'[x] = r =>
            at[x] \in PushPlaces /\ savedTo[x] = r
    BY <1>1
  <2>5. at[e] \in PushPlaces /\ Listening(r)' =>
            /\ \A x \in Devices : context'[x] = r => x = e
            /\ \A p \in accepted'[file'[r]] : from'[p] = e
    BY <1>1, <2>1, <2>2, <2>3 DEF PushOK
  <2>6. QED
    BY <1>1, <2>1, <2>2, <2>4, <2>5 DEF PushOK, Kept
<1>5. ASSUME NEW t \in Sessions, tsaver[t] # s PROVE PopOK(t)'
  <2>1. PICK r \in Savers \ {s} : r = tsaver[t]
    BY <1>5 DEF BasicInv, TypeOK
  <2>2. PopOK(t) /\ (Overwriting(r)' <=> Overwriting(r)) /\ tsaver'[t] = r
    BY <1>1, <1>2, <2>1 DEF CleanInv, RingInv
  <2>3. QED
    BY <1>1, <2>1, <2>2 DEF PopOK
<1>6. ASSUME NEW f \in Sessions, tsaver[f] # s PROVE SessionOK(f)'
  <2>1. PICK r \in Savers \ {s} : r = tsaver[f]
    BY <1>6 DEF BasicInv, TypeOK
  <2>2. /\ Unheard(f)' <=> Unheard(f)
        /\ Going(f)' <=> Going(f)
        /\ Hand(f)' = Hand(f)
    BY TaskFrame
  <2>3. f # file[s]
    BY <2>1, RingSize DEF OwnerInv, Sessions
  <2>4. QED
    BY <1>1, <1>2, <2>1, <2>2, <2>3, SessionFrame DEF CleanInv, SessionInv
<1>7. QED
  BY <1>2, <1>3, <1>4, <1>5, <1>6

\* The steps of a task that is not at a ring.
LEMMA CleanBeforePush ==
    ASSUME BasicInv, OwnerInv, CleanInv, NEW d \in Devices,
           TestContext(d) \/ LoadContext(d) \/ TestRunning(d)
    PROVE  CleanInv'
<1> USE DEF saverVars, ringVars, threads, disk, history, received
<1>b. BackgroundTask(d)
  BY DEF BackgroundTask, Deliver
<1>1. /\ UNCHANGED <<ringVars, file, context, program, threads, disk, accepted, dropped>>
      /\ at[d] \notin PushPlaces /\ at'[d] \notin PushPlaces
      /\ \A e \in Devices \ {d} : UNCHANGED <<at[e], savedTo[e], offered[e], pindex[e]>>
  <2>1. UNCHANGED <<ringVars, file, context, program, threads, disk, accepted, dropped>>
    BY DEF TestContext, LoadContext, TestRunning
  <2>2. at[d] \notin PushPlaces /\ at'[d] \notin PushPlaces
    BY DEF TestContext, LoadContext, TestRunning, DeviceAt, Return, PushPlaces, Written,
      Unwritten, BasicInv, TypeOK
  <2>3. QED
    BY <1>b, <2>1, <2>2, TaskLeaves
<1>2. \A f \in Sessions : \A p \in accepted[f] : UNCHANGED from[p]
  <2>1. CASE TestContext(d)
    <3>1. \A p \in 1 .. Len(from) : from'[p] = from[p]
      BY <2>1, AppendProperties DEF TestContext, BasicInv, TypeOK
    <3>2. QED
      BY <3>1 DEF CleanInv, PacketInv
  <2>2. CASE LoadContext(d) \/ TestRunning(d)
    BY <2>2 DEF LoadContext, TestRunning
  <2>3. QED
    BY <2>1, <2>2
<1>3. ASSUME NEW s \in Savers
      PROVE  /\ Kept(s) /\ (Overwriting(s)' <=> Overwriting(s))
             /\ Pushing(s, PushPlaces)' <=> Pushing(s, PushPlaces)
  <2>1. /\ Pushing(s, {"bump"})' <=> Pushing(s, {"bump"})
        /\ Pushing(s, Written)' <=> Pushing(s, Written)
        /\ Pushing(s, PushPlaces)' <=> Pushing(s, PushPlaces)
    BY <1>1 DEF Pushing, PushPlaces, Written
  <2>2. QED
    BY <1>1, <1>b, <2>1, RingKept, TaskFrame
<1>4. ASSUME NEW s \in Savers PROVE RingOK(s)'
  <2>1. RingOK(s) /\ Kept(s) /\ (Resetting(s)' <=> Resetting(s)) /\ UNCHANGED todo
    BY <1>1, <1>3, <1>b, TaskFrame DEF CleanInv, RingInv, program
  <2>2. QED
    BY <1>1, <1>3, <2>1 DEF RingOK, Kept, At
<1>5. ASSUME NEW e \in Devices PROVE PushOK(e)'
  <2>1. CASE e = d
    BY <1>1, <2>1 DEF PushOK
  <2>2. CASE e # d
    <3>1. PICK r \in Savers : r = savedTo[e]
      BY DEF BasicInv, TypeOK
    <3>2. /\ PushOK(e) /\ savedTo'[e] = r /\ Kept(r) /\ \A k : Entry(r, k)' = Entry(r, k)
          /\ Listening(r)' <=> Listening(r)
      BY <1>1, <1>3, <1>b, <2>2, <3>1, KeptEntries, TaskFrame DEF CleanInv, RingInv
    <3>3. Listening(r) => \A p \in accepted[file[r]] : from'[p] = from[p]
      BY <1>2 DEF Listening, BasicInv, TypeOK
    <3>4. \A x \in Devices : at'[x] \in PushPlaces /\ savedTo'[x] = r =>
              at[x] \in PushPlaces /\ savedTo[x] = r
      BY <1>1
    <3>5. at[e] \in PushPlaces /\ Listening(r)' =>
              /\ \A x \in Devices : context'[x] = r => x = e
              /\ \A p \in accepted'[file'[r]] : from'[p] = e
      BY <1>1, <3>1, <3>2, <3>3 DEF PushOK
    <3>6. QED
      BY <1>1, <2>2, <3>1, <3>2, <3>4, <3>5 DEF PushOK, Kept
  <2>3. QED
    BY <2>1, <2>2
<1>6. ASSUME NEW t \in Sessions PROVE PopOK(t)'
  <2>1. PICK r \in Savers : r = tsaver[t]
    BY DEF BasicInv, TypeOK
  <2>2. PopOK(t) /\ (Overwriting(r)' <=> Overwriting(r)) /\ tsaver'[t] = r
    BY <1>1, <1>3, <2>1 DEF CleanInv, RingInv
  <2>3. QED
    BY <1>1, <2>1, <2>2 DEF PopOK
<1>7. ASSUME NEW f \in Sessions PROVE SessionOK(f)'
  <2>1. PICK r \in Savers : r = tsaver[f]
    BY DEF BasicInv, TypeOK
  <2>2. /\ Unheard(f)' <=> Unheard(f)
        /\ Going(f)' <=> Going(f)
        /\ Hand(f)' = Hand(f)
    BY <1>b, TaskFrame
  <2>3. QED
    BY <1>1, <1>3, <2>1, <2>2, SessionFrame DEF CleanInv, SessionInv
<1>8. PacketInv'
  <2>1. CASE TestContext(d)
    <3>1. /\ from' = Append(from, d) /\ offered' = [offered EXCEPT ![d] = Len(from')]
          /\ at' = [at EXCEPT ![d] = "load"]
      BY <2>1 DEF TestContext
    <3>2. /\ Len(from') = Len(from) + 1 /\ Len(from) \in Nat /\ from'[Len(from) + 1] = d
          /\ \A p \in 1 .. Len(from) : from'[p] = from[p]
      BY <3>1, AppendProperties DEF BasicInv, TypeOK
    <3>3. /\ offered'[d] = Len(from) + 1
          /\ \A e \in Devices \ {d} : offered'[e] = offered[e] /\ at'[e] = at[e]
      BY <3>1, <3>2 DEF BasicInv, TypeOK
    <3>4. /\ \A e \in Devices : at'[e] # "idle" =>
                 offered'[e] \in 1 .. Len(from') /\ from'[offered'[e]] = e
          /\ \A f \in Sessions : accepted'[f] \subseteq 1 .. Len(from')
      BY <1>1, <3>2, <3>3 DEF CleanInv, PacketInv
    <3>5. ASSUME NEW f \in Sessions, NEW e \in Devices, Offering(e)',
                 NEW p \in accepted[f], from'[p] = e
          PROVE  p < offered'[e]
      <4>1. p \in 1 .. Len(from) /\ from[p] = e
        BY <1>2, <3>5 DEF CleanInv, PacketInv
      <4>2. CASE e = d
        BY <3>2, <3>3, <4>1, <4>2
      <4>3. CASE e # d
        BY <3>3, <3>5, <4>1, <4>3 DEF CleanInv, PacketInv, Offering
      <4>4. QED
        BY <4>2, <4>3
    <3>6. \A f \in Sessions : \A p, q \in accepted'[f] : from'[p] = from'[q]
      BY <1>1, <1>2 DEF CleanInv, PacketInv
    <3>7. ASSUME NEW s \in Savers, NEW e \in Devices, file'[s] # 0, context'[e] = s,
                  NEW p \in accepted'[file'[s]]
           PROVE  from'[p] = e
      <4>1. file[s] \in Sessions
        BY <1>1, <3>7 DEF BasicInv, TypeOK
      <4>2. QED
        BY <1>1, <1>2, <3>7, <4>1 DEF CleanInv, PacketInv
    <3>8. QED
      BY <1>1, <3>4, <3>5, <3>6, <3>7 DEF PacketInv
  <2>2. CASE LoadContext(d) \/ TestRunning(d)
    <3>1. /\ UNCHANGED from
          /\ \A e \in Devices : at'[e] # "idle" => at[e] # "idle" /\ offered'[e] = offered[e]
          /\ \A e \in Devices : Offering(e)' => Offering(e)
      BY <2>2 DEF LoadContext, TestRunning, Return, DeviceAt, BasicInv, TypeOK, Offering, Written
    <3>2. QED
      BY <1>1, <3>1, PacketFrame DEF CleanInv
  <2>3. QED
    BY <2>1, <2>2
<1>9. QED
  BY <1>b, <1>4, <1>5, <1>6, <1>7, <1>8, TaskFrame DEF CleanInv, RingInv, SessionInv

\* Every step of a push but the one that writes the slot keeps the ring as it is.
LEMMA PushKeeps ==
    ASSUME BasicInv, OwnerInv, CleanInv, NEW d \in Devices, BackgroundTask(d),
           NEW s \in Savers, savedTo[d] = s, savedTo'[d] = s \/ at'[d] \notin PushPlaces,
           at[d] # "idle", Offering(d)' => Offering(d),
           at'[d] # "idle" => offered'[d] = offered[d],
           UNCHANGED <<slots, from, accepted, dropped>>,
           \A r \in Savers \ {s} : UNCHANGED <<head[r], tail[r], count[r]>>,
           \A e \in Devices \ {d} : savedTo[e] = s => at[e] \notin PushPlaces,
           ~Resetting(s), Kept(s), count'[s] <= QueueLength, PushOK(d)',
           \A t \in Sessions : tsaver[t] = s => PopOK(t)'
    PROVE  CleanInv'
<1> USE DEF threads, disk
<1>1. /\ UNCHANGED <<running, file, context, program, threads, disk>>
      /\ \A e \in Devices \ {d} : UNCHANGED <<at[e], savedTo[e], offered[e], pindex[e]>>
  BY TaskLeaves
<1>2. /\ \A r \in Savers \ {s} : Kept(r) /\ RingOK(r)'
      /\ \A e \in Devices \ {d} : savedTo[e] # s => PushOK(e)'
      /\ \A t \in Sessions : tsaver[t] # s => PopOK(t)'
      /\ \A f \in Sessions : tsaver[f] # s => SessionOK(f)'
  BY OtherRings
<1>3. RingOK(s)'
  <2>1. RingOK(s) /\ ~Resetting(s)'
    BY TaskFrame DEF CleanInv, RingInv
  <2>2. QED
    BY <2>1 DEF RingOK, Kept, At
<1>4. \A e \in Devices \ {d} : savedTo[e] = s => PushOK(e)'
  BY <1>1 DEF PushOK
<1>5. ASSUME NEW f \in Sessions, tsaver[f] = s PROVE SessionOK(f)'
  <2>1. /\ Unheard(f)' <=> Unheard(f)
        /\ Going(f)' <=> Going(f)
        /\ Hand(f)' = Hand(f)
    BY TaskFrame
  <2>2. QED
    BY <1>1, <1>5, <2>1, SessionFrame DEF CleanInv, SessionInv
<1>6. PacketInv'
  <2>1. /\ \A e \in Devices : at'[e] # "idle" => at[e] # "idle" /\ UNCHANGED offered[e]
        /\ \A e \in Devices : Offering(e)' => Offering(e)
    BY <1>1 DEF Offering
  <2>2. QED
    BY <1>1, <2>1, PacketFrame DEF CleanInv
<1>7. QED
  BY <1>2, <1>3, <1>4, <1>5, <1>6, TaskFrame DEF CleanInv, RingInv, SessionInv

\* The load of head, by the only push at the ring, which is not being reset.
LEMMA CleanLoadHead ==
    ASSUME BasicInv, OwnerInv, CleanInv, Clean', NEW d \in Devices, LoadHead(d)
    PROVE  CleanInv'
<1> USE DEF saverVars, ringVars, threads, disk, received
<1>b. BackgroundTask(d)
  BY DEF BackgroundTask, Deliver
<1>1. PICK s \in Savers : s = savedTo[d]
  BY DEF BasicInv, TypeOK
<1>2. /\ UNCHANGED <<file, ringVars, context, savedTo, offered, received>>
      /\ at[d] = "push" /\ at'[d] = "fill" /\ pindex'[d] = head[s]
      /\ ~Pushing(s, PushPlaces) /\ ~Resetting(s)
      /\ Listening(s) => context[d] = s
  BY <1>1 DEF LoadHead, DeviceAt, Clean, BasicInv, TypeOK
<1>3. /\ \A e \in Devices \ {d} : UNCHANGED <<at[e], savedTo[e]>>
      /\ \A e \in Devices : savedTo[e] = s => at[e] \notin PushPlaces
  BY <1>b, <1>2, TaskLeaves DEF Pushing
<1>4. Kept(s) /\ (Overwriting(s)' <=> Overwriting(s))
  <2>1. /\ Pushing(s, {"bump"})' <=> Pushing(s, {"bump"})
        /\ Pushing(s, Written)' <=> Pushing(s, Written)
    BY <1>2, <1>3 DEF Pushing, Written
  <2>2. QED
    BY <1>b, <1>2, <2>1, RingKept, TaskFrame
<1>5. PushOK(d)'
  <2>1. /\ savedTo'[d] = s /\ at'[d] \in PushPlaces /\ at'[d] \notin Written
        /\ head'[s] = head[s] /\ (Listening(s)' <=> Listening(s))
    BY <1>b, <1>1, <1>2, TaskFrame DEF PushPlaces, Unwritten, Written
  <2>2. \A e \in Devices : at'[e] \in PushPlaces /\ savedTo'[e] = s => e = d
    BY <1>3
  <2>3. ASSUME Listening(s) PROVE /\ \A e \in Devices : context'[e] = s => e = d
                                  /\ \A p \in accepted'[file'[s]] : from'[p] = d
    <3>1. context[d] = s /\ file[s] # 0 /\ s # Null
      BY <1>2, <2>3, SaveAssumption DEF Listening
    <3>2. QED
      BY <1>2, <3>1 DEF CleanInv, ContextInv, PacketInv
  <2>4. QED
    BY <1>2, <2>1, <2>2, <2>3 DEF PushOK
<1>6. ASSUME NEW t \in Sessions, tsaver[t] = s PROVE PopOK(t)'
  <2>1. PopOK(t) /\ UNCHANGED <<tsaver, tpc, ttail, tpacket>>
    BY <1>b, TaskLeaves DEF CleanInv, RingInv
  <2>2. QED
    BY <1>2, <1>4, <1>6, <2>1 DEF PopOK
<1>7. count'[s] <= QueueLength
  BY <1>2 DEF CleanInv, RingInv, RingOK
<1>8. Offering(d)' => Offering(d)
  BY <1>2 DEF Offering, Written
<1>9. QED
  BY <1>b, <1>1, <1>2, <1>3, <1>4, <1>5, <1>6, <1>7, <1>8, PushKeeps

\* What a push that is under way can rely on.
LEMMA PushIs ==
    ASSUME BasicInv, CleanInv, NEW d \in Devices, BackgroundTask(d), at[d] \in PushPlaces,
           NEW s \in Savers, s = savedTo[d]
    PROVE  /\ \A e \in Devices \ {d} : savedTo[e] = s => at[e] \notin PushPlaces
           /\ \A e \in Devices \ {d} : UNCHANGED <<at[e], savedTo[e]>>
           /\ ~Resetting(s) /\ PushOK(d)
           /\ \A places \in SUBSET PushPlaces : Pushing(s, places) <=> at[d] \in places
           /\ savedTo'[d] = s \/ at'[d] \notin PushPlaces =>
                  \A places \in SUBSET PushPlaces : Pushing(s, places)' <=> at'[d] \in places
<1>1. PushOK(d) /\ RingOK(s) /\ Pushing(s, PushPlaces)
  BY DEF CleanInv, RingInv, Pushing
<1>2. /\ \A e \in Devices \ {d} : savedTo[e] = s => at[e] \notin PushPlaces
      /\ ~Resetting(s)
  BY <1>1 DEF PushOK, RingOK
<1>3. \A e \in Devices \ {d} : UNCHANGED <<at[e], savedTo[e]>>
  BY TaskLeaves
<1>4. ASSUME NEW places \in SUBSET PushPlaces
      PROVE  /\ Pushing(s, places) <=> at[d] \in places
             /\ savedTo'[d] = s \/ at'[d] \notin PushPlaces =>
                    (Pushing(s, places)' <=> at'[d] \in places)
  BY <1>2, <1>3 DEF Pushing
<1>5. QED
  BY <1>1, <1>2, <1>3, <1>4

\* The stores and loads of a push after its slot is written.
LEMMA CleanStores ==
    ASSUME BasicInv, OwnerInv, CleanInv, NEW d \in Devices,
           StoreHead(d) \/ LoadCount(d) \/ LoadTail(d) \/ AddCount(d) \/ StoreTail(d)
    PROVE  CleanInv'
<1> USE DEF saverVars, ringVars, threads, disk, history, received
<1>b. BackgroundTask(d)
  BY DEF BackgroundTask, Deliver
<1>1. PICK s \in Savers : s = savedTo[d]
  BY DEF BasicInv, TypeOK
<1>2. /\ UNCHANGED <<file, slots, context, program, threads, disk, received>>
      /\ at[d] \in Written /\ at'[d] \in Written \cup {"idle"}
      /\ at'[d] # "idle" => savedTo'[d] = s /\ offered'[d] = offered[d]
  BY <1>1 DEF StoreHead, LoadCount, LoadTail, AddCount, StoreTail, PushStep, PushEnds, Return,
    DeviceAt, Written, BasicInv, TypeOK
<1>3. /\ \A e \in Devices \ {d} : savedTo[e] = s => at[e] \notin PushPlaces
      /\ \A e \in Devices \ {d} : UNCHANGED <<at[e], savedTo[e]>>
      /\ ~Resetting(s) /\ PushOK(d)
      /\ \A places \in SUBSET PushPlaces : Pushing(s, places) <=> at[d] \in places
      /\ savedTo'[d] = s \/ at'[d] \notin PushPlaces =>
             \A places \in SUBSET PushPlaces : Pushing(s, places)' <=> at'[d] \in places
  BY <1>b, <1>1, <1>2, PushIs DEF PushPlaces
<1>4. /\ at'[d] = "idle" => at'[d] \notin PushPlaces
      /\ {"bump"} \in SUBSET PushPlaces /\ Written \in SUBSET PushPlaces
      /\ "idle" \notin Written
  BY DEF PushPlaces, Written, Unwritten
<1>5. /\ Pushing(s, {"bump"}) <=> at[d] = "bump"
      /\ Pushing(s, {"bump"})' <=> at'[d] = "bump"
      /\ Pushing(s, Written)
      /\ Pushing(s, Written)' <=> at'[d] # "idle"
  BY <1>2, <1>3, <1>4
<1>6. /\ Popping(s, {"uncount"})' <=> Popping(s, {"uncount"})
      /\ Listening(s)' <=> Listening(s)
  BY <1>b, TaskFrame
<1>7. /\ count[s] \in 0 .. QueueLength /\ Held(s) \in 0 .. QueueLength
      /\ QueueLength \in Nat /\ QueueLength < Modulus
      /\ tail[s] \in Slots /\ head[s] \in Slots
  BY RingBounds, RingSize DEF CleanInv
<1>8. ASSUME Kept(s), count'[s] <= QueueLength, PushOK(d)',
             \A t \in Sessions : tsaver[t] = s => PopOK(t)',
             \A r \in Savers \ {s} : UNCHANGED <<head[r], tail[r], count[r]>>
      PROVE  CleanInv'
  <2>1. at[d] # "idle" /\ (Offering(d)' => Offering(d))
    BY <1>2, <1>4 DEF Offering
  <2>2. savedTo'[d] = s \/ at'[d] \notin PushPlaces
    BY <1>2, <1>4
  <2>3. QED
    BY <1>b, <1>1, <1>2, <1>3, <1>8, <2>1, <2>2, PushKeeps
<1>9. ASSUME Kept(s), at'[d] \in {"count", "add", "oldest", "drop"},
             at'[d] = "add" => count'[s] < QueueLength,
             at'[d] \in {"oldest", "drop"} => count'[s] = QueueLength,
             at'[d] = "drop" => pindex'[d] = tail'[s]
      PROVE  PushOK(d)'
  <2>1. /\ savedTo'[d] = s /\ offered'[d] = offered[d] /\ at[d] \in PushPlaces
        /\ \A k : Entry(s, k)' = Entry(s, k)
    BY <1>2, <1>9, KeptEntries DEF PushPlaces
  <2>2. \A e \in Devices : at'[e] \in PushPlaces /\ savedTo'[e] = s => e = d
    BY <1>3
  <2>3. Listening(s)' => /\ \A e \in Devices : context'[e] = s => e = d
                         /\ \A p \in accepted'[file'[s]] : from'[p] = d
    BY <1>1, <1>2, <1>3, <1>6, <2>1 DEF PushOK
  <2>4. Entry(s, Size(s) - 1)' = offered'[d]
    BY <1>1, <1>2, <1>3, <1>9, <2>1 DEF PushOK, Kept
  <2>5. QED
    BY <1>9, <2>1, <2>2, <2>3, <2>4 DEF PushOK
<1>10. ASSUME UNCHANGED <<tail[s], count[s]>>, Overwriting(s)' <=> Overwriting(s),
              NEW t \in Sessions, tsaver[t] = s
       PROVE  PopOK(t)'
  <2>1. PopOK(t) /\ UNCHANGED <<tsaver, tpc, ttail, tpacket>>
    BY <1>2 DEF CleanInv, RingInv
  <2>2. QED
    BY <1>2, <1>10, <2>1 DEF PopOK
<1>11. CASE StoreHead(d)
  <2>1. /\ at[d] = "bump" /\ at'[d] = "count" /\ UNCHANGED <<tail, count, pindex>>
        /\ head' = [head EXCEPT ![s] = Succ(pindex[d])] /\ pindex[d] = head[s]
    BY <1>1, <1>3, <1>11 DEF StoreHead, PushStep, DeviceAt, PushOK, PushPlaces, Written,
      BasicInv, TypeOK
  <2>2. head'[s] = Succ(head[s]) /\ \A r \in Savers \ {s} : head'[r] = head[r]
    BY <2>1 DEF BasicInv, TypeOK
  <2>3. /\ Adding(s)' <=> Adding(s)
        /\ Overwriting(s)' <=> Overwriting(s)
    BY <1>5, <2>1 DEF Adding, Overwriting
  <2>4. Held(s)' = Held(s)
    BY <1>6, <2>1 DEF Held
  <2>5. Top(s)' = Top(s)
    BY <1>5, <2>1, <2>2 DEF Top
  <2>6. Base(s)' = Base(s) /\ Size(s)' = Size(s)
    BY <2>1, <2>3, <2>4 DEF Base, Size, Succ
  <2>7. Kept(s)
    BY <1>2, <2>5, <2>6 DEF Kept
  <2>8. QED
    BY <1>7, <1>8, <1>9, <1>10, <2>1, <2>2, <2>3, <2>7
<1>12. CASE LoadCount(d) \/ LoadTail(d)
  <2>1. /\ UNCHANGED <<head, tail, count>> /\ at[d] # "bump" /\ at'[d] # "bump"
        /\ at'[d] \in {"add", "oldest", "drop"}
        /\ at'[d] = "add" => count[s] < QueueLength
        /\ at'[d] = "oldest" => count[s] >= QueueLength
        /\ at'[d] = "drop" => pindex'[d] = tail[s] /\ at[d] = "oldest"
    BY <1>1, <1>7, <1>12 DEF LoadCount, LoadTail, PushStep, DeviceAt, BasicInv, TypeOK
  <2>2. Kept(s) /\ (Overwriting(s)' <=> Overwriting(s))
    <3>1. at'[d] # "idle"
      BY <2>1
    <3>2. QED
      BY <1>2, <1>5, <1>6, <2>1, <3>1, RingKept
  <2>3. at'[d] \in {"oldest", "drop"} => count[s] = QueueLength
    BY <1>1, <1>3, <1>7, <2>1 DEF PushOK, PushPlaces, Written
  <2>4. QED
    BY <1>7, <1>8, <1>9, <1>10, <2>1, <2>2, <2>3
<1>13. CASE AddCount(d)
  <2>1. /\ at[d] = "add" /\ at'[d] = "idle" /\ UNCHANGED <<head, tail>>
        /\ count' = [count EXCEPT ![s] = (@ + 1) % Modulus] /\ count[s] < QueueLength
    BY <1>1, <1>3, <1>13 DEF AddCount, PushEnds, Return, DeviceAt, PushOK, PushPlaces, Written,
      BasicInv, TypeOK
  <2>2. count'[s] = count[s] + 1 /\ \A r \in Savers \ {s} : count'[r] = count[r]
    <3>1. count'[s] = (count[s] + 1) % Modulus /\ \A r \in Savers \ {s} : count'[r] = count[r]
      BY <2>1 DEF BasicInv, TypeOK
    <3>2. QED
      BY <1>7, <2>1, <3>1 DEF Modulus
  <2>3. Adding(s) /\ ~Overwriting(s) /\ ~Adding(s)' /\ ~Overwriting(s)'
    BY <1>5, <1>7, <2>1 DEF Adding, Overwriting
  <2>4. Held(s)' = Held(s) + 1
    BY <1>6, <1>7, <2>2 DEF Held
  <2>5. Top(s)' = Top(s)
    BY <1>5, <2>1 DEF Top
  <2>6. Base(s)' = Base(s) /\ Size(s)' = Size(s)
    BY <2>1, <2>3, <2>4 DEF Base, Size
  <2>7. Kept(s)
    BY <1>2, <2>5, <2>6 DEF Kept
  <2>8. ASSUME NEW t \in Sessions, tsaver[t] = s PROVE PopOK(t)'
    <3>1. PopOK(t) /\ UNCHANGED <<tsaver, tpc, ttail, tpacket>>
      BY <1>2 DEF CleanInv, RingInv
    <3>2. count'[s] > 0 /\ tail'[s] = tail[s] /\ slots'[s] = slots[s]
      BY <1>2, <1>7, <2>1, <2>2
    <3>3. QED
      BY <2>3, <2>8, <3>1, <3>2 DEF PopOK
  <2>9. PushOK(d)'
    BY <1>4, <2>1 DEF PushOK
  <2>10. count'[s] <= QueueLength
    BY <1>7, <2>1, <2>2
  <2>11. QED
    BY <1>8, <2>1, <2>2, <2>7, <2>8, <2>9, <2>10
<1>14. CASE StoreTail(d)
  <2>1. /\ at[d] = "drop" /\ at'[d] = "idle" /\ UNCHANGED <<head, count>>
        /\ tail' = [tail EXCEPT ![s] = Succ(pindex[d])]
        /\ count[s] = QueueLength /\ pindex[d] = tail[s]
    BY <1>1, <1>3, <1>14 DEF StoreTail, PushEnds, Return, DeviceAt, PushOK, PushPlaces, Written,
      BasicInv, TypeOK
  <2>2. tail'[s] = Succ(tail[s]) /\ \A r \in Savers \ {s} : tail'[r] = tail[r]
    BY <2>1 DEF BasicInv, TypeOK
  <2>3. ~Adding(s) /\ Overwriting(s) /\ ~Adding(s)' /\ ~Overwriting(s)'
    BY <1>5, <1>7, <2>1 DEF Adding, Overwriting
  <2>4. Held(s)' = Held(s)
    BY <1>6, <2>1 DEF Held
  <2>5. Top(s)' = Top(s)
    BY <1>5, <2>1 DEF Top
  <2>6. Base(s)' = Base(s) /\ Size(s)' = Size(s)
    BY <2>2, <2>3, <2>4 DEF Base, Size
  <2>7. Kept(s)
    BY <1>2, <2>5, <2>6 DEF Kept
  <2>8. ASSUME NEW t \in Sessions, tsaver[t] = s PROVE PopOK(t)'
    BY <1>2, <2>3, <2>8 DEF CleanInv, RingInv, PopOK
  <2>9. PushOK(d)'
    BY <1>4, <2>1 DEF PushOK
  <2>10. count'[s] <= QueueLength
    BY <1>7, <2>1
  <2>11. QED
    BY <1>8, <2>1, <2>2, <2>7, <2>8, <2>9, <2>10
<1>15. QED
  BY <1>11, <1>12, <1>13, <1>14

\* What the ring is when its slot has been written: one packet more, or, when it was
\* full, the new one for the oldest.
LEMMA FillIs ==
    ASSUME BasicInv, CleanInv, Clean', NEW d \in Devices, Fill(d),
           NEW s \in Savers, s = savedTo[d], NEW n \in 0 .. QueueLength, n = Size(s)
    PROVE  /\ UNCHANGED <<head, tail, count>>
           /\ \A r \in Savers \ {s} : slots'[r] = slots[r]
           /\ Top(s)' = At(Base(s)', Size(s)')
           /\ Overwriting(s)' <=> count[s] >= QueueLength
           /\ count[s] < QueueLength =>
                  /\ n < QueueLength /\ Size(s)' = n + 1
                  /\ \A k \in 0 .. n - 1 : Entry(s, k)' = Entry(s, k)
                  /\ Entry(s, n)' = offered[d]
                  /\ Size(s) = Held(s) /\ (n > 0 => slots'[s][tail[s]] = slots[s][tail[s]])
                  /\ dropped' = Received(dropped, s, {})
           /\ count[s] >= QueueLength =>
                  /\ n = QueueLength /\ Size(s)' = n /\ count[s] = QueueLength
                  /\ \A k \in 0 .. QueueLength - 2 : Entry(s, k)' = Entry(s, k + 1)
                  /\ Entry(s, QueueLength - 1)' = offered[d]
                  /\ dropped' = Received(dropped, s, {Entry(s, 0)})
                  /\ ~Popping(s, PopPlaces)
<1> USE DEF saverVars, ringVars, threads, disk, history, received
<1>b. BackgroundTask(d)
  BY DEF BackgroundTask, Deliver
<1>1. /\ UNCHANGED <<head, tail, count, savedTo>> /\ at[d] = "fill" /\ at'[d] = "bump"
      /\ slots' = [slots EXCEPT ![s][pindex[d]] = offered[d]]
      /\ dropped' = Received(dropped, s, IF count[s] >= QueueLength THEN {slots[s][pindex[d]]}
                                                                   ELSE {})
      /\ count[s] >= QueueLength => ~Popping(s, PopPlaces)
  BY DEF Fill, DeviceAt, Clean, BasicInv, TypeOK
<1>2. /\ {"bump"} \in SUBSET PushPlaces /\ Written \in SUBSET PushPlaces /\ "fill" \in PushPlaces
      /\ "bump" \in Written /\ "fill" \notin Written
  BY DEF PushPlaces, Written, Unwritten
<1>3. /\ PushOK(d) /\ ~Resetting(s)
      /\ \A places \in SUBSET PushPlaces : Pushing(s, places) <=> at[d] \in places
      /\ savedTo'[d] = s \/ at'[d] \notin PushPlaces =>
             \A places \in SUBSET PushPlaces : Pushing(s, places)' <=> at'[d] \in places
  BY <1>b, <1>1, <1>2, PushIs
<1>4. /\ ~Pushing(s, {"bump"}) /\ ~Pushing(s, Written)
      /\ Pushing(s, {"bump"})' /\ Pushing(s, Written)'
  BY <1>1, <1>2, <1>3
<1>5. pindex[d] = head[s]
  BY <1>1, <1>2, <1>3 DEF PushOK
<1>6. /\ count[s] \in 0 .. QueueLength /\ QueueLength \in Nat \ {0}
      /\ tail[s] \in Slots /\ head[s] \in Slots /\ Held(s) \in 0 .. QueueLength
      /\ Held(s) \in {count[s] - 1, count[s]}
  BY RingBounds, RingSize DEF CleanInv, Held
<1>7. /\ Held(s)' = Held(s) /\ n = Held(s) /\ Base(s) = tail[s]
      /\ Top(s) = head[s] /\ Top(s)' = Succ(head[s])
  <2>1. Held(s)' = Held(s)
    BY <1>b, <1>1, TaskFrame DEF Held
  <2>2. ~Adding(s) /\ ~Overwriting(s)
    BY <1>4 DEF Adding, Overwriting
  <2>3. QED
    BY <1>1, <1>4, <2>1, <2>2 DEF Base, Size, Top
<1>8. head[s] = At(tail[s], n)
  BY <1>3, <1>7 DEF CleanInv, RingInv, RingOK
<1>9. /\ slots'[s][head[s]] = offered[d]
      /\ \A i \in Slots \ {head[s]} : slots'[s][i] = slots[s][i]
      /\ \A r \in Savers \ {s} : slots'[r] = slots[r]
  <2>1. slots \in [Savers -> [Slots -> Packets]]
    BY DEF BasicInv, TypeOK
  <2>2. slots'[s] = [slots[s] EXCEPT ![head[s]] = offered[d]] /\ slots[s] \in [Slots -> Packets]
    BY <1>1, <1>5, <2>1
  <2>3. \A r \in Savers \ {s} : slots'[r] = slots[r]
    BY <1>1, <2>1
  <2>4. QED
    BY <1>6, <2>2, <2>3
<1>10. CASE count[s] < QueueLength
  <2>1. ~Overwriting(s)' /\ Adding(s)'
    BY <1>1, <1>4, <1>6, <1>10 DEF Overwriting, Adding
  <2>2. Base(s)' = tail[s] /\ Size(s)' = n + 1
    BY <1>1, <1>7, <2>1 DEF Base, Size
  <2>3. n \in 0 .. QueueLength - 1
    BY <1>6, <1>7, <1>10
  <2>4. Succ(head[s]) = At(tail[s], n + 1)
    BY <1>6, <1>8, <2>3, AtOfSucc
  <2>5. \A k \in 0 .. n - 1 : At(tail[s], k) \in Slots /\ At(tail[s], k) # head[s]
    <3>1. \A k \in 0 .. n - 1 : k \in 0 .. QueueLength - 1 /\ k \in 0 .. QueueLength /\ k # n
      BY <2>3, RingSize
    <3>2. QED
      BY <1>6, <1>8, <2>3, <3>1, AtLap, AtIs
  <2>6. \A k : Entry(s, k)' = slots'[s][At(tail[s], k)] /\ Entry(s, k) = slots[s][At(tail[s], k)]
    BY <1>7, <2>2 DEF Entry, At
  <2>7. /\ \A k \in 0 .. n - 1 : Entry(s, k)' = Entry(s, k)
        /\ Entry(s, n)' = offered[d]
    BY <1>8, <1>9, <2>5, <2>6
  <2>8. n > 0 => slots'[s][tail[s]] = slots[s][tail[s]]
    <3>1. n > 0 => 0 \in 0 .. n - 1
      BY <2>3
    <3>2. At(tail[s], 0) = tail[s]
      BY <1>6, AtLap
    <3>3. QED
      BY <1>9, <2>5, <3>1, <3>2
  <2>9. Top(s)' = At(Base(s)', Size(s)')
    BY <1>7, <2>2, <2>4
  <2>10. ~(count[s] >= QueueLength) /\ n < QueueLength
    BY <1>6, <1>10, <2>3
  <2>11. dropped' = Received(dropped, s, {})
    BY <1>1, <2>10
  <2>12. QED
    BY <1>1, <1>7, <1>9, <2>1, <2>2, <2>7, <2>8, <2>9, <2>10, <2>11
<1>11. CASE count[s] >= QueueLength
  <2>1. Overwriting(s)' /\ ~Adding(s)' /\ count[s] = QueueLength
    BY <1>1, <1>4, <1>6, <1>11 DEF Overwriting, Adding
  <2>2. n = QueueLength
    <3>1. ~Popping(s, {"uncount"})
      BY <1>1, <1>11 DEF Popping, PopPlaces
    <3>2. QED
      BY <1>7, <2>1, <3>1 DEF Held
  <2>3. Base(s)' = Succ(tail[s]) /\ Size(s)' = n
    BY <1>1, <1>7, <2>1 DEF Base, Size, Succ
  <2>4. head[s] = tail[s] /\ Succ(tail[s]) \in Slots
    BY <1>6, <1>8, <2>2, AtLap, SuccIsSlot
  <2>5. \A k \in 0 .. QueueLength - 1 : At(Succ(tail[s]), k) = At(tail[s], k + 1)
    BY <1>6, AtOfSucc
  <2>6. \A k \in 0 .. QueueLength - 2 :
            At(tail[s], k + 1) \in Slots /\ At(tail[s], k + 1) # tail[s]
    <3>1. ASSUME NEW k \in 0 .. QueueLength - 2
          PROVE  /\ k + 1 \in 0 .. QueueLength - 1
                 /\ k + 1 \in 0 .. QueueLength /\ k + 1 # 0 /\ 0 \in 0 .. QueueLength - 1
      BY RingSize
    <3>2. QED
      BY <1>6, <3>1, AtLap, AtIs
  <2>7. \A k : /\ Entry(s, k)' = slots'[s][At(Succ(tail[s]), k)]
               /\ Entry(s, k) = slots[s][At(tail[s], k)]
    BY <1>7, <2>3 DEF Entry, At
  <2>8. \A k \in 0 .. QueueLength - 2 : Entry(s, k)' = Entry(s, k + 1)
    <3>1. \A k \in 0 .. QueueLength - 2 : k \in 0 .. QueueLength - 1
      BY RingSize
    <3>2. QED
      BY <1>9, <2>4, <2>5, <2>6, <2>7, <3>1
  <2>9. Entry(s, QueueLength - 1)' = offered[d]
    <3>1. QueueLength - 1 \in 0 .. QueueLength - 1 /\ (QueueLength - 1) + 1 = QueueLength
      BY RingSize
    <3>2. At(Succ(tail[s]), QueueLength - 1) = tail[s]
      BY <1>6, <2>5, <3>1, AtLap
    <3>3. QED
      BY <1>9, <2>4, <2>7, <3>2
  <2>10. dropped' = Received(dropped, s, {Entry(s, 0)})
    <3>1. At(tail[s], 0) = tail[s]
      BY <1>6, AtLap
    <3>2. QED
      BY <1>1, <1>5, <1>11, <2>4, <2>7, <3>1
  <2>11. Top(s)' = At(Base(s)', Size(s)')
    BY <1>7, <2>2, <2>3, <2>4, AtLap
  <2>12. ~(count[s] < QueueLength)
    BY <1>6, <1>11
  <2>13. QED
    BY <1>1, <1>9, <1>11, <2>1, <2>2, <2>3, <2>8, <2>9, <2>10, <2>11, <2>12
<1>12. QED
  BY <1>6, <1>10, <1>11

\* The packets a session has, when a push to its ring has written its slot.
LEMMA PacketsOfFill ==
    ASSUME BasicInv, OwnerInv, CleanInv, NEW d \in Devices, Fill(d),
           NEW s \in Savers, s = savedTo[d]
    PROVE  /\ PacketInv'
           /\ Listening(s) => /\ \A p \in accepted'[file[s]] : from[p] = d
                              /\ \A p \in accepted[file[s]] : p < offered[d]
                              /\ accepted'[file[s]] = accepted[file[s]] \cup {offered[d]}
           /\ \A f \in Sessions :
                  f # file[s] \/ ~Listening(s) => UNCHANGED <<accepted[f], dropped[f]>>
<1> USE DEF saverVars, ringVars, threads, disk, history, received
<1>1. /\ UNCHANGED <<file, context, savedTo, offered, from>> /\ at[d] = "fill" /\ at'[d] = "bump"
      /\ accepted' = Received(accepted, s, {offered[d]})
      /\ dropped' = Received(dropped, s, IF count[s] >= QueueLength THEN {slots[s][pindex[d]]}
                                                                   ELSE {})
      /\ \A e \in Devices \ {d} : at'[e] = at[e]
  BY DEF Fill, DeviceAt, BasicInv, TypeOK
<1>2. /\ \A f \in Sessions : f # file[s] \/ ~Listening(s) => UNCHANGED <<accepted[f], dropped[f]>>
      /\ Listening(s) => /\ accepted'[file[s]] = accepted[file[s]] \cup {offered[d]}
                         /\ file[s] \in Sessions
  BY <1>1 DEF Received, Listening, BasicInv, TypeOK
<1>3. /\ offered[d] \in 1 .. Len(from) /\ from[offered[d]] = d
      /\ PushOK(d) /\ Offering(d) /\ at[d] \in PushPlaces
  BY <1>1 DEF CleanInv, PacketInv, RingInv, Offering, Written, PushPlaces, Unwritten
<1>4. Listening(s) => /\ \A e \in Devices : context[e] = s => e = d
                      /\ \A p \in accepted[file[s]] : from[p] = d /\ p < offered[d]
  BY <1>2, <1>3 DEF PushOK, CleanInv, PacketInv
<1>5. Listening(s) => \A p \in accepted'[file[s]] : from[p] = d
  BY <1>2, <1>3, <1>4
<1>6. \A f \in Sessions : \A p \in accepted'[f] :
          p \in accepted[f] \/ (Listening(s) /\ f = file[s] /\ p = offered[d])
  BY <1>2
<1>7. PacketInv'
  <2>p. /\ \A e \in Devices : at[e] # "idle" =>
               offered[e] \in 1 .. Len(from) /\ from[offered[e]] = e
        /\ \A f \in Sessions : accepted[f] \subseteq 1 .. Len(from)
        /\ \A f \in Sessions, e \in Devices : Offering(e) =>
               \A p \in accepted[f] : from[p] = e => p < offered[e]
        /\ \A f \in Sessions : \A p, q \in accepted[f] : from[p] = from[q]
        /\ \A r \in Savers, e \in Devices : file[r] # 0 /\ context[e] = r =>
               \A p \in accepted[file[r]] : from[p] = e
    BY DEF CleanInv, PacketInv
  <2>1. \A e \in Devices : at'[e] # "idle" =>
            offered'[e] \in 1 .. Len(from') /\ from'[offered'[e]] = e
    BY <1>1, <1>3, <2>p
  <2>2. \A f \in Sessions : accepted'[f] \subseteq 1 .. Len(from')
    <3>1. ASSUME NEW f \in Sessions, NEW p \in accepted'[f] PROVE p \in 1 .. Len(from)
      BY <1>3, <1>6, <2>p
    <3>2. QED
      BY <1>1, <3>1
  <2>3. ASSUME NEW f \in Sessions, NEW e \in Devices, Offering(e)',
               NEW p \in accepted'[f], from'[p] = e
        PROVE  p < offered'[e]
    <3>1. e # d /\ Offering(e)
      BY <1>1, <2>3 DEF Offering, Written
    <3>2. from[p] = e /\ p \in accepted[f]
      BY <1>1, <1>3, <1>6, <2>3, <3>1
    <3>3. QED
      BY <1>1, <2>p, <3>1, <3>2
  <2>4. ASSUME NEW f \in Sessions, NEW p \in accepted'[f], NEW q \in accepted'[f]
        PROVE  from'[p] = from'[q]
    <3>1. CASE Listening(s) /\ f = file[s]
      BY <1>1, <1>5, <2>4, <3>1
    <3>2. CASE ~Listening(s) \/ f # file[s]
      <4>1. accepted'[f] = accepted[f]
        BY <1>2, <3>2
      <4>2. from[p] = from[q]
        BY <2>4, <2>p, <4>1
      <4>3. QED
        BY <1>1, <4>2
    <3>3. QED
      BY <3>1, <3>2
  <2>5. ASSUME NEW r \in Savers, NEW e \in Devices, file'[r] # 0, context'[e] = r,
               NEW p \in accepted'[file'[r]]
        PROVE  from'[p] = e
    <3>1. file[r] \in Sessions /\ file[r] # 0 /\ context[e] = r /\ p \in accepted'[file[r]]
      BY <1>1, <2>5 DEF BasicInv, TypeOK
    <3>2. CASE Listening(s) /\ file[r] = file[s]
      <4>1. r = s
        BY <3>1, <3>2, FileIsOne
      <4>2. e = d
        BY <1>4, <3>1, <3>2, <4>1
      <4>3. from[p] = d
        BY <1>5, <3>1, <3>2
      <4>4. QED
        BY <1>1, <4>2, <4>3
    <3>3. CASE ~Listening(s) \/ file[r] # file[s]
      <4>1. p \in accepted[file[r]]
        BY <1>2, <3>1, <3>3
      <4>2. from[p] = e
        BY <2>p, <3>1, <4>1
      <4>3. QED
        BY <1>1, <4>2
    <3>4. QED
      BY <3>2, <3>3
  <2>6. QED
    BY <2>1, <2>2, <2>3, <2>4, <2>5 DEF PacketInv
<1>8. QED
  BY <1>2, <1>4, <1>5, <1>7

\* The session that listens, when its ring has one packet more.
LEMMA SessionGains ==
    ASSUME NEW f \in Sessions, NEW s \in Savers, tsaver[f] = s, tsaver'[f] = s,
           RowsOf(f)' = RowsOf(f), Hand(f)' = Hand(f),
           Accounted(f), Ascending(f), NEW p, accepted'[f] = accepted[f] \cup {p},
           dropped'[f] = dropped[f], \A q \in accepted[f] : q < p,
           NEW n \in Nat, n = Size(s), Size(s)' = n + 1,
           \A k \in 0 .. n - 1 : Entry(s, k)' = Entry(s, k), Entry(s, n)' = p
    PROVE  Accounted(f)' /\ Ascending(f)'
<1>1. /\ accepted[f] = RowsOf(f) \cup Hand(f) \cup InRing(s) \cup dropped[f]
      /\ \A j, k \in 0 .. n - 1 : j < k => Entry(s, j) < Entry(s, k)
      /\ \A x \in Hand(f), q \in InRing(s) : x < q
      /\ \A r \in RowsOf(f), q \in Hand(f) \cup InRing(s) : r < q
  BY DEF Accounted, Ascending
<1>2. /\ \A q : q \in InRing(s) <=> \E k \in 0 .. n - 1 : q = Entry(s, k)
      /\ \A q : q \in InRing(s)' <=> \E k \in 0 .. n : q = Entry(s, k)'
  BY DEF InRing
<1>3. \A k \in 0 .. n : k = n \/ k \in 0 .. n - 1
  OBVIOUS
<1>4. InRing(s)' = InRing(s) \cup {p}
  <2>1. ASSUME NEW q, q \in InRing(s)' PROVE q \in InRing(s) \cup {p}
    BY <1>2, <1>3, <2>1
  <2>2. ASSUME NEW q, q \in InRing(s) PROVE q \in InRing(s)'
    BY <1>2, <2>2
  <2>3. p \in InRing(s)'
    BY <1>2
  <2>4. QED
    BY <2>1, <2>2, <2>3
<1>5. \A q \in RowsOf(f) \cup Hand(f) \cup InRing(s) : q < p
  BY <1>1
<1>6. Accounted(f)'
  BY <1>1, <1>4 DEF Accounted
<1>7. ASSUME NEW j \in 0 .. n, NEW k \in 0 .. n, j < k
      PROVE  Entry(s, j)' < Entry(s, k)'
  <2>1. j \in 0 .. n - 1
    BY <1>7
  <2>2. CASE k = n
    <3>1. Entry(s, j) \in InRing(s)
      BY <1>2, <2>1
    <3>2. QED
      BY <1>5, <2>1, <2>2, <3>1
  <2>3. CASE k # n
    <3>1. k \in 0 .. n - 1
      BY <2>3
    <3>2. QED
      BY <1>1, <1>7, <2>1, <3>1
  <2>4. QED
    BY <2>2, <2>3
<1>8. Size(s)' - 1 = n
  OBVIOUS
<1>9. Ascending(f)'
  <2>1. \A x \in Hand(f), q \in InRing(s)' : x < q
    BY <1>1, <1>4, <1>5
  <2>2. \A r \in RowsOf(f), q \in Hand(f) \cup InRing(s)' : r < q
    BY <1>1, <1>4, <1>5
  <2>3. \A j, k \in 0 .. Size(s)' - 1 : j < k => Entry(s, j)' < Entry(s, k)'
    BY <1>7, <1>8
  <2>4. QED
    BY <2>1, <2>2, <2>3 DEF Ascending
<1>10. QED
  BY <1>6, <1>9

\* The session that listens, when its full ring has a new packet for the oldest.
LEMMA SessionDrops ==
    ASSUME NEW f \in Sessions, NEW s \in Savers, tsaver[f] = s, tsaver'[f] = s,
           RowsOf(f)' = RowsOf(f), Hand(f)' = Hand(f),
           Accounted(f), Ascending(f), NEW p, accepted'[f] = accepted[f] \cup {p},
           dropped'[f] = dropped[f] \cup {Entry(s, 0)}, \A q \in accepted[f] : q < p,
           NEW n \in Nat \ {0}, n = Size(s), Size(s)' = n,
           \A k \in 0 .. n - 2 : Entry(s, k)' = Entry(s, k + 1), Entry(s, n - 1)' = p
    PROVE  Accounted(f)' /\ Ascending(f)'
<1>1. /\ accepted[f] = RowsOf(f) \cup Hand(f) \cup InRing(s) \cup dropped[f]
      /\ \A j, k \in 0 .. n - 1 : j < k => Entry(s, j) < Entry(s, k)
      /\ \A x \in Hand(f), q \in InRing(s) : x < q
      /\ \A r \in RowsOf(f), q \in Hand(f) \cup InRing(s) : r < q
  BY DEF Accounted, Ascending
<1>2. /\ \A q : q \in InRing(s) <=> \E k \in 0 .. n - 1 : q = Entry(s, k)
      /\ \A q : q \in InRing(s)' <=> \E k \in 0 .. n - 1 : q = Entry(s, k)'
  BY DEF InRing
<1>3. ASSUME NEW q, q \in InRing(s)' PROVE q \in InRing(s) \cup {p}
  <2>1. PICK k \in 0 .. n - 1 : q = Entry(s, k)'
    BY <1>2, <1>3
  <2>2. CASE k = n - 1
    BY <2>1, <2>2
  <2>3. CASE k # n - 1
    <3>1. k \in 0 .. n - 2 /\ k + 1 \in 0 .. n - 1
      BY <2>3
    <3>2. QED
      BY <1>2, <2>1, <3>1
  <2>4. QED
    BY <2>2, <2>3
<1>4. ASSUME NEW q, q \in InRing(s) PROVE q \in InRing(s)' \cup {Entry(s, 0)}
  <2>1. PICK k \in 0 .. n - 1 : q = Entry(s, k)
    BY <1>2, <1>4
  <2>2. CASE k # 0
    <3>1. PICK j \in 0 .. n - 2 : j + 1 = k
      <4>1. k - 1 \in 0 .. n - 2 /\ (k - 1) + 1 = k
        BY <2>2
      <4>2. QED
        BY <4>1
    <3>2. j \in 0 .. n - 1 /\ Entry(s, j)' = q
      BY <2>1, <3>1
    <3>3. QED
      BY <1>2, <3>2
  <2>3. QED
    BY <2>1, <2>2
<1>5. p \in InRing(s)' /\ Entry(s, 0) \in InRing(s)
  <2>1. n - 1 \in 0 .. n - 1 /\ 0 \in 0 .. n - 1
    OBVIOUS
  <2>2. QED
    BY <1>2, <2>1
<1>6. \A q \in RowsOf(f) \cup Hand(f) \cup InRing(s) : q < p
  BY <1>1
<1>7. Accounted(f)'
  <2>1. accepted'[f] = RowsOf(f) \cup Hand(f) \cup InRing(s)' \cup dropped'[f]
    BY <1>1, <1>3, <1>4, <1>5
  <2>2. QED
    BY <2>1 DEF Accounted
<1>8. ASSUME NEW j \in 0 .. n - 1, NEW k \in 0 .. n - 1, j < k
      PROVE  Entry(s, j)' < Entry(s, k)'
  <2>1. j \in 0 .. n - 2 /\ j + 1 \in 0 .. n - 1
    BY <1>8
  <2>2. Entry(s, j)' = Entry(s, j + 1) /\ Entry(s, j + 1) \in InRing(s)
    BY <1>2, <2>1
  <2>3. CASE k = n - 1
    BY <1>6, <2>2, <2>3
  <2>4. CASE k # n - 1
    <3>1. k \in 0 .. n - 2 /\ k + 1 \in 0 .. n - 1 /\ j + 1 < k + 1
      BY <1>8, <2>4
    <3>2. QED
      BY <1>1, <2>1, <2>2, <3>1
  <2>5. QED
    BY <2>3, <2>4
<1>9. Ascending(f)'
  <2>1. \A x \in Hand(f), q \in InRing(s)' : x < q
    BY <1>1, <1>3, <1>6
  <2>2. \A r \in RowsOf(f), q \in Hand(f) \cup InRing(s)' : r < q
    BY <1>1, <1>3, <1>6
  <2>3. \A j, k \in 0 .. Size(s)' - 1 : j < k => Entry(s, j)' < Entry(s, k)'
    BY <1>8
  <2>4. QED
    BY <2>1, <2>2, <2>3 DEF Ascending
<1>10. QED
  BY <1>7, <1>9

\* The write of the slot.
LEMMA CleanFill ==
    ASSUME BasicInv, FilesInv, OwnerInv, CleanInv, Clean', NEW d \in Devices, Fill(d)
    PROVE  CleanInv'
<1>b. BackgroundTask(d)
  BY DEF BackgroundTask, Deliver
<1>1. PICK s \in Savers : s = savedTo[d]
  BY DEF BasicInv, TypeOK
<1>2. PICK n \in 0 .. QueueLength : n = Size(s)
  BY RingBounds DEF CleanInv
<1>3. /\ UNCHANGED <<head, tail, count>>
      /\ \A r \in Savers \ {s} : slots'[r] = slots[r]
      /\ Top(s)' = At(Base(s)', Size(s)')
      /\ Overwriting(s)' <=> count[s] >= QueueLength
      /\ count[s] < QueueLength =>
             /\ n < QueueLength /\ Size(s)' = n + 1
             /\ \A k \in 0 .. n - 1 : Entry(s, k)' = Entry(s, k)
             /\ Entry(s, n)' = offered[d]
             /\ Size(s) = Held(s) /\ (n > 0 => slots'[s][tail[s]] = slots[s][tail[s]])
             /\ dropped' = Received(dropped, s, {})
      /\ count[s] >= QueueLength =>
             /\ n = QueueLength /\ Size(s)' = n /\ count[s] = QueueLength
             /\ \A k \in 0 .. QueueLength - 2 : Entry(s, k)' = Entry(s, k + 1)
             /\ Entry(s, QueueLength - 1)' = offered[d]
             /\ dropped' = Received(dropped, s, {Entry(s, 0)})
             /\ ~Popping(s, PopPlaces)
  BY <1>1, <1>2, FillIs
<1> USE DEF saverVars, ringVars, threads, disk, history, received
<1>4. /\ PacketInv'
      /\ Listening(s) => /\ \A p \in accepted'[file[s]] : from[p] = d
                         /\ \A p \in accepted[file[s]] : p < offered[d]
                         /\ accepted'[file[s]] = accepted[file[s]] \cup {offered[d]}
      /\ \A f \in Sessions :
             f # file[s] \/ ~Listening(s) => UNCHANGED <<accepted[f], dropped[f]>>
  BY <1>1, PacketsOfFill
<1>5. /\ at[d] = "fill" /\ at'[d] = "bump" /\ UNCHANGED <<savedTo, offered, pindex, from>>
      /\ UNCHANGED <<file, context, program, threads, disk>>
  BY DEF Fill, DeviceAt, BasicInv, TypeOK
<1>6. /\ \A e \in Devices \ {d} : savedTo[e] = s => at[e] \notin PushPlaces
      /\ \A e \in Devices \ {d} : UNCHANGED <<at[e], savedTo[e]>>
      /\ ~Resetting(s) /\ PushOK(d)
      /\ "fill" \in PushPlaces /\ "bump" \in PushPlaces
  BY <1>b, <1>1, <1>5, PushIs DEF PushPlaces, Unwritten, Written
<1>7. /\ \A r \in Savers \ {s} : Kept(r) /\ RingOK(r)'
      /\ \A e \in Devices \ {d} : savedTo[e] # s => PushOK(e)'
      /\ \A t \in Sessions : tsaver[t] # s => PopOK(t)'
      /\ \A f \in Sessions : tsaver[f] # s => SessionOK(f)'
  <2>1. \A f \in Sessions : f # file[s] => UNCHANGED <<accepted[f], dropped[f]>>
    BY <1>4
  <2>2. \A r \in Savers \ {s} : UNCHANGED <<head[r], tail[r], count[r], slots[r]>>
    BY <1>3
  <2>3. savedTo[d] = s /\ savedTo'[d] = s
    BY <1>1, <1>5
  <2>4. \A f \in Sessions : \A p \in accepted[f] : UNCHANGED from[p]
    BY <1>5
  <2>5. QED
    BY <1>b, <2>1, <2>2, <2>3, <2>4, OtherRings
<1>8. RingOK(s)'
  <2>1. ~Resetting(s)' /\ count'[s] <= QueueLength
    BY <1>3, <1>5, <1>6 DEF Resetting, program, CleanInv, RingInv, RingOK
  <2>2. QED
    BY <1>3, <2>1 DEF RingOK, At
<1>9. \A e \in Devices \ {d} : savedTo[e] = s => PushOK(e)'
  BY <1>6 DEF PushOK
<1>10. PushOK(d)'
  <2>1. savedTo'[d] = s /\ pindex'[d] = head'[s]
    BY <1>1, <1>3, <1>5, <1>6 DEF PushOK
  <2>2. \A e \in Devices : at'[e] \in PushPlaces /\ savedTo'[e] = s => e = d
    BY <1>6
  <2>3. Entry(s, Size(s) - 1)' = offered'[d]
    <3>1. count[s] < QueueLength \/ count[s] >= QueueLength
      BY RingSize DEF BasicInv, TypeOK
    <3>2. CASE count[s] < QueueLength
      <4>1. Size(s)' - 1 = n
        BY <1>3, <3>2
      <4>2. QED
        BY <1>3, <1>5, <3>2, <4>1
    <3>3. CASE count[s] >= QueueLength
      <4>1. Size(s)' = QueueLength
        BY <1>3, <3>3
      <4>2. QED
        BY <1>3, <1>5, <3>3, <4>1
    <3>4. QED
      BY <3>1, <3>2, <3>3
  <2>4. Listening(s)' => /\ \A e \in Devices : context'[e] = s => e = d
                         /\ \A p \in accepted'[file'[s]] : from'[p] = d
    <3>1. Listening(s)' <=> Listening(s)
      BY <1>b, TaskFrame
    <3>2. QED
      BY <1>1, <1>4, <1>5, <1>6, <3>1 DEF PushOK
  <2>5. QED
    BY <1>5, <2>1, <2>2, <2>3, <2>4 DEF PushOK
<1>11. ASSUME NEW t \in Sessions, tsaver[t] = s PROVE PopOK(t)'
  <2>1. SUFFICES ASSUME tpc[t] \in PopPlaces PROVE PopOK(t)'
    BY <1>5 DEF PopOK
  <2>2. Popping(s, PopPlaces) /\ PopOK(t)
    BY <1>11, <2>1 DEF Popping, CleanInv, RingInv
  <2>3. count[s] < QueueLength /\ ~Overwriting(s)'
    <3>1. count[s] < QueueLength \/ count[s] >= QueueLength
      BY RingSize DEF BasicInv, TypeOK
    <3>2. QED
      BY <1>3, <2>2, <3>1
  <2>4. tpc[t] = "commit" => slots'[s][tail[s]] = slots[s][tail[s]]
    <3>1. SUFFICES ASSUME tpc[t] = "commit" PROVE slots'[s][tail[s]] = slots[s][tail[s]]
      OBVIOUS
    <3>2. ~Popping(s, {"uncount"})
      BY <3>1 DEF CleanInv, ThreadInv, Alive, Popping
    <3>3. n = count[s] /\ count[s] > 0
      BY <1>2, <1>3, <1>11, <2>1, <2>2, <2>3, <3>2 DEF Held, PopOK
    <3>4. QED
      BY <1>3, <2>3, <3>3
  <2>5. /\ UNCHANGED <<tpc, tsaver, ttail, tpacket>> /\ count'[s] = count[s]
        /\ tail'[s] = tail[s]
    BY <1>3, <1>5
  <2>6. QED
    BY <1>11, <2>2, <2>3, <2>4, <2>5 DEF PopOK
<1>12. ASSUME NEW f \in Sessions, tsaver[f] = s PROVE SessionOK(f)'
  <2>1. /\ Unheard(f)' <=> Unheard(f)
        /\ Going(f)' <=> Going(f)
        /\ Hand(f)' = Hand(f) /\ RowsOf(f)' = RowsOf(f)
        /\ UNCHANGED <<tpc, tsaver, rows>>
    BY <1>b, <1>5, TaskFrame
  <2>2. CASE f # file[s] \/ ~Listening(s)
    <3>1. UNCHANGED <<accepted[f], dropped[f], rows[f]>>
      BY <1>4, <2>1, <2>2
    <3>2. ~Going(f)
      BY <1>12, <2>2 DEF Going
    <3>3. QED
      BY <2>1, <3>1, <3>2, SessionFrame DEF CleanInv, SessionInv
  <2>3. CASE f = file[s] /\ Listening(s)
    <3>1. /\ accepted'[f] = accepted[f] \cup {offered[d]}
          /\ \A p \in accepted[f] : p < offered[d]
      BY <1>4, <2>3
    <3>2. ~Unheard(f)
      <4>1. f \in Started /\ f # 0
        BY <2>3 DEF FilesInv, FilesStarted, Listening
      <4>2. QED
        BY <2>3, <4>1 DEF Listening, Unheard, Started
    <3>3. RowsInv(f)'
      BY <2>1, <3>1 DEF CleanInv, SessionInv, SessionOK, RowsInv
    <3>4. ASSUME Going(f) PROVE Accounted(f)' /\ Ascending(f)'
      <4>1. Accounted(f) /\ Ascending(f) /\ tsaver'[f] = s
        BY <1>12, <2>1, <3>4 DEF CleanInv, SessionInv, SessionOK
      <4>2. CASE count[s] < QueueLength
        <5>1. dropped'[f] = dropped[f] /\ n \in Nat
          BY <1>3, <4>2 DEF Received
        <5>2. QED
          BY <1>2, <1>3, <1>12, <2>1, <3>1, <4>1, <4>2, <5>1, SessionGains
      <4>3. CASE count[s] >= QueueLength
        <5>1. /\ dropped'[f] = dropped[f] \cup {Entry(s, 0)} /\ n \in Nat \ {0}
              /\ n = QueueLength
          BY <1>3, <2>3, <4>3, RingSize DEF Received
        <5>2. /\ \A k \in 0 .. n - 2 : Entry(s, k)' = Entry(s, k + 1)
              /\ Entry(s, n - 1)' = offered[d] /\ Size(s)' = n
          BY <1>3, <4>3, <5>1
        <5>3. QED
          BY <1>2, <1>12, <2>1, <3>1, <4>1, <5>1, <5>2, SessionDrops
      <4>4. QED
        BY <4>2, <4>3, RingSize DEF BasicInv, TypeOK
    <3>5. tpc[f] \in {"none", "opened"} => rows'[f] = <<>>
      BY <2>1 DEF CleanInv, SessionInv, SessionOK
    <3>6. QED
      BY <2>1, <3>2, <3>3, <3>4, <3>5 DEF SessionOK
  <2>4. QED
    BY <2>2, <2>3
<1>13. QED
  BY <1>b, <1>4, <1>7, <1>8, <1>9, <1>10, <1>11, <1>12, TaskFrame
  DEF CleanInv, RingInv, SessionInv

-----------------------------------------------------------------------------
(* The thread of a session.                                                *)

\* What a step of a thread leaves alone, and the rings and sessions it is not about.
LEMMA ThreadStep ==
    ASSUME BasicInv, OwnerInv, CleanInv, NEW t \in Sessions, Thread(t),
           NEW s \in Savers, s = tsaver[t]
    PROVE  /\ UNCHANGED <<running, file, head, slots, context, program, background,
                          tsaver, open, received>>
           /\ Alive(t) /\ file[s] \in {t, 0} /\ tpc'[t] \notin {"none", "opened"}
           /\ \A u \in Sessions \ {t} : UNCHANGED <<tpc[u], tline[u]>> /\ ~Alive(u)
           /\ ThreadInv' /\ ContextInv' /\ PacketInv' /\ ~Resetting(s) /\ ~Resetting(s)'
           /\ \A r : Listening(r)' <=> Listening(r)
           /\ \A r, places : Pushing(r, places)' <=> Pushing(r, places)
           /\ \A places \in SUBSET ThreadPlaces :
                  "none" \notin places /\ "opened" \notin places /\ "ended" \notin places =>
                      /\ Popping(s, places) <=> tpc[t] \in places
                      /\ Popping(s, places)' <=> tpc'[t] \in places
           /\ \A r \in Savers \ {s} : RingOK(r)'
           /\ \A d \in Devices : savedTo[d] # s => PushOK(d)'
           /\ \A u \in Sessions \ {t} : PopOK(u)'
<1> USE DEF background, received
<1>1. /\ UNCHANGED <<running, file, head, slots, context, program, background,
                     tsaver, open, received>>
      /\ Alive(t)
      /\ \A u \in Sessions \ {t} : UNCHANGED <<tpc[u], ttail[u], tpacket[u], tline[u]>>
      /\ \A r \in Savers : r # tsaver[t] => UNCHANGED <<tail[r], count[r]>>
  BY ThreadLeaves
<1>2. PICK pc \in ThreadPlaces \ {"none", "opened"} : tpc' = [tpc EXCEPT ![t] = pc]
  BY ThreadLeaves
<1>3. file[s] \in {t, 0} /\ ~Resetting(s) /\ tpc'[t] \notin {"none", "opened"}
  BY <1>1, <1>2 DEF CleanInv, ThreadInv, Draining, BasicInv, TypeOK
<1>4. \A u \in Sessions \ {t} : ~Alive(u)
  BY <1>1 DEF CleanInv, ThreadInv
<1>5. ThreadInv'
  BY <1>1, <1>2, ThreadFrameMove DEF CleanInv
<1>6. ContextInv' /\ PacketInv'
  BY <1>1, ContextFrame, PacketFrame DEF CleanInv, Offering
<1>7. \A r : (Listening(r)' <=> Listening(r)) /\ (Resetting(r)' <=> Resetting(r))
  <2>1. \A u \in Sessions : tpc'[u] = "opened" <=> tpc[u] = "opened"
    BY <1>1, <1>3 DEF Alive
  <2>2. \A u : u \notin Sessions => tpc'[u] = tpc[u]
    BY <1>2
  <2>3. QED
    BY <1>1, <2>1, <2>2 DEF Listening, Resetting, program
<1>8. \A r, places : Pushing(r, places)' <=> Pushing(r, places)
  BY <1>1 DEF Pushing
<1>9. ASSUME NEW places \in SUBSET ThreadPlaces,
             "none" \notin places, "opened" \notin places, "ended" \notin places
      PROVE  /\ Popping(s, places) <=> tpc[t] \in places
             /\ Popping(s, places)' <=> tpc'[t] \in places
  <2>1. \A u \in Sessions \ {t} : tpc[u] \notin places /\ tpc'[u] \notin places
    BY <1>1, <1>4, <1>9 DEF Alive
  <2>2. QED
    BY <1>1, <2>1 DEF Popping
<1>10. ASSUME NEW r \in Savers \ {s} PROVE Kept(r)
  <2>1. Popping(r, {"uncount"})' <=> Popping(r, {"uncount"})
    BY <1>1 DEF Popping
  <2>2. QED
    BY <1>1, <1>8, <1>10, <2>1, RingKept
<1>11. ASSUME NEW r \in Savers \ {s} PROVE RingOK(r)'
  <2>1. RingOK(r) /\ UNCHANGED <<head[r], tail[r], count[r], todo>>
    BY <1>1 DEF CleanInv, RingInv, program
  <2>2. QED
    BY <1>7, <1>8, <1>10, <2>1 DEF RingOK, Kept, At
<1>12. ASSUME NEW d \in Devices, savedTo[d] # s PROVE PushOK(d)'
  <2>1. PICK r \in Savers \ {s} : r = savedTo[d]
    BY <1>12 DEF BasicInv, TypeOK
  <2>2. /\ PushOK(d) /\ savedTo'[d] = r /\ Kept(r) /\ \A k : Entry(r, k)' = Entry(r, k)
        /\ UNCHANGED <<head[r], tail[r], count[r]>>
    BY <1>1, <1>10, <2>1, KeptEntries DEF CleanInv, RingInv
  <2>3. QED
    BY <1>1, <1>7, <2>1, <2>2 DEF PushOK, Kept
<1>13. \A u \in Sessions \ {t} : PopOK(u)'
  BY <1>1, <1>4 DEF PopOK, PopPlaces, Alive
<1>14. QED
  BY <1>1, <1>3, <1>4, <1>5, <1>6, <1>7, <1>8, <1>9, <1>11, <1>12, <1>13

\* The other sessions keep what they have.
LEMMA OtherSessions ==
    ASSUME BasicInv, OwnerInv, CleanInv, NEW t \in Sessions, Thread(t),
           NEW f \in Sessions, f # t
    PROVE  SessionOK(f)'
<1>1. PICK s \in Savers : s = tsaver[t]
  BY DEF BasicInv, TypeOK
<1>2. /\ UNCHANGED <<head, slots, file, tsaver, open, received, program>>
      /\ file[s] \in {t, 0}
      /\ \A r : Listening(r)' <=> Listening(r)
      /\ \A r, places : Pushing(r, places)' <=> Pushing(r, places)
  BY <1>1, ThreadStep
<1>3. /\ UNCHANGED <<tpc[f], tpacket[f], tline[f]>>
      /\ \A r \in Savers \ {s} : UNCHANGED <<tail[r], count[r]>>
      /\ \A u \in Sessions : tsaver[u] # s => UNCHANGED tpc[u]
  BY <1>1, ThreadLeaves
<1>z. 0 \notin Sessions
  BY RingSize DEF Sessions
<1>4. rows'[f] = rows[f]
  <2>1. CASE Write(t)
    <3>1. file[s] \in open => file[s] = t
      BY <1>2, <1>z DEF BasicInv, TypeOK
    <3>2. QED
      BY <1>1, <2>1, <3>1 DEF Write, BasicInv, TypeOK
  <2>2. CASE ~Write(t)
    BY <2>2 DEF Thread, Begin, Loop, Take, PopTail, Copy, Commit, Uncount, Format, PrintLine,
      TestFile
  <2>3. QED
    BY <2>1, <2>2
<1>5. Hand(f)' = Hand(f) /\ (Unheard(f)' => Unheard(f))
  BY <1>2, <1>3 DEF Hand, Unheard, program
<1>6. ASSUME Going(f)' PROVE Going(f) /\ Kept(tsaver[f])
  <2>1. Going(f)
    BY <1>2, <1>6 DEF Going
  <2>2. PICK r \in Savers \ {s} : r = tsaver[f]
    <3>1. tsaver[f] \in Savers /\ file[tsaver[f]] = f /\ f # 0
      BY <1>z, <2>1 DEF Going, BasicInv, TypeOK
    <3>2. tsaver[f] # s
      BY <1>2, <3>1
    <3>3. QED
      BY <3>1, <3>2
  <2>3. Popping(r, {"uncount"})' <=> Popping(r, {"uncount"})
    BY <1>2, <1>3 DEF Popping
  <2>4. QED
    BY <1>2, <1>3, <2>1, <2>2, <2>3, RingKept
<1>7. QED
  BY <1>2, <1>3, <1>4, <1>5, <1>6, SessionFrame DEF CleanInv, SessionInv, received

\* A thread that keeps the ring as it is, and the push that is at it.
LEMMA ThreadKeeps ==
    ASSUME BasicInv, OwnerInv, CleanInv, NEW t \in Sessions, Thread(t),
           NEW s \in Savers, s = tsaver[t], Kept(s), tail'[s] = tail[s],
           count'[s] <= QueueLength, count'[s] # count[s] => count'[s] < QueueLength,
           Overwriting(s) => count'[s] = count[s]
    PROVE  /\ RingOK(s)'
           /\ \A d \in Devices : savedTo[d] = s => PushOK(d)'
<1> USE DEF background, received
<1>1. /\ UNCHANGED <<file, head, slots, context, background, received>>
      /\ ~Resetting(s) /\ ~Resetting(s)'
      /\ Listening(s)' <=> Listening(s)
  BY ThreadStep
<1>2. RingOK(s)'
  BY <1>1 DEF CleanInv, RingInv, RingOK, Kept, At
<1>3. ASSUME NEW d \in Devices, savedTo[d] = s PROVE PushOK(d)'
  <2>1. SUFFICES ASSUME at[d] \in PushPlaces PROVE PushOK(d)'
    BY <1>1 DEF PushOK
  <2>2. /\ PushOK(d) /\ savedTo'[d] = s /\ \A k : Entry(s, k)' = Entry(s, k)
        /\ head'[s] = head[s]
    BY <1>1, <1>3, KeptEntries DEF CleanInv, RingInv
  <2>3. at[d] = "add" => count'[s] < QueueLength
    BY <1>3, <2>1, <2>2 DEF PushOK
  <2>4. at[d] \in {"oldest", "drop"} => count'[s] = QueueLength
    <3>1. SUFFICES ASSUME at[d] \in {"oldest", "drop"} PROVE count'[s] = QueueLength
      OBVIOUS
    <3>2. count[s] = QueueLength
      BY <1>3, <2>1, <2>2, <3>1 DEF PushOK
    <3>3. Overwriting(s)
      BY <1>3, <3>1, <3>2, RingSize DEF Overwriting, Pushing, Written
    <3>4. QED
      BY <3>2, <3>3
  <2>5. at[d] \in Written => Entry(s, Size(s) - 1)' = offered'[d]
    BY <1>1, <1>3, <2>1, <2>2 DEF PushOK, Kept
  <2>6. QED
    BY <1>1, <1>3, <2>1, <2>2, <2>3, <2>4, <2>5 DEF PushOK
<1>4. QED
  BY <1>2, <1>3

\* The steps that leave ring, file and the packet in the thread's hands.
LEMMA CleanThreadMove ==
    ASSUME BasicInv, OwnerInv, CleanInv, Clean', NEW t \in Sessions,
           \/ Begin(t) \/ Loop(t) \/ Take(t) \/ PopTail(t) \/ Copy(t)
           \/ Format(t) \/ PrintLine(t)
           \/ TestFile(t) /\ file[tsaver[t]] # 0
    PROVE  CleanInv'
<1>1. Thread(t) /\ UNCHANGED <<tail, count, rows>>
  BY DEF Thread, Begin, Loop, Take, PopTail, Copy, Format, PrintLine, TestFile
<1>s. PICK s \in Savers : s = tsaver[t]
  BY DEF BasicInv, TypeOK
<1>2. /\ UNCHANGED <<file, head, slots, program, tsaver, open, received>>
      /\ tpc'[t] \notin {"none", "opened"}
      /\ \A u \in Sessions \ {t} : UNCHANGED <<tpc[u], tline[u]>> /\ ~Alive(u)
      /\ ThreadInv' /\ ContextInv' /\ PacketInv'
      /\ \A r : Listening(r)' <=> Listening(r)
      /\ \A r, places : Pushing(r, places)' <=> Pushing(r, places)
      /\ Popping(s, {"uncount"}) <=> tpc[t] = "uncount"
      /\ Popping(s, {"uncount"})' <=> tpc'[t] = "uncount"
  <2>1. {"uncount"} \in SUBSET ThreadPlaces
    BY DEF ThreadPlaces, PopPlaces
  <2>2. \A places \in SUBSET ThreadPlaces :
            "none" \notin places /\ "opened" \notin places /\ "ended" \notin places =>
                /\ Popping(s, places) <=> tpc[t] \in places
                /\ Popping(s, places)' <=> tpc'[t] \in places
    BY <1>1, <1>s, ThreadStep
  <2>3. /\ Popping(s, {"uncount"}) <=> tpc[t] = "uncount"
        /\ Popping(s, {"uncount"})' <=> tpc'[t] = "uncount"
    BY <2>1, <2>2
  <2>4. QED
    BY <1>1, <1>s, <2>3, ThreadStep
<1>3. PopOK(t) /\ count[s] \in 0 .. QueueLength /\ QueueLength \in Nat
  BY RingBounds, RingSize DEF CleanInv, RingInv
<1>4. /\ tpc[t] # "uncount" /\ tpc'[t] # "uncount"
      /\ tpc'[t] \in PopPlaces => /\ count[s] > 0 /\ ~Overwriting(s)
                                  /\ tpc'[t] \in {"copy", "commit"} => ttail'[t] = tail[s]
                                  /\ tpc'[t] = "commit" => tpacket'[t] = slots[s][tail[s]]
      /\ Hand(t)' = Hand(t)
      /\ tpc'[t] = "print" => fbuf' = tpacket'[t]
      /\ tpc'[t] \in {"test", "write"} => tline'[t].fields = tline'[t].of
  <2>1. CASE Begin(t) \/ Loop(t)
    BY <2>1 DEF Begin, Loop, ThreadAt, Goto, Hand, PopPlaces, BasicInv, TypeOK
  <2>2. CASE Take(t)
    <3>1. /\ tpc[t] = "take" /\ tpc'[t] = IF count[s] = 0 THEN "loop" ELSE "index"
          /\ ~(count[s] = QueueLength /\ Pushing(s, Written))
      BY <1>s, <2>2 DEF Take, ThreadAt, Goto, Clean, BasicInv, TypeOK
    <3>2. ~Overwriting(s)
      BY <1>3, <3>1 DEF Overwriting
    <3>3. count[s] # 0 => count[s] > 0
      BY <1>3
    <3>4. Hand(t)' = Hand(t)
      BY <3>1 DEF Hand
    <3>5. QED
      BY <3>1, <3>2, <3>3, <3>4 DEF PopPlaces
  <2>3. CASE PopTail(t)
    <3>1. tpc[t] = "index" /\ tpc'[t] = "copy" /\ ttail'[t] = tail[s]
      BY <1>s, <2>3 DEF PopTail, ThreadAt, Goto, BasicInv, TypeOK
    <3>2. QED
      BY <1>3, <1>s, <3>1 DEF Hand, PopOK, PopPlaces
  <2>4. CASE Copy(t)
    <3>1. /\ tpc[t] = "copy" /\ tpc'[t] = "commit" /\ ttail'[t] = ttail[t]
          /\ tpacket'[t] = slots[s][ttail[t]]
      BY <1>s, <2>4 DEF Copy, ThreadAt, Goto, BasicInv, TypeOK
    <3>2. QED
      BY <1>3, <1>s, <3>1 DEF Hand, PopOK, PopPlaces
  <2>5. CASE Format(t)
    BY <2>5 DEF Format, ThreadAt, Goto, Hand, PopPlaces, BasicInv, TypeOK
  <2>6. CASE PrintLine(t)
    <3>1. fbuf = tpacket[t]
      BY <2>6 DEF PrintLine, ThreadAt, CleanInv, LineInv
    <3>2. QED
      BY <2>6, <3>1 DEF PrintLine, ThreadAt, Goto, Hand, PopPlaces, BasicInv, TypeOK
  <2>7. CASE TestFile(t) /\ file[tsaver[t]] # 0
    <3>1. tline[t].fields = tline[t].of
      BY <2>7 DEF TestFile, ThreadAt, CleanInv, LineInv
    <3>2. QED
      BY <2>7, <3>1 DEF TestFile, ThreadAt, Goto, Hand, PopPlaces, BasicInv, TypeOK
  <2>8. QED
    BY <2>1, <2>2, <2>3, <2>4, <2>5, <2>6, <2>7
<1>5. Kept(s) /\ (Overwriting(s)' <=> Overwriting(s))
  BY <1>1, <1>2, <1>4, RingKept
<1>6. RingOK(s)' /\ \A d \in Devices : savedTo[d] = s => PushOK(d)'
  BY <1>1, <1>3, <1>5, <1>s, ThreadKeeps
<1>7. PopOK(t)'
  BY <1>1, <1>2, <1>4, <1>5, <1>s DEF PopOK
<1>8. RingInv'
  BY <1>1, <1>6, <1>7, <1>s, ThreadStep DEF RingInv
<1>9. LineInv'
  <2>1. \A u \in Sessions : tpc'[u] \in {"print", "test", "write"} => u = t
    BY <1>2 DEF Alive
  <2>2. QED
    BY <1>4, <2>1 DEF LineInv
<1>10. SessionOK(t)'
  <2>1. Going(t)' => Going(t)
    BY <1>2 DEF Going
  <2>2. ~Unheard(t)'
    BY <1>2 DEF Unheard
  <2>3. QED
    BY <1>1, <1>2, <1>4, <1>5, <1>s, <2>1, <2>2, SessionFrame
    DEF CleanInv, SessionInv, received
<1>11. \A f \in Sessions \ {t} : SessionOK(f)'
  BY <1>1, OtherSessions
<1>12. QED
  BY <1>2, <1>8, <1>9, <1>10, <1>11 DEF CleanInv, SessionInv

\* A packet moves from the ring of a session to the thread's hands.
LEMMA SessionTakes ==
    ASSUME NEW f \in Sessions, NEW s \in Savers, tsaver[f] = s, tsaver'[f] = s,
           RowsOf(f)' = RowsOf(f), Hand(f) = {}, Hand(f)' = {Entry(s, 0)},
           Accounted(f), Ascending(f), accepted'[f] = accepted[f], dropped'[f] = dropped[f],
           NEW n \in Nat \ {0}, n = Size(s), Size(s)' = n - 1,
           \A k \in 0 .. n - 2 : Entry(s, k)' = Entry(s, k + 1)
    PROVE  Accounted(f)' /\ Ascending(f)'
<1>1. /\ accepted[f] = RowsOf(f) \cup InRing(s) \cup dropped[f]
      /\ \A j, k \in 0 .. n - 1 : j < k => Entry(s, j) < Entry(s, k)
      /\ \A r \in RowsOf(f), q \in InRing(s) : r < q
  BY DEF Accounted, Ascending
<1>2. /\ \A q : q \in InRing(s) <=> \E k \in 0 .. n - 1 : q = Entry(s, k)
      /\ \A q : q \in InRing(s)' <=> \E k \in 0 .. n - 2 : q = Entry(s, k)'
  <2>1. Size(s)' - 1 = n - 2
    OBVIOUS
  <2>2. QED
    BY <2>1 DEF InRing
<1>3. \A k \in 0 .. n - 2 : k \in 0 .. n - 1 /\ k + 1 \in 0 .. n - 1 /\ 0 < k + 1
  OBVIOUS
<1>4. 0 \in 0 .. n - 1 /\ Entry(s, 0) \in InRing(s)
  <2>1. 0 \in 0 .. n - 1
    OBVIOUS
  <2>2. QED
    BY <1>2, <2>1
<1>5. \A q \in InRing(s)' : q \in InRing(s) /\ Entry(s, 0) < q
  <2>1. ASSUME NEW q \in InRing(s)' PROVE q \in InRing(s) /\ Entry(s, 0) < q
    <3>1. PICK k \in 0 .. n - 2 : q = Entry(s, k + 1)
      BY <1>2
    <3>2. QED
      BY <1>1, <1>2, <1>3, <1>4, <3>1
  <2>2. QED
    BY <2>1
<1>6. \A q \in InRing(s) : q = Entry(s, 0) \/ q \in InRing(s)'
  <2>1. ASSUME NEW k \in 0 .. n - 1, k # 0 PROVE Entry(s, k) \in InRing(s)'
    <3>1. PICK j \in 0 .. n - 2 : j + 1 = k
      <4>1. k - 1 \in 0 .. n - 2 /\ (k - 1) + 1 = k
        BY <2>1
      <4>2. QED
        BY <4>1
    <3>2. Entry(s, j)' = Entry(s, k)
      BY <3>1
    <3>3. QED
      BY <1>2, <3>2
  <2>2. QED
    BY <1>2, <2>1
<1>7. ASSUME NEW j \in 0 .. n - 2, NEW k \in 0 .. n - 2, j < k
      PROVE  Entry(s, j)' < Entry(s, k)'
  <2>1. j + 1 < k + 1
    BY <1>7
  <2>2. QED
    BY <1>1, <1>3, <2>1
<1>8. Accounted(f)'
  BY <1>1, <1>4, <1>5, <1>6 DEF Accounted
<1>9. Ascending(f)'
  <2>1. \A x \in {Entry(s, 0)}, q \in InRing(s)' : x < q
    BY <1>5
  <2>2. \A r \in RowsOf(f), q \in {Entry(s, 0)} \cup InRing(s)' : r < q
    BY <1>1, <1>4, <1>5
  <2>3. \A j, k \in 0 .. Size(s)' - 1 : j < k => Entry(s, j)' < Entry(s, k)'
    <3>1. Size(s)' - 1 = n - 2
      OBVIOUS
    <3>2. QED
      BY <1>7, <3>1
  <2>4. QED
    BY <2>1, <2>2, <2>3 DEF Ascending
<1>10. QED
  BY <1>8, <1>9

\* Of a pop, tail moves on: the oldest packet is out of the ring.
LEMMA CleanCommit ==
    ASSUME BasicInv, OwnerInv, CleanInv, NEW t \in Sessions, Commit(t)
    PROVE  CleanInv'
<1>b. Thread(t)
  BY DEF Thread
<1>s. PICK s \in Savers : s = tsaver[t]
  BY DEF BasicInv, TypeOK
<1>1. /\ tpc'[t] = "uncount" /\ tpc[t] = "commit" /\ UNCHANGED <<count, tpacket, tline, fbuf, rows>>
      /\ tail'[s] = Succ(ttail[t])
  BY <1>s DEF Commit, ThreadAt, Goto, BasicInv, TypeOK
<1>2. /\ UNCHANGED <<file, head, slots, context, program, background, tsaver, open, received>>
      /\ \A u \in Sessions \ {t} : UNCHANGED tpc[u] /\ ~Alive(u)
      /\ ThreadInv' /\ ContextInv' /\ PacketInv' /\ ~Resetting(s)'
      /\ \A r : Listening(r)' <=> Listening(r)
      /\ \A r, places : Pushing(r, places)' <=> Pushing(r, places)
      /\ ~Popping(s, {"uncount"}) /\ Popping(s, {"uncount"})'
  <2>1. {"uncount"} \in SUBSET ThreadPlaces
    BY DEF ThreadPlaces, PopPlaces
  <2>2. \A places \in SUBSET ThreadPlaces :
            "none" \notin places /\ "opened" \notin places /\ "ended" \notin places =>
                /\ Popping(s, places) <=> tpc[t] \in places
                /\ Popping(s, places)' <=> tpc'[t] \in places
    BY <1>b, <1>s, ThreadStep
  <2>3. ~Popping(s, {"uncount"}) /\ Popping(s, {"uncount"})'
    BY <1>1, <2>1, <2>2
  <2>4. QED
    BY <1>b, <1>s, <2>3, ThreadStep
<1>3. /\ count[s] > 0 /\ ~Overwriting(s) /\ ttail[t] = tail[s] /\ tpacket[t] = slots[s][tail[s]]
      /\ count[s] \in 0 .. QueueLength /\ Size(s) \in 0 .. QueueLength /\ tail[s] \in Slots
      /\ Top(s) = At(Base(s), Size(s)) /\ QueueLength \in Nat
  <2>1. PopOK(t) /\ RingOK(s) /\ ~Resetting(s)
    BY <1>b, <1>s, ThreadStep DEF CleanInv, RingInv
  <2>2. QED
    BY <1>1, <1>s, <2>1, RingBounds, RingSize DEF PopOK, PopPlaces, RingOK, CleanInv
<1>4. /\ Held(s) = count[s] /\ Held(s)' = count[s] - 1 /\ ~Overwriting(s)'
      /\ Adding(s)' <=> Adding(s)
  BY <1>1, <1>2, <1>3 DEF Held, Overwriting, Adding
<1>5. PICK n \in 1 .. QueueLength : n = Size(s)
  <2>1. Size(s) >= 1
    BY <1>3, <1>4 DEF Size
  <2>2. QED
    BY <1>3, <2>1
<1>6. /\ Size(s)' = n - 1 /\ Base(s) = tail[s] /\ Base(s)' = Succ(tail[s])
      /\ Pushing(s, Written) => n >= 2
  <2>1. Size(s)' = n - 1
    BY <1>3, <1>4, <1>5 DEF Size
  <2>2. Base(s) = tail[s] /\ Base(s)' = Succ(tail[s])
    BY <1>1, <1>3, <1>4 DEF Base
  <2>3. Pushing(s, Written) => n >= 2
    <3>1. Pushing(s, Written) => Adding(s)
      BY <1>3 DEF Adding, Overwriting
    <3>2. QED
      BY <1>3, <1>4, <1>5, <3>1 DEF Size
  <2>4. QED
    BY <2>1, <2>2, <2>3
<1>7. /\ \A k \in 0 .. QueueLength - 1 : At(Succ(tail[s]), k) = At(tail[s], k + 1)
      /\ At(tail[s], 0) = tail[s]
  BY <1>3, AtOfSucc, AtLap
<1>8. \A k : /\ Entry(s, k)' = slots[s][At(Succ(tail[s]), k)]
             /\ Entry(s, k) = slots[s][At(tail[s], k)]
  BY <1>2, <1>6 DEF Entry, At
<1>9. \A k \in 0 .. QueueLength - 1 : Entry(s, k)' = Entry(s, k + 1)
  BY <1>7, <1>8
<1>10. RingOK(s)'
  <2>1. n - 1 \in 0 .. QueueLength - 1 /\ (n - 1) + 1 = n
    BY <1>3
  <2>2. Top(s)' = At(Base(s)', Size(s)')
    <3>1. Top(s)' = Top(s)
      BY <1>2 DEF Top, Succ
    <3>2. At(Succ(tail[s]), n - 1) = At(tail[s], n)
      BY <1>7, <2>1
    <3>3. QED
      BY <1>3, <1>5, <1>6, <3>1, <3>2
  <2>3. QED
    BY <1>1, <1>2, <1>3, <2>2 DEF RingOK, At
<1>11. ASSUME NEW d \in Devices, savedTo[d] = s PROVE PushOK(d)'
  <2>0. UNCHANGED <<at, savedTo, offered, pindex, from, accepted>>
    BY <1>2 DEF background, received
  <2>1. SUFFICES ASSUME at[d] \in PushPlaces PROVE PushOK(d)'
    BY <2>0 DEF PushOK
  <2>2. PushOK(d)
    BY DEF CleanInv, RingInv
  <2>3. at[d] # "drop"
    <3>1. SUFFICES ASSUME at[d] = "drop" PROVE FALSE
      OBVIOUS
    <3>2. count[s] = QueueLength
      BY <1>11, <2>1, <2>2, <3>1 DEF PushOK
    <3>3. QED
      BY <1>3, <1>11, <3>1, <3>2 DEF Overwriting, Pushing, Written
  <2>4. at[d] \in Written => Entry(s, Size(s) - 1)' = offered[d]
    <3>1. SUFFICES ASSUME at[d] \in Written PROVE Entry(s, Size(s) - 1)' = offered[d]
      OBVIOUS
    <3>2. n >= 2
      BY <1>6, <1>11, <3>1 DEF Pushing
    <3>3. n - 2 \in 0 .. QueueLength - 1 /\ (n - 2) + 1 = n - 1 /\ (n - 1) - 1 = n - 2
      BY <1>3, <3>2
    <3>4. Entry(s, n - 1) = offered[d]
      BY <1>5, <1>11, <2>1, <2>2, <3>1 DEF PushOK
    <3>5. Entry(s, n - 2)' = offered[d]
      BY <1>9, <3>3, <3>4
    <3>6. QED
      BY <1>6, <3>3, <3>5
  <2>5. QED
    BY <1>1, <1>2, <1>11, <2>0, <2>1, <2>2, <2>3, <2>4 DEF PushOK
<1>12. PopOK(t)'
  BY <1>1, <1>2, <1>3, <1>4, <1>s DEF PopOK
<1>13. RingInv'
  BY <1>b, <1>10, <1>11, <1>12, <1>s, ThreadStep DEF RingInv
<1>14. LineInv'
  BY <1>1, <1>2 DEF LineInv, Alive
<1>15. SessionOK(t)'
  <2>1. Hand(t)' = {Entry(s, 0)} /\ Hand(t) = {} /\ RowsOf(t)' = RowsOf(t)
    BY <1>1, <1>3, <1>7, <1>8 DEF Hand, RowsOf
  <2>2. accepted'[t] = accepted[t] /\ dropped'[t] = dropped[t] /\ tsaver'[t] = s
    BY <1>2, <1>s DEF received
  <2>3. RowsInv(t)'
    BY <1>1, <2>2 DEF CleanInv, SessionInv, SessionOK, RowsInv
  <2>4. ASSUME Going(t)' PROVE Accounted(t)' /\ Ascending(t)'
    <3>1. Accounted(t) /\ Ascending(t)
      BY <1>2, <2>4 DEF Going, CleanInv, SessionInv, SessionOK
    <3>2. \A k \in 0 .. n - 2 : Entry(s, k)' = Entry(s, k + 1)
      <4>1. \A k \in 0 .. n - 2 : k \in 0 .. QueueLength - 1
        BY <1>3
      <4>2. QED
        BY <1>9, <4>1
    <3>3. n \in Nat \ {0}
      BY <1>3
    <3>4. QED
      BY <1>5, <1>6, <1>s, <2>1, <2>2, <3>1, <3>2, <3>3, SessionTakes
  <2>5. QED
    BY <1>1, <2>3, <2>4 DEF SessionOK, Unheard
<1>16. \A f \in Sessions \ {t} : SessionOK(f)'
  BY <1>b, OtherSessions
<1>17. QED
  BY <1>2, <1>13, <1>14, <1>15, <1>16 DEF CleanInv, SessionInv

\* Of a pop, the packet is counted out: the queue stays what it is.
LEMMA CleanUncount ==
    ASSUME BasicInv, OwnerInv, CleanInv, NEW t \in Sessions, Uncount(t)
    PROVE  CleanInv'
<1>b. Thread(t)
  BY DEF Thread
<1>s. PICK s \in Savers : s = tsaver[t]
  BY DEF BasicInv, TypeOK
<1>1. /\ tpc'[t] = "format" /\ tpc[t] = "uncount"
      /\ UNCHANGED <<tail, tpacket, tline, fbuf, rows>>
      /\ count' = [count EXCEPT ![s] = (@ + Modulus - 1) % Modulus]
  BY <1>s DEF Uncount, ThreadAt, Goto, BasicInv, TypeOK
<1>2. /\ UNCHANGED <<file, head, slots, program, tsaver, open, received>>
      /\ \A u \in Sessions \ {t} : UNCHANGED tpc[u] /\ ~Alive(u)
      /\ ThreadInv' /\ ContextInv' /\ PacketInv'
      /\ \A r : Listening(r)' <=> Listening(r)
      /\ \A r, places : Pushing(r, places)' <=> Pushing(r, places)
      /\ Popping(s, {"uncount"}) /\ ~Popping(s, {"uncount"})'
  <2>1. {"uncount"} \in SUBSET ThreadPlaces
    BY DEF ThreadPlaces, PopPlaces
  <2>2. \A places \in SUBSET ThreadPlaces :
            "none" \notin places /\ "opened" \notin places /\ "ended" \notin places =>
                /\ Popping(s, places) <=> tpc[t] \in places
                /\ Popping(s, places)' <=> tpc'[t] \in places
    BY <1>b, <1>s, ThreadStep
  <2>3. Popping(s, {"uncount"}) /\ ~Popping(s, {"uncount"})'
    BY <1>1, <2>1, <2>2
  <2>4. QED
    BY <1>b, <1>s, <2>3, ThreadStep
<1>3. /\ count[s] > 0 /\ ~Overwriting(s)
      /\ count[s] \in 0 .. QueueLength /\ count[s] \in 0 .. Modulus - 1 /\ QueueLength \in Nat
  <2>1. PopOK(t)
    BY DEF CleanInv, RingInv
  <2>2. QED
    BY <1>1, <1>s, <2>1, RingBounds, RingSize DEF PopOK, PopPlaces, CleanInv
<1>4. count'[s] = count[s] - 1
  BY <1>1, <1>3, CountIsShort DEF BasicInv, TypeOK
<1>5. /\ Held(s)' = Held(s) /\ ~Overwriting(s)'
      /\ Adding(s)' <=> Adding(s)
  BY <1>2, <1>3, <1>4 DEF Held, Overwriting, Adding
<1>6. Kept(s)
  <2>1. Top(s)' = Top(s)
    BY <1>2 DEF Top, Succ
  <2>2. Base(s)' = Base(s)
    BY <1>1, <1>3, <1>5 DEF Base
  <2>3. Size(s)' = Size(s)
    BY <1>5 DEF Size
  <2>4. QED
    BY <1>2, <2>1, <2>2, <2>3 DEF Kept
<1>7. RingOK(s)' /\ \A d \in Devices : savedTo[d] = s => PushOK(d)'
  <2>1. count'[s] < QueueLength /\ count'[s] <= QueueLength
    BY <1>3, <1>4
  <2>2. QED
    BY <1>1, <1>3, <1>6, <1>b, <1>s, <2>1, ThreadKeeps
<1>8. RingInv'
  <2>1. PopOK(t)'
    BY <1>1 DEF PopOK, PopPlaces
  <2>2. QED
    BY <1>b, <1>7, <1>s, <2>1, ThreadStep DEF RingInv
<1>9. LineInv'
  BY <1>1, <1>2 DEF LineInv, Alive
<1>10. SessionOK(t)'
  <2>1. Hand(t)' = Hand(t) /\ ~Unheard(t)' /\ (Going(t)' => Going(t))
    BY <1>1, <1>2 DEF Hand, Unheard, Going
  <2>2. QED
    BY <1>1, <1>2, <1>6, <1>s, <2>1, SessionFrame DEF CleanInv, SessionInv, received
<1>11. \A f \in Sessions \ {t} : SessionOK(f)'
  BY <1>b, OtherSessions
<1>12. QED
  BY <1>2, <1>8, <1>9, <1>10, <1>11 DEF CleanInv, SessionInv

\* A row goes to the file, or a line to nowhere.
LEMMA CleanWrite ==
    ASSUME BasicInv, OwnerInv, CleanInv, NEW t \in Sessions,
           Write(t) \/ (TestFile(t) /\ file[tsaver[t]] = 0)
    PROVE  CleanInv'
<1>1. Thread(t) /\ UNCHANGED <<tail, count, ttail, tpacket, fbuf>>
  BY DEF Thread, Write, TestFile
<1>s. PICK s \in Savers : s = tsaver[t]
  BY DEF BasicInv, TypeOK
<1>2. /\ UNCHANGED <<file, head, slots, program, tsaver, open, received>>
      /\ file[s] \in {t, 0}
      /\ \A u \in Sessions \ {t} : UNCHANGED <<tpc[u], tline[u]>> /\ ~Alive(u)
      /\ ThreadInv' /\ ContextInv' /\ PacketInv'
      /\ \A r : Listening(r)' <=> Listening(r)
      /\ \A r, places : Pushing(r, places)' <=> Pushing(r, places)
  BY <1>1, <1>s, ThreadStep
<1>3. /\ tpc'[t] \in {"take", "loop"} /\ tpc[t] \in {"write", "test"}
      /\ Write(t) => tpc[t] = "write"
  BY DEF Write, TestFile, ThreadAt, Goto, BasicInv, TypeOK
<1>4. Kept(s)
  <2>1. {"uncount"} \in SUBSET ThreadPlaces
    BY DEF ThreadPlaces, PopPlaces
  <2>2. \A places \in SUBSET ThreadPlaces :
            "none" \notin places /\ "opened" \notin places /\ "ended" \notin places =>
                /\ Popping(s, places) <=> tpc[t] \in places
                /\ Popping(s, places)' <=> tpc'[t] \in places
    BY <1>1, <1>s, ThreadStep
  <2>3. ~Popping(s, {"uncount"}) /\ ~Popping(s, {"uncount"})'
    BY <1>3, <2>1, <2>2
  <2>4. QED
    BY <1>1, <1>2, <2>3, RingKept
<1>5. RingInv' /\ LineInv'
  <2>1. \A u \in Sessions : tpc'[u] \notin {"print", "test", "write"}
    BY <1>2, <1>3 DEF Alive
  <2>2. LineInv'
    BY <2>1 DEF LineInv
  <2>3. PopOK(t)'
    BY <1>3 DEF PopOK, PopPlaces
  <2>4. RingOK(s)' /\ \A d \in Devices : savedTo[d] = s => PushOK(d)'
    <3>1. count'[s] <= QueueLength /\ count'[s] = count[s] /\ tail'[s] = tail[s]
      BY <1>1 DEF CleanInv, RingInv, RingOK
    <3>2. QED
      BY <1>1, <1>4, <1>s, <3>1, ThreadKeeps
  <2>5. RingInv'
    BY <1>1, <1>s, <2>3, <2>4, ThreadStep DEF RingInv
  <2>6. QED
    BY <2>2, <2>5
<1>z. 0 \notin Sessions /\ open \subseteq Sessions
  BY RingSize DEF Sessions, BasicInv, TypeOK
<1>6. ASSUME t \in open, file[s] = t PROVE SessionOK(t)'
  <2>1. /\ rows'[t] = Append(rows[t], tline[t])
        /\ Hand(t) = {tline[t].of} /\ Hand(t)' = {}
        /\ tline[t].fields = tline[t].of
        /\ rows[t] \in Seq(Line) /\ tline[t] \in Line /\ tline[t].of \in Packets
    <3>w. Write(t) /\ tpc[t] = "write"
      BY <1>3, <1>6, <1>s, <1>z
    <3>1. tline[t].fields = tline[t].of
      BY <1>3 DEF CleanInv, LineInv
    <3>2. rows[t] \in Seq(Line) /\ tline[t] \in Line /\ tline[t].of \in Packets
      BY DEF BasicInv, TypeOK, Line
    <3>3. rows'[t] = Append(rows[t], tline[t])
      BY <1>6, <1>s, <3>w DEF Write, BasicInv, TypeOK
    <3>4. QED
      BY <1>3, <3>w, <3>1, <3>2, <3>3 DEF Hand
  <2>2. Going(t)
    <3>1. Listening(s)
      BY <1>3, <1>6, <1>z DEF Listening
    <3>2. QED
      BY <1>6, <1>s, <3>1 DEF Going
  <2>3. /\ tline[t].of \in accepted[t] /\ \A r \in RowsOf(t) : r < tline[t].of
        /\ accepted[t] = RowsOf(t) \cup {tline[t].of} \cup InRing(s) \cup dropped[t]
        /\ \A q \in InRing(s) : tline[t].of < q
        /\ \A r \in RowsOf(t), q \in InRing(s) : r < q
        /\ \A j, k \in 0 .. Size(s) - 1 : j < k => Entry(s, j) < Entry(s, k)
    BY <1>s, <2>1, <2>2 DEF CleanInv, SessionInv, SessionOK, Accounted, Ascending
  <2>4. /\ Len(rows'[t]) = Len(rows[t]) + 1 /\ Len(rows[t]) \in Nat
        /\ DOMAIN rows[t] = 1 .. Len(rows[t]) /\ DOMAIN rows'[t] = 1 .. Len(rows'[t])
        /\ \A i \in 1 .. Len(rows[t]) : rows'[t][i] = rows[t][i]
        /\ rows'[t][Len(rows[t]) + 1] = tline[t]
    BY <2>1
  <2>5. \A i \in DOMAIN rows'[t] :
            \/ i \in DOMAIN rows[t]
            \/ i = Len(rows[t]) + 1 /\ rows'[t][i] = tline[t]
    BY <2>4
  <2>6. RowsOf(t)' = RowsOf(t) \cup {tline[t].of}
    <3>1. \A r : r \in RowsOf(t)' <=> \E i \in DOMAIN rows'[t] : r = rows'[t][i].of
      BY DEF RowsOf
    <3>2. \A r : r \in RowsOf(t) <=> \E i \in DOMAIN rows[t] : r = rows[t][i].of
      BY DEF RowsOf
    <3>3. DOMAIN rows[t] \subseteq DOMAIN rows'[t] /\ Len(rows[t]) + 1 \in DOMAIN rows'[t]
      BY <2>4
    <3>4. QED
      BY <2>4, <2>5, <3>1, <3>2, <3>3, SMTT(30)
  <2>7. RowsInv(t)'
    <3>1. /\ \A i \in DOMAIN rows[t] :
                 rows[t][i].of \in accepted[t] /\ rows[t][i].fields = rows[t][i].of
          /\ \A i, j \in DOMAIN rows[t] : i < j => rows[t][i].of < rows[t][j].of
      BY DEF CleanInv, SessionInv, SessionOK, RowsInv
    <3>2. \A i \in DOMAIN rows'[t] :
              rows'[t][i].of \in accepted[t] /\ rows'[t][i].fields = rows'[t][i].of
      BY <2>1, <2>3, <2>4, <2>5, <3>1
    <3>3. ASSUME NEW i \in DOMAIN rows'[t], NEW j \in DOMAIN rows'[t], i < j
          PROVE  rows'[t][i].of < rows'[t][j].of
      <4>1. i \in DOMAIN rows[t] /\ rows'[t][i] = rows[t][i] /\ rows[t][i].of \in RowsOf(t)
        BY <2>4, <2>5, <3>3 DEF RowsOf
      <4>2. CASE j \in DOMAIN rows[t]
        BY <2>4, <3>1, <3>3, <4>1, <4>2
      <4>3. CASE j = Len(rows[t]) + 1 /\ rows'[t][j] = tline[t]
        BY <2>3, <4>1, <4>3
      <4>4. QED
        BY <2>5, <4>2, <4>3
    <3>4. accepted'[t] = accepted[t]
      BY <1>2 DEF received
    <3>5. QED
      BY <3>2, <3>3, <3>4 DEF RowsInv
  <2>8. /\ InRing(s)' = InRing(s) /\ tsaver'[t] = s
        /\ Size(s)' = Size(s) /\ accepted'[t] = accepted[t] /\ dropped'[t] = dropped[t]
        /\ \A k : Entry(s, k)' = Entry(s, k)
    BY <1>2, <1>4, <1>s, KeptEntries DEF Kept, received
  <2>9. Accounted(t)' /\ Ascending(t)'
    <3>1. Accounted(t)'
      BY <2>1, <2>3, <2>6, <2>8 DEF Accounted
    <3>2. Ascending(t)'
      BY <2>1, <2>3, <2>6, <2>8 DEF Ascending
    <3>3. QED
      BY <3>1, <3>2
  <2>10. QED
    BY <1>3, <2>7, <2>9 DEF SessionOK, Unheard
<1>7. ASSUME t \notin open \/ file[s] = 0 PROVE SessionOK(t)'
  <2>1. rows' = rows
    <3>1. file[s] \notin open
      BY <1>2, <1>7, <1>z
    <3>2. QED
      BY <1>s, <3>1 DEF Write, TestFile
  <2>2. ~Going(t)'
    BY <1>2, <1>7, <1>s, <1>z DEF Going
  <2>3. accepted'[t] = accepted[t] /\ tpc'[t] \notin {"none", "opened"}
    BY <1>2, <1>3 DEF received
  <2>4. RowsInv(t)'
    BY <2>1, <2>3 DEF CleanInv, SessionInv, SessionOK, RowsInv
  <2>5. QED
    BY <2>2, <2>3, <2>4 DEF SessionOK, Unheard
<1>8. SessionOK(t)'
  BY <1>2, <1>6, <1>7
<1>9. \A f \in Sessions \ {t} : SessionOK(f)'
  BY <1>1, OtherSessions
<1>10. QED
  BY <1>2, <1>5, <1>8, <1>9 DEF CleanInv, SessionInv

-----------------------------------------------------------------------------
(* Every step, and what follows.                                           *)

\* A step that changes nothing.
LEMMA CleanStutter == ASSUME CleanInv, UNCHANGED vars PROVE CleanInv'
<1> USE DEF vars, saverVars, ringVars, program, background, threads, disk, history, received
<1>1. ThreadInv' /\ ContextInv' /\ LineInv' /\ PacketInv'
  BY ThreadFrame, ContextFrame, LineFrame, PacketFrame DEF CleanInv, Offering
<1>2. /\ \A s : Resetting(s)' <=> Resetting(s)
      /\ \A s : Listening(s)' <=> Listening(s)
      /\ \A s, places : Pushing(s, places)' <=> Pushing(s, places)
      /\ \A s, places : Popping(s, places)' <=> Popping(s, places)
  BY DEF Resetting, Listening, Pushing, Popping
<1>3. \A s : Kept(s) /\ (Overwriting(s)' <=> Overwriting(s)) /\ \A k : Entry(s, k)' = Entry(s, k)
  BY <1>2, RingKept, KeptEntries
<1>4. ASSUME NEW s \in Savers PROVE RingOK(s)'
  <2>1. RingOK(s) /\ Kept(s)
    BY <1>3 DEF CleanInv, RingInv
  <2>2. QED
    BY <1>2, <2>1 DEF RingOK, Kept, At
<1>5. ASSUME NEW d \in Devices PROVE PushOK(d)'
  <2>1. PushOK(d)
    BY DEF CleanInv, RingInv
  <2>2. QED
    BY <1>2, <1>3, <2>1 DEF PushOK, Kept
<1>6. ASSUME NEW t \in Sessions PROVE PopOK(t)'
  <2>1. PopOK(t)
    BY DEF CleanInv, RingInv
  <2>2. QED
    BY <1>3, <2>1 DEF PopOK
<1>7. ASSUME NEW f \in Sessions PROVE SessionOK(f)'
  <2>1. Hand(f)' = Hand(f) /\ (Unheard(f)' => Unheard(f)) /\ (Going(f)' => Going(f))
    BY <1>2 DEF Hand, Unheard, Going
  <2>2. QED
    BY <1>3, <2>1, SessionFrame DEF CleanInv, SessionInv
<1>8. QED
  BY <1>1, <1>4, <1>5, <1>6, <1>7 DEF CleanInv, RingInv, SessionInv

\* Every step keeps it: a step to a Clean state comes from one.
LEMMA SaveInvStep == BasicInv /\ FilesInv /\ SaveInv /\ [Next]_vars => SaveInv'
<1> SUFFICES ASSUME BasicInv, FilesInv, SaveInv, [Next]_vars, Clean' PROVE CleanInv'
  BY OwnerInvStep DEF SaveInv
<1>1. OwnerInv /\ CleanInv
  BY CleanBefore DEF SaveInv
<1>2. CASE UNCHANGED vars
  BY <1>1, <1>2, CleanStutter
<1>3. CASE Program
  <2>1. ASSUME NEW s \in Savers, CallInit(s) \/ CallDestroy(s) PROVE CleanInv'
    <3>1. PICK d \in Devices : TRUE
      BY SaveAssumption
    <3>2. QED
      BY <1>1, <2>1, CleanCall
  <2>2. ASSUME NEW s \in Savers, NEW d \in Devices,
               CallBegin(s, d) \/ CallBeginFails(s, d) \/ CallEnd(s, d)
        PROVE  CleanInv'
    BY <1>1, <2>2, CleanCall
  <2>3. CASE Continue
    BY <1>1, <2>3, CleanGoesOn, CleanForget, CleanZero, CleanStart DEF Continue
  <2>4. QED
    BY <1>3, <2>1, <2>2, <2>3 DEF Program
<1>4. ASSUME NEW d \in Devices, BackgroundTask(d) PROVE CleanInv'
  BY <1>1, <1>4, CleanBeforePush, CleanLoadHead, CleanFill, CleanStores
  DEF BackgroundTask, Deliver
<1>5. ASSUME NEW t \in Sessions, Thread(t) PROVE CleanInv'
  BY <1>1, <1>5, CleanThreadMove, CleanCommit, CleanUncount, CleanWrite DEF Thread
<1>6. QED
  BY <1>2, <1>3, <1>4, <1>5 DEF Next

\* The invariant of the rows holds always.
LEMMA SaveInvariance == Spec => []SaveInv
  BY SaveInvInit, SaveInvStep, BasicInvariance, FilesInvariance, PTL DEF Spec

\* The file of a session holds packets of one device, in the order they arrived,
\* none twice, each row made of its own packet's fields, however the accesses of
\* pushes, pops and calls interleave, as long as the run is Clean (RowsInOrderOnce).
THEOREM RowsAreInOrder == Spec => []RowsInOrderOnce
<1>1. SaveInv => RowsInOrderOnce
  BY DEF SaveInv, CleanInv, PacketInv, SessionInv, SessionOK, RowsInv, RowsInOrderOnce
<1>2. QED
  BY <1>1, SaveInvariance, PTL

\* The packets in the ring of a session, as head, tail and count show them, and
\* the one its push has written and has not counted.
LEMMA RingIsQueue ==
    ASSUME BasicInv, CleanInv, NEW s \in Savers
    PROVE  InRing(s) = Queued(s) \cup
               {offered[d] : d \in {e \in Devices : savedTo[e] = s /\ at[e] \in Written}}
<1> DEFINE Offered == {offered[d] : d \in {e \in Devices : savedTo[e] = s /\ at[e] \in Written}}
<1>1. /\ Size(s) \in 0 .. QueueLength /\ Held(s) \in 0 .. QueueLength
      /\ count[s] \in 0 .. QueueLength /\ QueueLength \in Nat \ {0} /\ tail[s] \in Slots
  BY RingBounds, RingSize DEF CleanInv
<1>2. Queued(s) = {slots[s][At(tail[s], k)] : k \in 0 .. Held(s) - 1}
  BY DEF Queued, At
<1>3. CASE ~Pushing(s, Written)
  <2>1. Offered = {}
    BY <1>3 DEF Pushing
  <2>2. Base(s) = tail[s] /\ Size(s) = Held(s)
    BY <1>3 DEF Base, Size, Adding, Overwriting
  <2>3. QED
    BY <1>2, <2>1, <2>2 DEF InRing, Entry
<1>4. CASE Pushing(s, Written)
  <2>1. PICK d \in Devices : savedTo[d] = s /\ at[d] \in Written
    BY <1>4 DEF Pushing
  <2>2. PushOK(d) /\ at[d] \in PushPlaces
    BY <2>1 DEF CleanInv, RingInv, PushPlaces
  <2>3. /\ \A e \in Devices : savedTo[e] = s /\ at[e] \in Written => e = d
        /\ Entry(s, Size(s) - 1) = offered[d]
    BY <2>1, <2>2 DEF PushOK, PushPlaces
  <2>4. Offered = {offered[d]}
    BY <2>1, <2>3
  <2>5. \A q : q \in InRing(s) <=> \E k \in 0 .. Size(s) - 1 : q = Entry(s, k)
    BY DEF InRing
  <2>6. CASE Adding(s)
    <3>1. /\ Base(s) = tail[s] /\ Size(s) = Held(s) + 1 /\ Held(s) \in 0 .. QueueLength - 1
      BY <1>1, <2>6, RingBounds DEF Base, Size, Adding, Overwriting, CleanInv
    <3>2. \A q : q \in Queued(s) <=> \E k \in 0 .. Held(s) - 1 : q = Entry(s, k)
      BY <1>2, <3>1 DEF Entry
    <3>3. PICK n \in Nat : n = Held(s)
      BY <3>1
    <3>4. \A k \in 0 .. n : k = n \/ k \in 0 .. n - 1
      OBVIOUS
    <3>5. Entry(s, n) = offered[d] /\ Size(s) - 1 = n
      <4>1. Size(s) - 1 = n
        BY <3>1, <3>3
      <4>2. QED
        BY <2>3, <4>1
    <3>6. QED
      BY <2>4, <2>5, <3>2, <3>3, <3>4, <3>5
  <2>7. CASE Overwriting(s)
    <3>1. count[s] = QueueLength /\ ~Adding(s) /\ Base(s) = Succ(tail[s]) /\ Size(s) = Held(s)
      BY <1>1, <2>7 DEF Overwriting, Adding, Base, Size
    <3>2. ~Popping(s, {"uncount"})
      <4>1. \A t \in Sessions : tsaver[t] = s /\ tpc[t] = "uncount" => FALSE
        BY <2>7 DEF CleanInv, RingInv, PopOK, PopPlaces
      <4>2. QED
        BY <4>1 DEF Popping
    <3>3. Held(s) = QueueLength /\ Size(s) = QueueLength
      BY <3>1, <3>2 DEF Held
    <3>4. /\ \A k \in 0 .. QueueLength - 1 : At(Succ(tail[s]), k) = At(tail[s], k + 1)
          /\ At(tail[s], QueueLength) = tail[s] /\ At(tail[s], 0) = tail[s]
      BY <1>1, AtOfSucc, AtLap
    <3>5. /\ \A q : q \in InRing(s) <=>
                 \E k \in 0 .. QueueLength - 1 : q = slots[s][At(tail[s], k + 1)]
          /\ \A q : q \in Queued(s) <=>
                 \E k \in 0 .. QueueLength - 1 : q = slots[s][At(tail[s], k)]
      BY <1>2, <2>5, <3>1, <3>3, <3>4 DEF Entry
    <3>6. ASSUME NEW q, q \in InRing(s) PROVE q \in Queued(s)
      <4>1. PICK k \in 0 .. QueueLength - 1 : q = slots[s][At(tail[s], k + 1)]
        BY <3>5, <3>6
      <4>2. CASE k = QueueLength - 1
        <5>1. k + 1 = QueueLength /\ 0 \in 0 .. QueueLength - 1
          BY <1>1, <4>2
        <5>2. QED
          BY <3>4, <3>5, <4>1, <5>1
      <4>3. CASE k # QueueLength - 1
        <5>1. k + 1 \in 0 .. QueueLength - 1
          BY <1>1, <4>3
        <5>2. QED
          BY <3>5, <4>1, <5>1
      <4>4. QED
        BY <4>2, <4>3
    <3>7. ASSUME NEW q, q \in Queued(s) PROVE q \in InRing(s)
      <4>1. PICK k \in 0 .. QueueLength - 1 : q = slots[s][At(tail[s], k)]
        BY <3>5, <3>7
      <4>2. CASE k = 0
        <5>1. QueueLength - 1 \in 0 .. QueueLength - 1 /\ (QueueLength - 1) + 1 = QueueLength
          BY <1>1
        <5>2. QED
          BY <3>4, <3>5, <4>1, <4>2, <5>1
      <4>3. CASE k # 0
        <5>1. k - 1 \in 0 .. QueueLength - 1 /\ (k - 1) + 1 = k
          BY <1>1, <4>3
        <5>2. QED
          BY <3>5, <4>1, <5>1
      <4>4. QED
        BY <4>2, <4>3
    <3>8. offered[d] \in InRing(s)
      <4>1. Size(s) - 1 \in 0 .. Size(s) - 1
        BY <1>1, <3>3
      <4>2. QED
        BY <2>3, <2>5, <4>1
    <3>9. QED
      BY <2>4, <3>6, <3>7, <3>8
  <2>8. QED
    BY <1>1, <1>4, <2>6, <2>7 DEF Adding, Overwriting
<1>5. QED
  BY <1>3, <1>4

\* While a session is going on, what was pushed into its ring and is not in its file
\* yet is in the hands of the thread or of a push, in the ring, or was overwritten in
\* a full ring, at every access to the ring, as long as the run is Clean.
THEOREM NothingIsLost == Spec => []NothingLostWhileSaving
<1>1. SaveInv /\ BasicInv => NothingLostWhileSaving
  <2>1. SUFFICES ASSUME SaveInv, BasicInv, Clean, NEW f \in open, InSession(f)
                 PROVE  accepted[f] = RowsOf(f) \cup InFlight(f) \cup Queued(tsaver[f])
                                                \cup dropped[f]
    BY DEF NothingLostWhileSaving
  <2>z. 0 \notin Sessions
    BY RingSize DEF Sessions
  <2>2. PICK s \in Savers : s = tsaver[f]
    BY <2>1 DEF BasicInv, TypeOK
  <2>3. CleanInv /\ f \in Sessions /\ file[s] = f /\ tpc[f] \notin {"none", "opened"}
    BY <2>1, <2>2 DEF SaveInv, BasicInv, TypeOK, InSession
  <2>4. Going(f)
    BY <2>1, <2>2, <2>3, <2>z DEF Going, Listening
  <2>5. accepted[f] = RowsOf(f) \cup Hand(f) \cup InRing(s) \cup dropped[f]
    BY <2>2, <2>3, <2>4 DEF CleanInv, SessionInv, SessionOK, Accounted
  <2>6. \A u \in Sessions : Alive(u) /\ tsaver[u] = s => u = f
    BY <2>3, <2>z DEF CleanInv, ThreadInv
  <2>7. \A u \in Sessions : tsaver[u] = s
            /\ tpc[u] \in {"uncount", "format", "print", "test", "write"} => u = f
    BY <2>6 DEF Alive
  <2>8. PICK Offered :
            Offered = {offered[d] : d \in {e \in Devices : savedTo[e] = s /\ at[e] \in Written}}
    OBVIOUS
  <2>9. InFlight(f) = Offered \cup Hand(f)
    <3>1. CASE tpc[f] \in {"uncount", "format", "print"}
      <4>1. /\ {u \in Sessions : tsaver[u] = s /\ tpc[u] \in {"uncount", "format", "print"}} = {f}
            /\ {u \in Sessions : tsaver[u] = s /\ tpc[u] \in {"test", "write"}} = {}
        BY <2>2, <2>3, <2>7, <3>1
      <4>2. QED
        BY <2>2, <2>8, <3>1, <4>1 DEF InFlight, Hand
    <3>2. CASE tpc[f] \in {"test", "write"}
      <4>1. /\ {u \in Sessions : tsaver[u] = s /\ tpc[u] \in {"uncount", "format", "print"}} = {}
            /\ {u \in Sessions : tsaver[u] = s /\ tpc[u] \in {"test", "write"}} = {f}
        BY <2>2, <2>3, <2>7, <3>2
      <4>2. QED
        BY <2>2, <2>8, <3>2, <4>1 DEF InFlight, Hand
    <3>3. CASE tpc[f] \notin {"uncount", "format", "print", "test", "write"}
      <4>1. /\ {u \in Sessions : tsaver[u] = s /\ tpc[u] \in {"uncount", "format", "print"}} = {}
            /\ {u \in Sessions : tsaver[u] = s /\ tpc[u] \in {"test", "write"}} = {}
        BY <2>3, <2>7, <3>3
      <4>2. QED
        BY <2>2, <2>8, <3>3, <4>1 DEF InFlight, Hand
    <3>4. QED
      BY <3>1, <3>2, <3>3
  <2>10. InRing(s) = Queued(s) \cup Offered
    BY <2>1, <2>3, <2>8, RingIsQueue
  <2>11. QED
    BY <2>2, <2>5, <2>9, <2>10
<1>2. QED
  BY <1>1, SaveInvariance, BasicInvariance, PTL

=============================================================================
